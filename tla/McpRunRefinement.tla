-------------------------- MODULE McpRunRefinement --------------------------
(* McpRun as an implementation of RunService.                              *)
EXTENDS McpRun

\* What the client can see of a handler: whether it has taken the request, whether it has
\* started the command, and whether it has answered.
PhaseOf(c) ==
    CASE pc[c] = "idle" -> "idle"
      [] pc[c] = "returned" -> "returned"
      [] pc[c] \notin {"idle", "returned"} /\ leader[c] = "none" -> "pending"
      [] pc[c] \notin {"idle", "returned"} /\ leader[c] # "none" -> "running"

\* The answer is sent when the handler returns.
ToldOf(c) == IF pc[c] = "returned" THEN answer[c] ELSE "none"

Service == INSTANCE RunService WITH
    phase <- [c \in Calls |-> PhaseOf(c)],
    told <- [c \in Calls |-> ToldOf(c)]

\* The server keeps the promises a client relies on, whatever the interleaving of its handlers,
\* os/exec, the commands, the deadlines and the end of the session (mcp.go, mcp_run.go).
ImplementsService == Service!ServiceSpec
=============================================================================
