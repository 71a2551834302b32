----------------------------- MODULE MCAuditLog -----------------------------
(* Instances of AuditLog for TLC. *)
EXTENDS AuditLog, TLC

CONSTANTS p1, p2, t1, t2, t3

\* An MCP server with two handlers, and a command-line process.
ServerAndCli == (t1 :> p1) @@ (t2 :> p1) @@ (t3 :> p2)

\* Command-line processes.
AloneEach == (t1 :> p1) @@ (t2 :> p2)

\* What the documentation says of audit.log (docs/src/reference/audit-log.md):
\* one JSON object per line, so an event whose append succeeded has a line of
\* its own.
OneObjectPerLine ==
    [][\A t \in Tasks :
        pc[t] = "sync" /\ out'[t] = "ok" =>
            \E k \in 1..Len(At(active)) :
                At(active)[k] = [events |-> <<event[t]>>, ended |-> TRUE]]_vars
=============================================================================
