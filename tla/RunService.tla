----------------------------- MODULE RunService -----------------------------
(***************************************************************************)
(* What a client of the opq server may rely on, without a word about how   *)
(* the server does it: a request for a run_with_secrets is answered once;  *)
(* at most Slots commands run at a time and none starts for a request that *)
(* is over; "success" and "failure" are only said of a command that ran;   *)
(* "timed_out" only after the request's deadline; and the server does not  *)
(* exit over a request it has taken. McpRun implements it, PolicyProxy is  *)
(* a client of it.                                                         *)
(***************************************************************************)
EXTENDS Naturals, FiniteSets

CONSTANTS
    Calls,       \* the requests the client makes
    Slots        \* how many commands may run at a time

ASSUME RunServiceAssumption == IsFiniteSet(Calls) /\ Slots \in Nat \ {0}

VARIABLES
    server,      \* "up", "canceled" (its client is gone) or "exited"
    phase,       \* a request: "idle" (not taken), "pending", "running" or "returned"
    ctx,         \* its context: "live", "canceled" or "deadline"
    told         \* what the client is told

service == <<server, phase, ctx, told>>

Running == {c \in Calls : phase[c] = "running"}

Declined == {"request_canceled", "server_busy", "rejected", "denied", "exec_start_failed", "timed_out"}
Completed == {"success", "failure", "exec_start_failed", "timed_out"}

ServiceInit ==
    /\ server = "up"
    /\ phase = [c \in Calls |-> "idle"]
    /\ ctx = [c \in Calls |-> "live"]
    /\ told = [c \in Calls |-> "none"]

Take(c) ==
    /\ phase[c] = "idle"
    /\ server # "exited"
    /\ phase' = [phase EXCEPT ![c] = "pending"]
    /\ ctx' = [ctx EXCEPT ![c] = IF server = "up" THEN "live" ELSE "canceled"]
    /\ UNCHANGED <<server, told>>

End(c, cause) ==
    /\ phase[c] \in {"pending", "running"}
    /\ ctx[c] = "live"
    /\ ctx' = [ctx EXCEPT ![c] = cause]
    /\ UNCHANGED <<server, phase, told>>

Begin(c) ==
    /\ phase[c] = "pending"
    /\ ctx[c] = "live"
    /\ Cardinality(Running) < Slots
    /\ phase' = [phase EXCEPT ![c] = "running"]
    /\ UNCHANGED <<server, ctx, told>>

Answer(c, from, replies) ==
    /\ phase[c] = from
    /\ phase' = [phase EXCEPT ![c] = "returned"]
    /\ \E reply \in replies :
          /\ reply = "timed_out" => ctx[c] = "deadline"
          /\ told' = [told EXCEPT ![c] = reply]
    /\ UNCHANGED <<server, ctx>>

Decline(c) == Answer(c, "pending", Declined)

Complete(c) == Answer(c, "running", Completed)

ClientLeaves ==
    /\ server = "up"
    /\ server' = "canceled"
    /\ UNCHANGED <<phase, ctx, told>>

Exit ==
    /\ server = "canceled"
    /\ \A c \in Calls : phase[c] \in {"idle", "returned"}
    /\ server' = "exited"
    /\ UNCHANGED <<phase, ctx, told>>

ServiceNext ==
    \/ ClientLeaves \/ Exit
    \/ \E c \in Calls :
         \/ Take(c) \/ Begin(c) \/ Decline(c) \/ Complete(c)
         \/ \E cause \in {"canceled", "deadline"} : End(c, cause)

ServiceSpec == ServiceInit /\ [][ServiceNext]_service
=============================================================================
