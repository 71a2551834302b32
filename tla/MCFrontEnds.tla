---------------------------- MODULE MCFrontEnds ----------------------------
(***************************************************************************)
(* The policy proxy, opq exec and audit_tail for TLC, one at a time: an    *)
(* initial state starts one of them and finds the other two at rest, where *)
(* they have no step left. They share nothing, so the graph is the sum of  *)
(* theirs.                                                                 *)
(***************************************************************************)
EXTENDS PolicyProxy, ExecCli, AuditTailView

CONSTANTS c1, c2

-----------------------------------------------------------------------------
(* Hosts *)

Plain ==
    [os |-> "linux", usable |-> TRUE, home |-> <<"home", "u">>, homeSet |-> TRUE,
     state |-> <<"home", "u", ".local", "state">>, present |-> {}, agent |-> {},
     link |-> [from |-> <<"nowhere">>, to |-> <<"nowhere">>]]

Docker == <<"run", "docker.sock">>
Dbus == <<"run", "dbus">>

\* Homes and state directories in ordinary and in awkward places, sockets that are there or not.
LinuxHosts ==
    {[Plain EXCEPT !.usable = u, !.home = h, !.homeSet = set, !.state = s, !.present = p, !.link = l] :
        u \in {TRUE}, set \in BOOLEAN,
        h \in {<<"home", "u">>, <<"usr", "home", "u">>, <<"root">>},
        s \in {<<"home", "u", ".local", "state">>, <<"tmp", "x">>, <<"usr", "share">>},
        p \in SUBSET {Docker, Dbus, <<"home", "u", ".gnupg">>, <<"root", ".docker", "run", "docker.sock">>},
        l \in {Plain.link, [from |-> <<"home">>, to |-> <<"usr", "home">>],
               [from |-> <<"run">>, to |-> <<"var", "run">>]}}

DarwinHosts ==
    {[Plain EXCEPT !.os = "darwin", !.home = h, !.homeSet = set, !.state = s, !.agent = a, !.link = l] :
        set \in BOOLEAN,
        h \in {<<"Users", "u">>, <<"var", "u">>},
        s \in {<<"Users", "u">>, <<"tmp", "x">>},
        a \in {{}, {<<"tmp", "agent">>}},
        l \in {[from |-> <<"var">>, to |-> <<"private", "var">>], [from |-> <<"tmp">>, to |-> <<"private", "tmp">>]}}

Contain == {Plain, [Plain EXCEPT !.os = "darwin"], [Plain EXCEPT !.usable = FALSE]}
AllHosts == LinuxHosts \cup DarwinHosts \cup Contain

\* What an invocation may ask, with the conditions of the gate met or not.
AllInvocations ==
    {[noRedact |-> raw, human |-> human, tty |-> tty, env |-> env, profile |-> profile] :
        raw \in BOOLEAN, human \in BOOLEAN, tty \in BOOLEAN, env \in 0..1, profile \in {"none", "net"}}

\* One that the gate refuses.
Dull == [noRedact |-> TRUE, human |-> FALSE, tty |-> FALSE, env |-> 0, profile |-> "net"]

RuntimeFiles == {Docker}
RuntimeDirs == {Dbus}

-----------------------------------------------------------------------------
(* One at a time *)

ProxyAtRest ==
    /\ ServiceInit
    /\ proxy = "exited" /\ killed = TRUE /\ taken = 0
    /\ stage = [c \in Calls |-> "idle"]
    /\ wait = [c \in Calls |-> "live"]
    /\ status = [c \in Calls |-> "none"]
    /\ age = 0 /\ alive = {} /\ heardAt = 0
    /\ endedAt = [c \in Calls |-> 0]

ExecAtRest ==
    /\ run = Dull /\ host = Plain
    /\ step = "returned" /\ outcome = "error"
    /\ signaled = "no" /\ queue = 0
    /\ terminal = "none" /\ closer = "none" /\ gate = "none"
    /\ held = 0 /\ entries = {}
    /\ leader = "none" /\ kin = {}
    /\ copier = "none" /\ watch = "none" /\ watchErr = "nil" /\ runErr = "nil"
    /\ forwarder = "none"

TailAtRest ==
    /\ older = <<>> /\ current = <<>>
    /\ entry = [e \in 1..MaxEntries |-> [caller |-> "cli", action |-> "get", tokens |-> {}, nonce |-> ""]]
    /\ reader = [r \in Readers |-> "failed"]
    /\ limit = [r \in Readers |-> 1]
    /\ nonce = [r \in Readers |-> ""]
    /\ view = [r \in Readers |-> <<>>]

\* Every invocation where only the kind of sandbox matters, and the shortest on every host.
ExecStarts ==
    /\ ExecInit
    /\ \/ run = Dull
       \/ host \in Contain /\ (run.human \/ run.noRedact) /\ (run.profile = "none" => host = Plain)

Start1 ==
    \/ ProxyInit /\ ExecAtRest /\ TailAtRest
    \/ ProxyAtRest /\ ExecStarts /\ TailAtRest
    \/ ProxyAtRest /\ ExecAtRest /\ TailInit

Step1 ==
    \/ ProxyNext /\ UNCHANGED <<execVars, tailVars>>
    \/ ExecNext /\ UNCHANGED <<proxyVars, tailVars>>
    \/ TailNext /\ UNCHANGED <<proxyVars, execVars>>

FrontSpec ==
    /\ Start1 /\ [][Step1]_<<proxyVars, execVars, tailVars>>
    /\ ProxyFairness /\ ExecFairness
=============================================================================
