------------------------------ MODULE Sandbox ------------------------------
(***************************************************************************)
(* What a sandboxed command can see: sandbox.go, sandbox_linux.go and      *)
(* sandbox_darwin.go. A wrapped command is a sequence of layers over the   *)
(* host's files, later ones on top, and whether it has the network. On     *)
(* Linux a layer is a group of bwrap mounts; under Seatbelt, which can     *)
(* only refuse, a group of deny rules. A path is the sequence of its       *)
(* names. A host may have one directory that is a symbolic link: the       *)
(* kernel sees the path behind it, and a mask must name that one.          *)
(***************************************************************************)
EXTENDS Naturals, Sequences

CONSTANTS
    SocketFiles,    \* runtimeSocketFiles
    SocketDirs      \* runtimeSocketDirs

Profiles == {"none", "net", "full", "net-allowed"}
Paths == Seq(STRING)
Root == <<>>

ASSUME SocketsAssumption == SocketFiles \cup SocketDirs \subseteq Paths
\* The names below are strings, which no prover knows of a literal.
ASSUME LiteralsAssumption ==
    {".local", "state", "opq-policy", "policy.lock", "opq", "audit.log",
     ".gnupg", ".docker", "run", "docker.sock", ".ssh", "var",
     "usr", "etc", "lib", "lib64", "bin", "sbin"} \subseteq STRING

Under(path, dir) == Len(dir) <= Len(path) /\ SubSeq(path, 1, Len(dir)) = dir

\* A path as the kernel resolves it on a host, which is a record: [os, usable, home, homeSet,
\* state, present, agent, link].
Real(host, path) ==
    IF Under(path, host.link.from)
    THEN host.link.to \o SubSeq(path, Len(host.link.from) + 1, Len(path))
    ELSE path

PolicyDir(host) == Real(host, host.home \o <<".local", "state", "opq-policy">>)
PolicyLock(host) == (host.home \o <<".local", "state", "opq-policy">>) \o <<"policy.lock">>
AuditDir(host) == Real(host, host.state \o <<"opq">>)
AuditFile(host) == (host.state \o <<"opq">>) \o <<"audit.log">>

HomeTmpfs == {<<".gnupg">>}
HomeFiles == {<<".docker", "run", "docker.sock">>}
HomeDenied == HomeTmpfs \cup HomeFiles \cup {<<".ssh">>}
InHome(host, names) == IF host.homeSet THEN {host.home \o name : name \in names} ELSE {}

Layer(paths, as) == [over |-> paths, as |-> as]

\* Masks for what is there when the command is wrapped.
SocketMasks(host, paths) == {Real(host, p) : p \in paths \cap host.present}

\* Mutant: the host's root is bound after the masks.
RootLast(host) ==
    << Layer({<<"proc">>}, "proc"),
       Layer({<<"dev", "shm">>, <<"run", "user">>, <<"tmp">>, AuditDir(host)}, "empty"),
       Layer(SocketMasks(host, SocketFiles), "null"),
       Layer(SocketMasks(host, SocketDirs), "empty"),
       Layer(SocketMasks(host, InHome(host, HomeFiles)), "null"),
       Layer(SocketMasks(host, InHome(host, HomeTmpfs)), "empty"),
       Layer({Root}, "host"),
       Layer({PolicyDir(host)}, "empty") >>

\* sandboxNetArgvCommon and what WrapCommand adds: the root first, or it would hide the masks;
\* of the sockets, files before directories.
BwrapNet(host) ==
    << Layer({Root}, "host"),
       Layer({<<"proc">>}, "proc"),
       Layer({<<"dev", "shm">>, <<"run", "user">>, <<"tmp">>, AuditDir(host)}, "empty"),
       Layer(SocketMasks(host, SocketFiles), "null"),
       Layer(SocketMasks(host, SocketDirs), "empty"),
       Layer(SocketMasks(host, InHome(host, HomeFiles)), "null"),
       Layer(SocketMasks(host, InHome(host, HomeTmpfs)), "empty"),
       Layer({PolicyDir(host)}, "empty") >>

SystemRoots == {<<"usr">>, <<"etc">>, <<"lib">>, <<"lib64">>, <<"bin">>, <<"sbin">>}
Exposed(path) == \E root \in SystemRoots : Under(path, root)

BwrapFull(host) ==
    << Layer(SystemRoots, "host"),
       Layer({<<"proc">>, <<"dev">>}, "system"),
       Layer({<<"tmp">>, <<"home">>, <<"dev", "shm">>}, "empty"),
       Layer(IF Exposed(PolicyDir(host)) THEN {PolicyDir(host)} ELSE {}, "empty") >>

SeatbeltNet(host) ==
    {PolicyDir(host), AuditDir(host), Real(host, <<"var", "run", "docker.sock">>)}
        \cup {Real(host, p) : p \in InHome(host, HomeDenied)}
        \cup {Real(host, p) : p \in host.agent}

SeatbeltFull(host) ==
    {PolicyDir(host)}
        \cup {<<"Users">>, <<"private", "var", "root">>}
        \cup {Real(host, p) : p \in InHome(host, {<<>>})}
        \cup {<<"tmp">>, <<"private", "tmp">>, <<"private", "var", "tmp">>, <<"private", "var", "folders">>}

\* VerifySandboxAvailable: the tool is there, recent enough, and a trial run works.
Available(host) == host.usable

\* WrapCommand, for a profile other than none on a host where the sandbox is available.
Wrapped(host, profile) ==
    [network |-> profile = "net-allowed",
     layers |->
        IF host.os = "linux"
        THEN IF profile = "full" THEN BwrapFull(host) ELSE BwrapNet(host)
        ELSE << Layer({Root}, "host"),
                Layer(IF profile = "full" THEN SeatbeltFull(host) ELSE SeatbeltNet(host), "denied") >>]

-----------------------------------------------------------------------------
(* What a command sees *)

\* The topmost layer over a path the kernel resolved.
Seen(launch, path) ==
    LET over == {i \in DOMAIN launch.layers : \E dir \in launch.layers[i].over : Under(path, dir)}
    IN  IF over = {} THEN "nothing"
        ELSE launch.layers[CHOOSE i \in over : \A j \in over : j <= i].as

Hidden(host, launch, path) == Seen(launch, Real(host, path)) # "host"

\* Sockets that would let a command act for the operator. bwrap's network namespace does not
\* cut them; Seatbelt's denial of the network does.
Agents(host) ==
    IF host.os = "linux"
    THEN host.present \cap (SocketFiles \cup SocketDirs \cup InHome(host, HomeTmpfs \cup HomeFiles))
    ELSE InHome(host, HomeDenied) \cup host.agent \cup {<<"var", "run", "docker.sock">>}

Unreachable(host, launch, path) ==
    Hidden(host, launch, path) \/ (host.os = "darwin" /\ ~launch.network)

\* Homes the full profile does not promise to hide: those of an account database that puts
\* them among the system's directories, and those Seatbelt is not told of.
HomeKnown(host) == IF host.os = "linux" THEN ~Exposed(Real(host, host.home)) ELSE host.homeSet

Hides(host, profile) ==
    LET launch == Wrapped(host, profile) IN
    /\ Hidden(host, launch, PolicyLock(host))
    /\ profile # "full" => Hidden(host, launch, AuditFile(host))
    /\ profile # "full" => \A path \in Agents(host) : Unreachable(host, launch, path)
    /\ profile = "full" /\ HomeKnown(host) => Hidden(host, launch, host.home)
    /\ launch.network <=> profile = "net-allowed"
=============================================================================
