# A TLA+ model of opq

`opq` keeps secrets in the platform keyring and lets commands and AI clients use
them without showing them. This directory specifies the parts of it whose
correctness depends on order, failure and concurrency, checks them with TLC on
small instances, and proves the main safety properties with TLAPS for every
value of the constants. Paths below are relative to the repository.

To run everything in one module: `tlc -config MCAuditLog.cfg MCAuditLog.tla`,
`tlapm AuditLogProofs.tla`. `PROJECT.json` lists the runs, the theorems, the
source lines each definition stands for, and for each property a plausible bug
(a "Mutant" definition in the module) that makes TLC report it violated.

## 1. The system

| Part | Code | State it keeps | Operations |
| --- | --- | --- | --- |
| secret store | `policy.go` over `backend.go` | two keyring items per name (value, `meta/` policy item), `policy.lock` | resolve, store, delete, revoke, prune, prune --dry-run |
| audit log | `audit.go` | `audit.log`, `audit.log.1`, `audit.lock`; per process: cached descriptor, `auditMu` | append (with rotation), tail |
| redactor | `redact.go`, `mcp_output.go` | shared patterns, per stream: holdover, cap, flags | Write, Flush, Destroy |
| MCP server, `run_with_secrets` | `mcp.go`, `mcp_run.go`, `process_unix.go` | run slots, lifetime context; per call: context, buffers, child process | handler, disconnect, cancellation |
| MCP `audit_tail`, `list_secrets` | `mcp_audit_tail.go`, `mcp_audit_filter.go`, `mcp_list.go` | none of their own | read, filter |
| `opq exec` and the gate | `cmd_exec.go`, `gate.go`, `process_unix.go` | context, signal channel, terminal, buffers, child | confirm, resolve, run, forward signals |
| sandbox | `sandbox*.go`, `env_policy.go` | none | wrap a command: mounts or deny rules, network |
| policy proxy (example) | `examples/policy-proxy/main.go` | two slots, lifetime, upstream session | fixed operations, shutdown |

How they meet. Commands and tool handlers resolve secrets through the store
(shared lock), which is updated by other processes (exclusive lock). They append
to the audit log from several processes at once and ignore its errors. `opq exec`
and `run_with_secrets` start a command with the secrets in its environment and
pass its output through a pair of redactors; in an MCP run a capped writer
follows. A cancellation, a deadline or a lost client ends a handler's context,
which os/exec turns into a SIGKILL of the command's process group; under
`opq exec` a signal is forwarded to the command first, and only the end of
WaitDelay kills. Both run their commands through the sandbox, which must hide
`policy.lock`, the audit log and the agents' sockets from them. The proxy is a
client of `opq mcp`: it knows only what the server answers, and must end the
server's commands with it.

What is hard:

- **failure between two keyring calls** of one update (no call spans value and
  policy item), and processes that die there;
- **stale reads**: an expiry that passes while a resolve waits; a descriptor of
  a log file that another process has rotated away; a name listed by a prune and
  stored again since;
- **order across processes**: rotation against readers and writers;
- **pieces**: a secret cut anywhere between two writes, the cap reached inside a
  token, one of two writers destroyed first;
- **cancellation** at any step: lock waits, announcements, the race between the
  exit of a command, its pipes, the deadline and the kill;
- **signals** at any step of `opq exec`: during the confirmation, between two
  resolves, between the exit of the command and the join of the forwarder;
- **two deadlines for one run** in the proxy, an answer that comes after the
  proxy gave up, and a shutdown that must not orphan what the upstream started;
- **position**: which entry of the log is one's own, where a record begins in a
  block, which mount lies over which;
- **every error path** must release the lock, the slot and the buffers.

`PROJECT.json` lists these hazards with the line where each bites and the
properties that would fail.

## 2. What correctness means, per part

- Store: a value that can be read has the policy it was stored with; what was
  hidden never becomes readable again; a release is of the current version,
  before its expiry; a prune removes only expired versions; a tombstone stays;
  the whole behaves like an atomic registry; every call returns.
- Audit log: the two files hold exactly the most recent lines, in order, with a
  full rotation kept; a tail is the end of the log at one moment; a cancelled
  wait ends; every call returns.
- Redactor: the first byte of a secret never comes out; the output does not
  depend on how the text was cut; patterns are alive while anybody scans.
- `run_with_secrets`: slots are exact; a returned call left nothing behind; the
  answer is true; the audit entries are there; a disconnect ends it; it
  implements a service its clients can rely on without knowing os/exec.
- Policy proxy: slots are exact; a status is true; it exits once its agent is
  gone, and never over a running command; a run nobody waits for ends.
- `opq exec`: nothing starts unconfirmed or unrecorded; it returns after a
  signal, with nothing left behind and the command's own status.
- `audit_tail`: the last n entries an AI may see, exactly, and nothing else.
- Sandbox: what a profile promises to hide is hidden, wherever home, state
  directory and links lie.

## 3. The modules

| Module | What it is |
| --- | --- |
| `SecretPolicy` | the store, one keyring or lock call per step |
| `SecretRegistry` | abstract: an atomic registry that shows each version at most once |
| `SecretPolicyRefinement` | the mapping of the first onto the second |
| `AuditLog` | the audit log, processes and goroutines |
| `Redactor` | the pair of writers, one iteration of `scan` per step |
| `RedactorExact` | the reference: the whole output redacted at once, and the invariant that ties the writers to it |
| `McpRun` | concurrent `run_with_secrets` calls with os/exec and the commands |
| `RunService` | abstract: what a client of `run_with_secrets` may rely on |
| `McpRunRefinement` | the mapping of `McpRun` onto it |
| `PolicyProxy` | the proxy, composed with `RunService` as its upstream |
| `Sandbox` | operators: the layers of each profile, and what a command sees |
| `ExecCli` | `opq exec`: signals, gate, os/exec, the command; uses `Sandbox` |
| `AuditTailView` | `audit_tail` over the bytes of the log |
| `MC...` | instances for TLC, and reference definitions only TLC evaluates |
| `...Proofs` | the theorems |

Correspondence of state and actions:

- **SecretPolicy.** `value[n]`, `meta[n]` are the keyring items; `lock[p]` the
  caller's hold on `policy.lock`; `pc`, `held`, `seen`, `todo`, `asOf` the local
  variables of `resolveSecret`, `storeSecret`, `deleteSecretLocked`,
  `revokeSecret`, `pruneSecret`. An action is one keyring call with the code up
  to the next: `MarkPending, PutValue, Commit` (store), `ProbeMeta, DropValue,
  DropMeta` (delete), `LoadRevoked, WipeValue, WriteTomb` (revoke), `LoadPolicy,
  GetValue, Recheck` (resolve), `ListKeys, SweepNext, Judge` (prune). Any call
  may fail, a failed write may have been applied, and `Crash` may come anywhere.
- **AuditLog.** `active`, `rotated`, `content` are the files, `fd[p]` is
  `auditFile`, `mutex` is `auditMu`, `flock` the advisory lock. The actions are
  the two waits, checking the cached descriptor (`Ensure`), the rename of a
  rotation (`Rotate`) and the open that completes it (`Reopen`), write, fsync,
  and the two reads of a tail. `logged` and `dropped` are history.
- **Redactor.** `work`, `at`, `emitUpTo`, `out` are the locals of `scan`;
  `Replace, Suppress, HoldOver, PassOn, ScanEnds` its branches. `CappedWrite` and
  `FileWrite` are the two sinks. `fed` and the positions in `kept` are history.
- **McpRun.** `slots` is `len(mcpRunSlots)`, `ctx[c]` the handler's context,
  `pc[c]` where the handler is, `watch[c]` the goroutine `watchCtx` of os/exec,
  `copier[c]` its output goroutines, `leader[c]` and `kin[c]` the processes.
  os/exec (Start, Wait, `watchCtx`, `awaitGoroutines`) is outside the repository
  and modelled from how `mcp_run.go` and `process_unix.go` use and configure it.
  `bwrap` distinguishes the Linux sandbox, whose PID namespace dies with the
  leader, from Seatbelt, under which descendants can outlive it.
- **RunService** has four variables: the server, and for each request its phase,
  its context and its answer. A request is `running` from the fork to the answer.
  It may be declined with `server_busy` at any time: that slots are not leaked is
  said by `IndInv` of `McpRun`, not by this service.
- **PolicyProxy.** `taken` is `len(slots)`, `stage[c]` where a proxied call
  stands, `wait[c]` the context of its `CallTool`. The steps of the upstream are
  those of `RunService`, guarded by what the proxy has sent: `Delivered` (the
  request), `Withdrawn` (`notifications/cancelled`), `HungUp` (stdin closed).
  `alive` is the set of calls whose command, or what it left in its process group,
  runs; a run answers only when its group is gone, which is `NothingLeftBehind` of
  `McpRun`. This is the one place where a model counts time, from the close of
  stdin on (`age`), because the code sets one clock against another. `KillUpstream`
  is the SDK's SIGKILL, two `TerminateDuration`s after the close, whatever the
  upstream is doing; the SIGTERM between them ends a lifetime that has ended
  already. Against it runs the news of the close, in three steps, each at most
  `Latency` late (`InTime`, which holds `Elapse` back): the upstream sees the end
  of its stdin, `AfterFunc` ends each context, the group is killed, at once or
  after the WaitDelay of 250 ms. `LatencyAssumption` asks that
  `3 * Latency < 2 * TerminateDuration`: with the second of `main.go:226`, 666 ms a
  step. It says nothing of commands, and nothing of handlers: one may hang in the
  keyring or in the write of its audit entry until it is killed. A SIGKILL that
  came after one `TerminateDuration` would break `ProxyExitIsClean`.
- **ExecCli.** `step` is where `Run` stands; `signaled` is the context of
  `NotifyContext` (a signal has come, the context is done), `queue` is
  `len(sigCh)`; `terminal` and `closer` are `/dev/tty` and the callback of
  `AfterFunc` that closes it; the other variables are those of `McpRun` for one
  command. The differences are the point: `Cancel` does nothing, `KillCommand`
  (the end of WaitDelay) kills the leader alone, output without redaction is not
  copied, and a command with a terminal has no group of its own.
- **Sandbox.** `BwrapNet`, `BwrapFull`, `SeatbeltNet`, `SeatbeltFull` give the
  layers of a wrapped command over a host; `Seen` is the topmost. A host is a
  record of where home, state directory and sockets are, with one symbolic link; a
  mask lies over the resolved path of a socket that exists (`SocketMasks`).
- **AuditTailView.** `older` and `current` are the bytes of the two files;
  `ReadTail` and `ScanBlock` are the backward reader: recursive functions that give
  the loop's variables after k blocks and after k bytes of a block (`end`, how many
  records are wanted, whether the scan is inside one); `Chosen` is the loop that
  appends the elements that pass a test. `FilterLines`, `StripSelf` and `Clamp` are
  the functions of those names. `AuditLog` has shown that a tail sees both files at
  one moment, so a tail is one step here; the appends between a call's own entry and its tail are not.

Abstractions. A secret value is the number of the store call that produced it.
Log lines are the events in them, sizes count lines. Bytes are small numbers, and
the base64 and hex forms a constant function. Crashes are of processes, not of
the machine: what `fsync` would lose is not modelled. Time in `McpRun` and
`ExecCli` is not counted: a timer may pass at any moment after it was set.
JSON is a whole record or a torn one, a message a set of tokens. Steps of
os/exec that no line of the repository configures (`Reap`, `Join`, `Drain`) are
written from how the code uses it and have no source line.

## 4. What the runs check

| Run | Instance | Shows |
| --- | --- | --- |
| `secret_policy` | 3 callers, 1 name, 3 calls, expiry in reach | all safety and action properties of the store, and that it implements `SecretRegistry` |
| `secret_liveness` | 2 callers, 2 names | every call returns |
| `prune_completeness` | 1 caller | **violated**, see section 7 |
| `audit_log` | a server with 2 handlers and a CLI process, 4 calls, rotation after 1 line | the log and the tails are exact |
| `audit_waiting` | the same, 3 calls | cancelled waits end, calls return |
| `audit_torn_line` | 2 CLI processes | **violated**, see section 7 |
| `redactor` | a capped and an uncapped stream, 4 bytes over 3 letters, 7 families of secrets | no form comes out, output exact and the invariant behind it (`ExactInv`), patterns alive |
| `redactor_overlap` | two overlapping secrets of 3 letters | **violated**, see section 7 |
| `mcp_run` | 2 calls for 1 slot, one with a secret and the network and one with neither, both sandboxes | slots, leftovers, answers, audit entries, and that it implements `RunService` |
| `front_ends` | the proxy with 2 calls and 1 slot of its own; one `opq exec` with and without redaction, human, terminal, secret and `net` profile, on 3 kinds of host, and a refused one on every host of the instance; one `audit_tail` call among 3 entries | the properties of `PolicyProxy`, `ExecCli`, `Sandbox` and `AuditTailView` |
| `mcp_run_ends` | 1 call | an ended run returns, a disconnect ends the server |
| `mcp_run_start_failure` | 1 call | **violated**, see section 7 |

Why the bounds are enough. The store's hazards need at most one update cut by a
crash or failure, a second update and a reader: three callers, three calls, and
names do not interact except through a prune's list (two names in
`secret_liveness`). The log's need a rotation by another process while a
descriptor is cached, and a rotation of that rotation: four lines with a
threshold of one. The redactor's need a form that is cut, one that is contained
in or overlaps another, and a cap inside a token: forms of at most three bytes,
a cap of three and a token of two. Calls of `run_with_secrets` meet only in the
slots and in the server's lifetime: two calls and one slot.
`front_ends` is the sum of three systems that share nothing: an initial state
starts one and finds the other two at rest, so that its graph is the union of
theirs and not the product. The proxy's hazards need two calls for a slot, one
of them abandoned; a latency of one and a `TerminateDuration` of two are the
smallest that meet the assumption, so a kill at the first timer would come in the
middle of the news; `opq exec` is alone in its process, and a queue of two signals
can be full; an entry of two bytes in blocks of two with a third for the newline
puts every record across a boundary, and five bytes rotate the file between the
first two entries and the third; `Most` is two so that a tail can be too short.
The hosts put the home and the state directory in ordinary places, under `/tmp`,
under `/usr` and behind the link, which is `/home`, `/run` or none on Linux and
`/var` or `/tmp` on macOS.
The bounds are the constants `MaxCalls`, `Horizon`, `MaxInput`, `Limit`,
`Inodes`, `MaxQueue`, `MaxEntries` and the sets of callers and calls; guards that
use them are the only places where the models stop early, and the programs do stop
there, so deadlock is not checked (an idle system is a legal end). `Elapse` stops
at the time of the SIGKILL, after which nothing is timed.

Fairness. The store's and the log's locks are polled (every 5 or 15 ms) until
they are free: the fairness is weak, on every caller that can move, and on the
callers' own steps because each is a finite call. It does not promise that an
exclusive waiter gets a lock that readers overlap on for ever; in the bounded
instances the readers run out. `CancelledWaitEnds` asks nothing of the lock's
holder, which may hang in a system call. In `McpRun` the kernel, timers and
goroutines are fair; commands, clients and the native keyring are not (the
commands may run and hold pipes for ever, a keyring call may hang), and no
fairness is put on the deadline: the two properties are about contexts that have
ended, by whichever cause. In `PolicyProxy` the proxy's goroutines, the two pipes,
the SDK's timers, the upstream's `AfterFunc` and the kill of an ended run's group
are fair; agents, deadlines, commands, the keyring and the handlers of the upstream
are not, and neither is its exit: the proxy ends because it kills. In `ExecCli`
the steps of `Run`, the kernel and the timers are fair; the operator (who may never type the confirmation), the
command, its descendants and the keyring (`Resolve`) are not, and
`SignaledExecReturns` excepts a run that waits for the keyring.

## 5. What is proved

`tlapm` checks every step; the assumptions are the named `ASSUME`s of the
modules, nothing else. All theorems of the form `Spec => []P` follow the same
path: an invariant `IndInv` that contains `P`, or from which `P` follows, holds
initially and is kept by each action.

- **SecretPolicyProofs**: `TypeOK`, `ReadableValueHasItsPolicy`,
  `ReleasesAreCurrent`. `ReadableValueHasItsPolicy` is not inductive: it needs
  that the lock excludes, that a caller holds it exactly inside its transaction,
  and that what the caller has read or written of the two items still stands
  (`WriterProgress`, `ReaderProgress`). `WriterProgress` is the protocol: while
  a value is being replaced, the item beside it hides it.
  On the same invariant: `NoResurrection` (only a commit shows another version,
  and no two stores carry the same one), `TombstoneStays`, and
  `PruneTakesOnlyExpired`, which adds to the invariant that what a prune has
  judged expired still is when it removes it (`PruneInv`).
  And `ImplementsRegistry`: a start is the registry's `Issue`, a commit its
  `Publish`, any other write of the keyring that hides a version its `Withdraw`,
  the last expiry test of a read its `Grant`, the clock its `Elapse`; every other
  step is a stutter.
- **AuditLogProofs**: `LogIsExact`, `KeepsAFullRotation`, `TailIsExact`. The
  invariant says that a task holds its locks exactly where the code says it does
  and that an exclusive holder is alone; that from `Ensure` on its descriptor is
  the file the path names, until it renames that file; and that what a tail has
  read of the active log still stands. Descriptors cached by others need no
  invariant: `Ensure` examines them before they are used.
- **RedactorProofs**: `StartsAreHidden`, for every family of secrets, every
  encoding and every way to cut the text. The invariant relates the scanner's
  text and cursor to the child's whole output: what is behind the cursor is
  decided, what is held over is a suffix, and nothing behind the cursor begins a
  form that was not redacted.
- **RedactorExactProofs**: `OutputIsExact`, for forms that cannot share a byte
  (`Disjoint`; `redactor_overlap` shows that the writers need it). The reference
  redacts the whole output at once (`Redaction`). Its invariant, `ExactInv`, says
  at every moment how far the writer has decided for good, and that what it has
  let go is the redaction of that much, cut at the cap (`Exact`): each form found
  behind the cursor is covered (`CoversFound`), nothing found is still open when
  a byte passes (`Closed`), and what is held over begins no form that could still
  come (`Settled`). A step of `scan` adds one piece of the reference, and the
  lemma `CutJoin` carries that through the cap. The reference is a recursive
  function; the little induction it needs is over a set of numbers
  (`SetInduction`, from the well-foundedness of `<`).
- **McpRunProofs**: the six properties of `mcp_run`, for any number of calls and
  slots. The slot account is proved by showing that every step moves at most one
  call in or out and the counter with it (`Balanced`); the rest is a conjunction
  about each call: what the watching goroutine can have done at each point, and
  which error Wait then holds. And `ImplementsService`: a call is `running` while
  its command has been started and it has not returned; such calls hold a slot,
  so by the exact account of the slots they are at most `Slots` (`Begin`). That an
  answer is one the service may give needs one fact beyond that invariant:
  "timed_out" is only due to a call whose deadline passed (`AnswersAreDue`).
- **AuditTailProofs**: `TailViewIsExact`, for any number of calls and writers and
  any size of a block, an entry, a file and a window. Four facts make it. The lines
  of a text are what stands at the places where a record begins, in their order
  (`SplitIsExact`). After each block the backward reader knows how many records
  begin after the place it has reached, so it cuts where the newest n begin
  (`ReadOneMore`, `TailIsNewest`). The files are in the order of the entries
  (`TailInv`, the inductive invariant): an append, whole, partial or none, puts a
  greater number at the end, and a newline comes between different records only, so
  a torn record can be continued by another but never mistaken for it. And what is
  filtered, stripped and cut again stays a list of the entries chosen
  (`FilterExact`, `StripExact`, `LastExact`). The functions are built step by step
  (`StepByStep`), with induction over sets of numbers, as above.
- **PolicyProxyProofs**: `ProxyInv`, `ProxyExitIsClean`, for any number of calls
  and slots and any durations that meet `LatencyAssumption`. The invariant says how
  far each side has come in ending the session (`SessionOrder`) and how far the
  news of the end has come (`TimeOrder`): the lifetime ends within one latency of
  the close, every context within two (`ContextsEndInTime`, also that of a request
  the upstream was just taking), so no group is left after three (`GroupsGoInTime`),
  and the kill, which looks at nothing but its clock, finds none.
- **ExecCliProofs**: `ExecInv`, `StartedRunsAreOnRecord`,
  `ReturnedExecLeavesNothing`, for any invocations, hosts and queue. A refused
  entry implies a context that is done, and Start's own look at the context is
  what keeps the command from starting on it (`EntryOrder`). And `SandboxHides`,
  for any host: the layer a path is seen through is the topmost over its resolved
  form, so it is enough that a mask lies over it and that no layer above the mask
  shows the host. Assumed are that paths are sequences of names
  (`SocketsAssumption`, `LiteralsAssumption`) and that `policy.lock` and
  `audit.log` are not themselves links (`HostsAssumption`), which `O_NOFOLLOW`
  refuses (`policy.go:202`, `audit.go:176`).

Only model-checked: liveness (`EveryCallReturns`, `CancelledWaitEnds`,
`EndedRunsReturn`, `DisconnectEndsServer`, `AgentGoneEndsProxy`,
`AbandonedRunsEnd`, `SignaledExecReturns`), which is out of the proof system's
reach. Every invariant and every action property of a passing run is proved.

## 6. Plan

Written: store, log, redactor, runs, the abstract service and its refinement, the
proxy over it, `opq exec` with gate and sandbox, `audit_tail`. What could follow:

1. `get --plaintext`, which shares the gate of `ExecCli` and the store's resolve.
2. `ExecCli` over `Redactor`: the two deferred `Destroy`s and the `Flush` of a
   command whose pipes were cut.

## 7. Where code and words differ

Four runs check a sentence of the documentation that the code does not keep:

- `prune_completeness`: a prune lists names that have a value, so a policy item
  whose value is gone is never visited.
- `audit_torn_line`: after a write that stopped half-way, the next record is
  appended to the torn line, so a line holds more than one JSON object.
- `redactor_overlap`: bytes inside a match are not held over; of `ABC` and `BCD`
  printed as `ABC`, `D` only the first is redacted.
- `mcp_run_start_failure`: a command that exited with zero, but whose pipes were
  cut by WaitDelay, or whose exit met a cancellation, is answered with
  `exec_start_failed`, the answer reserved for commands that never started.

Smaller ones, seen while modelling and not worth a run:

- A `--no-redact` that a signal refuses leaves no audit entry: the refusal is
  appended under the context the signal has just ended (`cmd_exec.go:114`).
- A command that handles the forwarded signal and exits with zero makes
  `opq exec` return the context's error, not success: os/exec reports it.
- `audit_tail` reads 200 lines and takes its own out, so it returns at most 199
  entries, and fewer where others filled the window ("up to n entries").
- The `full` profile exposes `/usr` and `/etc`: a home or a log directory below
  them stays readable, except `policy.lock`'s; socket masks are for the files
  that exist when the command is wrapped, and `$HOME`'s are skipped when it is
  not set. `HomeKnown` and `Agents` in `Sandbox` are these limits.

## 8. Not modelled, and why

- The keyring libraries, D-Bus, the MCP SDK and the wire format: outside the
  repository. They appear as calls that may fail, hang or arrive late.
- Locked memory and wiping (`buffer.go`): no state beyond a pointer; that buffers
  are released on every path is part of `McpRun` and `ExecCli`.
- `opq list`, `opq audit`, `list_secrets`, `get --plaintext` after its gate, and
  the command-line wiring: no ordering or shared state of their own.
- The environment deny-list (`env_policy.go`), name validation, `--env` and the
  proxy's configuration checks: pure predicates over strings, which a model could
  only repeat.
- `parseTTL`: floating-point and 64-bit arithmetic over one string; TLC could
  only sample it, and its tests do.
- The quoting of paths in a Seatbelt profile, and the order of other bwrap flags.
- Process numbers and their reuse: not representable in a useful way; noted as a
  hazard. Starvation of an exclusive waiter by readers: the code promises nothing.
