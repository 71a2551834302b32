---------------------------- MODULE SecretPolicy ----------------------------
(***************************************************************************)
(* The secret store of opq: policy.go over backend.go.  A secret is two    *)
(* keyring items, its value under the name and its policy under            *)
(* "meta/<name>".  No keyring call spans both, so every operation is a     *)
(* sequence of single-item calls made under one advisory lock              *)
(* (policy.lock: shared for reads, exclusive for updates).                 *)
(*                                                                         *)
(* A caller is one thread that runs policy code: an opq process or one     *)
(* tool handler of an MCP server.  One step of the model is one keyring    *)
(* call (or one lock call) together with the straight-line code up to the  *)
(* next one.  A keyring call may fail, and a failed write may have been    *)
(* applied; a caller may die between any two calls, which drops its lock   *)
(* and nothing else.  Only a resolve can be cancelled: the commands that   *)
(* change the store run with context.Background().                         *)
(*                                                                         *)
(* A value is abstracted to its version: which store call produced it.     *)
(* Versions, the history of what was published and the budget of calls are *)
(* bookkeeping of the model, the rest is state of the program.             *)
(***************************************************************************)
EXTENDS Naturals

CONSTANTS
    Callers,    \* threads that call into policy.go
    Names,      \* valid secret names
    TTLs,       \* time-to-live values an operator passes to `opq set --ttl`
    Horizon,    \* bound: the clock stops here
    MaxCalls    \* bound: the number of calls the callers make together

\* parseTTL accepts only strictly positive durations.
ASSUME TTLsAssumption == TTLs \subseteq Nat \ {0}
ASSUME NamesAssumption == Names # {}
ASSUME BoundsAssumption == Horizon \in Nat /\ MaxCalls \in Nat

VARIABLES
    clock,      \* wall-clock time shared by all callers
    value,      \* keyring: version stored under each name, NoVersion if absent
    meta,       \* keyring: policy item stored under each "meta/" key
    deadline,   \* expiry each version was stored with, 0 for none
    published,  \* versions whose store has written their final policy
    calls,      \* calls made so far
    op,         \* operation a caller runs
    pc,         \* where it is in that operation
    lock,       \* mode in which it holds policy.lock
    target,     \* name the operation is about
    held,       \* version in its locked Buffer (to store, or just read)
    seen,       \* policy item it has read
    todo,       \* names a prune has listed and not yet visited
    asOf,       \* time a prune compares expiries with
    out         \* outcome of its latest operation

store   == <<value, meta, published>>
caller  == <<op, pc, lock, target, held, seen, todo, asOf, out>>
vars    == <<clock, deadline, calls, store, caller>>

-----------------------------------------------------------------------------
(* Policy items *)

NoVersion == 0
Legacy    == 1      \* a value stored by a release that had no policy items
Versions  == 1..(MaxCalls + 1)

\* A companion item: absent, unreadable (not JSON, or an unsupported version),
\* or a policy.  A zero time means unset.
Item(kind, pending, revoked, expires) ==
    [kind |-> kind, pending |-> pending, revoked |-> revoked, expires |-> expires]
Items == [kind : {"absent", "unreadable", "policy"},
          pending : BOOLEAN, revoked : BOOLEAN, expires : Nat]

Absent           == Item("absent", FALSE, FALSE, 0)
Unreadable       == Item("unreadable", FALSE, FALSE, 0)
PendingMark      == Item("policy", TRUE, FALSE, 0)
Expiring(t)      == Item("policy", FALSE, FALSE, t)
Tombstone(t)     == Item("policy", FALSE, TRUE, t)

ExpiredAt(m, t) == m.expires # 0 /\ t >= m.expires

\* The companion item a finished store of v leaves behind.
PolicyOf(v) == IF deadline[v] = 0 THEN Absent ELSE Expiring(deadline[v])

\* How resolveSecret judges an item, in the order it tests.
Verdict(m, t) ==
    IF m.kind = "unreadable" THEN "error"
    ELSE IF m.pending        THEN "pending"
    ELSE IF m.revoked        THEN "revoked"
    ELSE IF ExpiredAt(m, t)  THEN "expired"
    ELSE "ok"

-----------------------------------------------------------------------------
(* Operations, their program points and the lock they take *)

Ops      == {"resolve", "store", "delete", "revoke", "prune", "dryrun"}
Sweeps   == {"prune", "dryrun"}
Updates  == {"store", "delete", "revoke", "prune"}
Outcomes == {"none", "ok", "notFound", "pending", "revoked", "expired",
             "error", "crashed"}
Points   == {"idle", "list", "sweep", "lock",
             "loadPolicy", "getValue", "recheck",
             "markPending", "putValue", "commit",
             "probeMeta", "dropValue", "dropMeta",
             "loadRevoked", "wipeValue", "writeTomb", "judge"}

\* Mutant: a prune judges and deletes without taking the lock.
ModePruneUnlocked(o) ==
    CASE o = "prune"  -> "none"
      [] o = "dryrun" -> "shared"
      [] OTHER        -> IF o \in Updates THEN "exclusive" ELSE "shared"

Mode(o) == IF o \in Updates THEN "exclusive" ELSE "shared"

FirstPoint(o) ==
    CASE o = "resolve" -> "loadPolicy"
      [] o = "store"   -> "markPending"
      [] o = "delete"  -> "probeMeta"
      [] o = "revoke"  -> "loadRevoked"
      [] o \in Sweeps  -> "judge"

Goto(p, point) == pc' = [pc EXCEPT ![p] = point]

\* A call returns: deferred unlock, and a Buffer that is not handed to the
\* caller is destroyed.  A prune goes on with its next name and only reports
\* a failed one.
Return(p, result) ==
    /\ lock' = [lock EXCEPT ![p] = "none"]
    /\ Goto(p, IF op[p] \in Sweeps THEN "sweep" ELSE "idle")
    /\ held' = [held EXCEPT ![p] =
                   IF op[p] = "resolve" /\ result = "ok" THEN @ ELSE NoVersion]
    /\ out' = [out EXCEPT ![p] =
                  IF op[p] \in Sweeps /\ @ = "error" THEN @ ELSE result]

\* What every step inside a call leaves alone.
Inside == UNCHANGED <<clock, deadline, calls, op, target, todo, asOf>>

Init ==
    /\ clock = 1
    /\ value \in [Names -> {NoVersion, Legacy}]
    /\ meta \in [Names -> {Absent, Unreadable}]
    /\ deadline = [v \in Versions |-> 0]
    /\ published = {Legacy}
    /\ calls = 0
    /\ op = [p \in Callers |-> "resolve"]
    /\ pc = [p \in Callers |-> "idle"]
    /\ lock = [p \in Callers |-> "none"]
    /\ target = [p \in Callers |-> CHOOSE n \in Names : TRUE]
    /\ held = [p \in Callers |-> NoVersion]
    /\ seen = [p \in Callers |-> Absent]
    /\ todo = [p \in Callers |-> {}]
    /\ asOf = [p \in Callers |-> 0]
    /\ out = [p \in Callers |-> "none"]

Tick ==
    /\ clock < Horizon
    /\ clock' = clock + 1
    /\ UNCHANGED <<deadline, calls, store, caller>>

-----------------------------------------------------------------------------
(* Starting a call *)

Begin(p, o, n, point) ==
    /\ pc[p] = "idle"
    /\ calls < MaxCalls
    /\ calls' = calls + 1
    /\ op' = [op EXCEPT ![p] = o]
    /\ target' = [target EXCEPT ![p] = n]
    /\ out' = [out EXCEPT ![p] = "none"]
    /\ Goto(p, point)
    /\ UNCHANGED <<clock, store, lock, seen, todo, asOf>>

BeginResolve(p, n) ==
    /\ Begin(p, "resolve", n, "lock")
    /\ held' = [held EXCEPT ![p] = NoVersion]
    /\ UNCHANGED deadline

\* SetCmd fixes the expiry before it waits for the lock; ttl 0 means no --ttl.
BeginStore(p, n, ttl) ==
    LET new == calls + 2 IN
    /\ Begin(p, "store", n, "lock")
    /\ held' = [held EXCEPT ![p] = new]
    /\ deadline' = [deadline EXCEPT ![new] = IF ttl = 0 THEN 0 ELSE clock + ttl]

BeginWipe(p, o, n) ==
    /\ Begin(p, o, n, "lock")
    /\ held' = [held EXCEPT ![p] = NoVersion]
    /\ UNCHANGED deadline

BeginSweep(p, o) ==
    /\ Begin(p, o, target[p], "list")
    /\ held' = [held EXCEPT ![p] = NoVersion]
    /\ UNCHANGED deadline

Start(p) ==
    \/ \E n \in Names : BeginResolve(p, n)
    \/ \E n \in Names, ttl \in TTLs \cup {0} : BeginStore(p, n, ttl)
    \/ \E n \in Names, o \in {"delete", "revoke"} : BeginWipe(p, o, n)
    \/ \E o \in Sweeps : BeginSweep(p, o)

-----------------------------------------------------------------------------
(* lockPolicy: a fresh descriptor per call, polled without blocking *)

Compatible(p, mode) ==
    \A q \in Callers \ {p} :
        /\ lock[q] # "exclusive"
        /\ mode = "exclusive" => lock[q] = "none"

Acquire(p) ==
    /\ pc[p] = "lock"
    /\ Compatible(p, Mode(op[p]))
    /\ lock' = [lock EXCEPT ![p] = Mode(op[p])]
    /\ Goto(p, FirstPoint(op[p]))
    /\ Inside /\ UNCHANGED <<store, held, seen, out>>

\* The lock file cannot be opened or locked.
LockFails(p) ==
    /\ pc[p] = "lock"
    /\ Return(p, "error")
    /\ Inside /\ UNCHANGED <<store, seen>>

\* A resolve gives up wherever it is: its context is cancelled, or the keyring
\* call it is about to make fails.
Abandon(p) ==
    /\ op[p] = "resolve"
    /\ pc[p] \in {"lock", "loadPolicy", "getValue", "recheck"}
    /\ Return(p, "error")
    /\ Inside /\ UNCHANGED <<store, seen>>

-----------------------------------------------------------------------------
(* resolveSecret *)

LoadPolicy(p) ==
    LET m == meta[target[p]] IN
    /\ pc[p] = "loadPolicy"
    /\ IF Verdict(m, clock) = "ok"
       THEN /\ seen' = [seen EXCEPT ![p] = m]
            /\ Goto(p, "getValue")
            /\ UNCHANGED <<lock, held, out>>
       ELSE Return(p, Verdict(m, clock)) /\ UNCHANGED seen
    /\ Inside /\ UNCHANGED store

\* Mutant: the not-found path forgets to unlock.
GetValueKeepsLock(p) ==
    LET v == value[target[p]] IN
    /\ pc[p] = "getValue"
    /\ IF v # NoVersion
       THEN /\ held' = [held EXCEPT ![p] = v]
            /\ Goto(p, "recheck")
            /\ UNCHANGED out
       ELSE /\ Goto(p, "idle")
            /\ out' = [out EXCEPT ![p] = "notFound"]
            /\ UNCHANGED held
    /\ Inside /\ UNCHANGED <<store, seen, lock>>

GetValue(p) ==
    LET v == value[target[p]] IN
    /\ pc[p] = "getValue"
    /\ IF v # NoVersion
       THEN /\ held' = [held EXCEPT ![p] = v]
            /\ Goto(p, "recheck")
            /\ UNCHANGED <<lock, out>>
       ELSE Return(p, "notFound")
    /\ Inside /\ UNCHANGED <<store, seen>>

\* Mutant: no second expiry test.
RecheckNothing(p) ==
    /\ pc[p] = "recheck"
    /\ Return(p, "ok")
    /\ Inside /\ UNCHANGED <<store, seen>>

\* The keyring may have taken arbitrarily long, so expiry is tested again.
Recheck(p) ==
    /\ pc[p] = "recheck"
    /\ Return(p, IF ExpiredAt(seen[p], clock) THEN "expired" ELSE "ok")
    /\ Inside /\ UNCHANGED <<store, seen>>

-----------------------------------------------------------------------------
(* storeSecret: mark the item unavailable, replace the value, write the policy *)

\* Mutant: the value is replaced without a pending marker.
MarkNothing(p) ==
    /\ pc[p] = "markPending"
    /\ Goto(p, "putValue")
    /\ Inside /\ UNCHANGED <<store, seen, lock, held, out>>

MarkPending(p) ==
    LET marked == [meta EXCEPT ![target[p]] = PendingMark] IN
    /\ pc[p] = "markPending"
    /\ \/ meta' = marked /\ Goto(p, "putValue") /\ UNCHANGED <<lock, held, out>>
       \/ meta' \in {meta, marked} /\ Return(p, "error")
    /\ Inside /\ UNCHANGED <<value, published, seen>>

\* Mutant: a failed write of the value cleans the pending marker up.
PutValueRollsBack(p) ==
    LET replaced == [value EXCEPT ![target[p]] = held[p]] IN
    /\ pc[p] = "putValue"
    /\ \/ /\ value' = replaced /\ Goto(p, "commit")
          /\ UNCHANGED <<meta, lock, held, out>>
       \/ /\ value' \in {value, replaced}
          /\ meta' = [meta EXCEPT ![target[p]] = Absent]
          /\ Return(p, "error")
    /\ Inside /\ UNCHANGED <<published, seen>>

PutValue(p) ==
    LET replaced == [value EXCEPT ![target[p]] = held[p]] IN
    /\ pc[p] = "putValue"
    /\ \/ value' = replaced /\ Goto(p, "commit") /\ UNCHANGED <<lock, held, out>>
       \/ value' \in {value, replaced} /\ Return(p, "error")
    /\ Inside /\ UNCHANGED <<meta, published, seen>>

Commit(p) ==
    /\ pc[p] = "commit"
    /\ \/ /\ meta' = [meta EXCEPT ![target[p]] = PolicyOf(held[p])]
          /\ published' = published \cup {held[p]}
          /\ \E result \in {"ok", "error"} : Return(p, result)
       \/ UNCHANGED <<meta, published>> /\ Return(p, "error")
    /\ Inside /\ UNCHANGED <<value, seen>>

-----------------------------------------------------------------------------
(* deleteSecretLocked, for `opq delete` and for each name a prune deletes *)

\* The item is read as raw bytes: an unreadable one counts as existing.
ProbeMeta(p) ==
    /\ pc[p] = "probeMeta"
    /\ \/ /\ seen' = [seen EXCEPT ![p] = meta[target[p]]]
          /\ Goto(p, "dropValue")
          /\ UNCHANGED <<lock, held, out>>
       \/ Return(p, "error") /\ UNCHANGED seen
    /\ Inside /\ UNCHANGED store

DropValue(p) ==
    LET n       == target[p]
        dropped == [value EXCEPT ![n] = NoVersion]
    IN
    /\ pc[p] = "dropValue"
    /\ \/ /\ value[n] # NoVersion \/ seen[p].kind # "absent"
          /\ value' = dropped
          /\ Goto(p, "dropMeta")
          /\ UNCHANGED <<lock, held, out>>
       \/ /\ value[n] = NoVersion /\ seen[p].kind = "absent"
          /\ Return(p, "notFound")
          /\ UNCHANGED value
       \/ value' \in {value, dropped} /\ Return(p, "error")
    /\ Inside /\ UNCHANGED <<meta, published, seen>>

\* deleteMeta does not mind a missing item.
DropMeta(p) ==
    LET dropped == [meta EXCEPT ![target[p]] = Absent] IN
    /\ pc[p] = "dropMeta"
    /\ \/ meta' = dropped /\ Return(p, "ok")
       \/ meta' \in {meta, dropped} /\ Return(p, "error")
    /\ Inside /\ UNCHANGED <<value, published, seen>>

-----------------------------------------------------------------------------
(* revokeSecret: wipe the value first, then leave a tombstone *)

\* An unreadable policy, or a failed read of it, must not stop the wipe.
LoadRevoked(p) ==
    /\ pc[p] = "loadRevoked"
    /\ \E m \in {meta[target[p]], Unreadable} : seen' = [seen EXCEPT ![p] = m]
    /\ Goto(p, "wipeValue")
    /\ Inside /\ UNCHANGED <<store, lock, held, out>>

WipeValue(p) ==
    LET n     == target[p]
        wiped == [value EXCEPT ![n] = NoVersion]
    IN
    /\ pc[p] = "wipeValue"
    /\ \/ /\ value[n] # NoVersion \/ seen[p].kind = "policy"
          /\ value' = wiped
          /\ Goto(p, "writeTomb")
          /\ UNCHANGED <<lock, held, out>>
       \/ /\ value[n] = NoVersion /\ seen[p].kind # "policy"
          /\ Return(p, IF seen[p].kind = "absent" THEN "notFound" ELSE "error")
          /\ UNCHANGED value
       \/ value' \in {value, wiped} /\ Return(p, "error")
    /\ Inside /\ UNCHANGED <<meta, published, seen>>

WriteTomb(p) ==
    LET tomb   == Tombstone(IF seen[p].kind = "policy" THEN seen[p].expires ELSE 0)
        marked == [meta EXCEPT ![target[p]] = tomb]
    IN
    /\ pc[p] = "writeTomb"
    /\ \/ meta' = marked /\ Return(p, "ok")
       \/ meta' \in {meta, marked} /\ Return(p, "error")
    /\ Inside /\ UNCHANGED <<value, published, seen>>

-----------------------------------------------------------------------------
(* PruneCmd.Run and pruneSecret *)

\* Mutant: "meta/" keys are not skipped.
ListAllKeys(p) ==
    /\ pc[p] = "list"
    /\ todo' = [todo EXCEPT ![p] = {n \in Names : value[n] # NoVersion} \cup
                   {<<"meta/", n>> : n \in {m \in Names : meta[m].kind # "absent"}}]
    /\ asOf' = [asOf EXCEPT ![p] = clock]
    /\ Goto(p, "sweep")
    /\ UNCHANGED <<clock, deadline, calls, store, op, lock, target, held, seen, out>>

\* The names are listed without the lock; only value keys count, so a name that
\* has nothing but a policy item is never visited.
ListKeys(p) ==
    /\ pc[p] = "list"
    /\ \/ /\ todo' = [todo EXCEPT ![p] = {n \in Names : value[n] # NoVersion}]
          /\ asOf' = [asOf EXCEPT ![p] = clock]
          /\ Goto(p, "sweep")
          /\ UNCHANGED out
       \/ /\ Goto(p, "idle")
          /\ out' = [out EXCEPT ![p] = "error"]
          /\ UNCHANGED <<todo, asOf>>
    /\ UNCHANGED <<clock, deadline, calls, store, op, lock, target, held, seen>>

SweepNext(p) ==
    /\ pc[p] = "sweep"
    /\ \/ \E n \in todo[p] :
            /\ target' = [target EXCEPT ![p] = n]
            /\ todo' = [todo EXCEPT ![p] = @ \ {n}]
            /\ Goto(p, "lock")
       \/ /\ todo[p] = {}
          /\ Goto(p, "idle")
          /\ UNCHANGED <<target, todo>>
    /\ UNCHANGED <<clock, deadline, calls, store, op, lock, held, seen, asOf, out>>

\* Mutant: only the expiry is looked at, not the tombstone.
JudgeExpiryAlone(p) ==
    LET m == meta[target[p]] IN
    /\ pc[p] = "judge"
    /\ \/ /\ op[p] = "prune" /\ ExpiredAt(m, asOf[p])
          /\ Goto(p, "probeMeta")
          /\ UNCHANGED <<lock, held, out>>
       \/ Return(p, "ok")
    /\ Inside /\ UNCHANGED <<store, seen>>

\* Check and delete happen under one hold of the lock.
Judge(p) ==
    LET m == meta[target[p]] IN
    /\ pc[p] = "judge"
    /\ \/ /\ op[p] = "prune" /\ Verdict(m, asOf[p]) = "expired"
          /\ Goto(p, "probeMeta")
          /\ UNCHANGED <<lock, held, out>>
       \/ /\ \/ op[p] = "dryrun" /\ Verdict(m, asOf[p]) = "expired"
             \/ Verdict(m, asOf[p]) \in {"revoked", "ok"}
          /\ Return(p, "ok")
       \/ Return(p, "error")
    /\ Inside /\ UNCHANGED <<store, seen>>

-----------------------------------------------------------------------------
(* A process dies; the kernel closes its descriptors and with them its lock. *)

Crash(p) ==
    /\ pc[p] # "idle"
    /\ pc' = [pc EXCEPT ![p] = "idle"]
    /\ lock' = [lock EXCEPT ![p] = "none"]
    /\ held' = [held EXCEPT ![p] = NoVersion]
    /\ todo' = [todo EXCEPT ![p] = {}]
    /\ out' = [out EXCEPT ![p] = "crashed"]
    /\ UNCHANGED <<clock, deadline, calls, store, op, target, seen, asOf>>

\* The steps of a call that holds or needs no lock.
Advance(p) ==
    \/ LoadPolicy(p) \/ GetValue(p) \/ Recheck(p)
    \/ MarkPending(p) \/ PutValue(p) \/ Commit(p)
    \/ ProbeMeta(p) \/ DropValue(p) \/ DropMeta(p)
    \/ LoadRevoked(p) \/ WipeValue(p) \/ WriteTomb(p)
    \/ ListKeys(p) \/ SweepNext(p) \/ Judge(p)

Next ==
    \/ Tick
    \/ \E p \in Callers :
        \/ Start(p) \/ Acquire(p) \/ Advance(p)
        \/ LockFails(p) \/ Abandon(p) \/ Crash(p)

\* A running call goes on with its keyring calls and keeps polling the lock.
\* Nothing makes the lock fair, makes a call fail or makes a caller start one.
Fairness == \A p \in Callers : WF_vars(Acquire(p)) /\ WF_vars(Advance(p))

Spec     == Init /\ [][Next]_vars
FairSpec == Spec /\ Fairness

-----------------------------------------------------------------------------
(* Properties *)

\* Type invariant.
TypeOK ==
    /\ clock \in Nat
    /\ value \in [Names -> {NoVersion} \cup Versions]
    /\ meta \in [Names -> Items]
    /\ deadline \in [Versions -> Nat]
    /\ published \subseteq Versions
    /\ calls \in 0..MaxCalls
    /\ op \in [Callers -> Ops]
    /\ pc \in [Callers -> Points]
    /\ lock \in [Callers -> {"none", "shared", "exclusive"}]
    /\ target \in [Callers -> Names]
    /\ held \in [Callers -> {NoVersion} \cup Versions]
    /\ seen \in [Callers -> Items]
    /\ todo \in [Callers -> SUBSET Names]
    /\ asOf \in [Callers -> Nat]
    /\ out \in [Callers -> Outcomes]

\* No reader-visible state of an item lets a value out.
Open(m) == m.kind # "unreadable" /\ ~m.pending /\ ~m.revoked

\* The version a read could be given now, expiry aside.
Visible(n) == IF Open(meta[n]) THEN value[n] ELSE NoVersion

\* The version a finished read handed to p.
Released(p) == IF pc[p] = "idle" THEN held[p] ELSE NoVersion

\* Whenever a value can be read at all, its own store has finished and the
\* policy beside it is the one it was stored with: no crash, failed call or
\* interleaving of storeSecret, deleteSecret, revokeSecret and pruneSecret
\* exposes a value without its policy or under another version's policy.
HasItsPolicy(n) ==
    Visible(n) # NoVersion =>
        Visible(n) \in published /\ meta[n].expires = deadline[Visible(n)]

ReadableValueHasItsPolicy == \A n \in Names : HasItsPolicy(n)

\* resolveSecret hands out a value only at a moment when that version is the
\* readable one and has not reached the expiry it was stored with, however long
\* the lock and the keyring kept it waiting.
ReleasesAreCurrent ==
    [][\A p \in Callers : LET v == Released(p)' IN
        v # NoVersion /\ Released(p) # v =>
            /\ v = Visible(target[p])
            /\ deadline[v] = 0 \/ clock < deadline[v]]_vars

\* A version that was hidden by a store, wiped by a revoke, a delete or a prune
\* or left behind by a half-finished update never becomes readable again: only
\* a new store publishes, and it publishes a new version.
NoResurrection ==
    [][\A n \in Names : LET v == Visible(n)' IN
        v # NoVersion /\ v # Visible(n) => v \notin published]_vars

\* A prune removes a value only if the very version it removes was past its own
\* expiry when the prune began, even when the name was stored again meanwhile.
PruneTakesOnlyExpired ==
    [][\A p \in Callers, n \in Names :
        /\ pc[p] = "dropValue" /\ op[p] = "prune" /\ target[p] = n
        /\ pc'[p] # "dropValue"
        /\ value'[n] # value[n]
        => deadline[value[n]] # 0 /\ deadline[value[n]] <= asOf[p]]_vars

\* A revocation tombstone goes away only when an operator stores or deletes that
\* name: never through a prune, a read or another name's update.
TombstoneStays ==
    [][\A n \in Names : meta[n].revoked /\ ~meta'[n].revoked =>
        \E p \in Callers :
            /\ op[p] \in {"store", "delete"} /\ target[p] = n
            /\ lock[p] = "exclusive"]_vars

\* The inductive invariant behind the safety properties.  Its parts: the lock
\* excludes; a caller holds it exactly inside its transaction, in the mode of
\* its operation; versions in use were issued; and what the caller has already
\* done to the two items, or read from them, still stands.
Exclusion ==
    \A p, q \in Callers : p # q =>
        (lock[p] = "exclusive" => lock[q] = "none")

Transaction ==
    {"loadPolicy", "getValue", "recheck", "markPending", "putValue", "commit",
     "probeMeta", "dropValue", "dropMeta", "loadRevoked", "wipeValue",
     "writeTomb", "judge"}

PointsOf(o) ==
    {"idle", "lock"} \cup
    CASE o = "resolve" -> {"loadPolicy", "getValue", "recheck"}
      [] o = "store"   -> {"markPending", "putValue", "commit"}
      [] o = "delete"  -> {"probeMeta", "dropValue", "dropMeta"}
      [] o = "revoke"  -> {"loadRevoked", "wipeValue", "writeTomb"}
      [] o = "prune"   -> {"list", "sweep", "judge", "probeMeta", "dropValue", "dropMeta"}
      [] o = "dryrun"  -> {"list", "sweep", "judge"}

LockDiscipline(p) ==
    /\ pc[p] \in PointsOf(op[p])
    /\ lock[p] = IF pc[p] \in Transaction THEN Mode(op[p]) ELSE "none"

Storing(p) == op[p] = "store" /\ pc[p] # "idle"

HeldVersion(p) ==
    /\ held[p] <= calls + 1
    /\ Storing(p) => held[p] # NoVersion /\ held[p] \notin published
    /\ op[p] \notin {"store", "resolve"} => held[p] = NoVersion

WriterProgress(p) ==
    /\ pc[p] \in {"putValue", "commit"} => ~Open(meta[target[p]])
    /\ pc[p] = "commit" => value[target[p]] = held[p]
    /\ pc[p] \in {"dropMeta", "writeTomb"} => value[target[p]] = NoVersion

ReaderProgress(p) ==
    /\ pc[p] \in {"getValue", "recheck"} =>
         Open(meta[target[p]]) /\ seen[p] = meta[target[p]]
    /\ pc[p] = "recheck" =>
         held[p] # NoVersion /\ held[p] = value[target[p]]

CallerInv(p) ==
    LockDiscipline(p) /\ HeldVersion(p) /\ WriterProgress(p) /\ ReaderProgress(p)

StoresDiffer ==
    \A p, q \in Callers : p # q /\ Storing(p) /\ Storing(q) => held[p] # held[q]

StoreIssued ==
    /\ \A v \in published : v <= calls + 1
    /\ \A n \in Names : value[n] <= calls + 1

IndInv ==
    /\ TypeOK
    /\ Exclusion
    /\ \A p \in Callers : CallerInv(p)
    /\ StoresDiffer
    /\ StoreIssued
    /\ ReadableValueHasItsPolicy

\* Every call returns: no path keeps the lock, and callers that wait for it are
\* served once the others are done.
EveryCallReturns ==
    \A p \in Callers : pc[p] # "idle" ~> pc[p] = "idle"
=============================================================================
