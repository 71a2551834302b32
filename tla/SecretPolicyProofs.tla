------------------------- MODULE SecretPolicyProofs -------------------------
EXTENDS SecretPolicyRefinement, TLAPS

USE DEF Inside, Goto, store, caller, NoVersion

-----------------------------------------------------------------------------
(* Facts about policy items *)

LEMMA ItemFacts ==
    /\ Absent \in Items /\ Open(Absent)
    /\ Absent.expires = 0
    /\ Unreadable \in Items /\ ~Open(Unreadable)
    /\ PendingMark \in Items /\ ~Open(PendingMark)
    /\ \A t \in Nat : /\ Tombstone(t) \in Items /\ ~Open(Tombstone(t))
                      /\ Expiring(t) \in Items /\ Open(Expiring(t))
                      /\ Expiring(t).expires = t
  BY DEF Absent, Unreadable, PendingMark, Tombstone, Expiring, Item, Items, Open

LEMMA PolicyOfFacts ==
    ASSUME TypeOK, NEW v \in Versions
    PROVE  PolicyOf(v) \in Items /\ Open(PolicyOf(v)) /\ PolicyOf(v).expires = deadline[v]
  BY ItemFacts DEF PolicyOf, TypeOK

LEMMA VerdictFacts ==
    ASSUME NEW m \in Items, NEW t
    PROVE  /\ Verdict(m, t) \in {"error", "pending", "revoked", "expired", "ok"}
           /\ Verdict(m, t) \in {"expired", "ok"} => Open(m)
  BY DEF Verdict, Items, Open

-----------------------------------------------------------------------------
(* Where a caller is tells which operation it runs and which lock it holds. *)

LEMMA Whereabouts ==
    ASSUME TypeOK, NEW p \in Callers, LockDiscipline(p)
    PROVE  /\ pc[p] \in {"loadPolicy", "getValue", "recheck"} =>
                op[p] = "resolve" /\ lock[p] = "shared"
           /\ pc[p] \in {"markPending", "putValue", "commit"} =>
                op[p] = "store" /\ lock[p] = "exclusive"
           /\ pc[p] \in {"probeMeta", "dropValue", "dropMeta"} =>
                op[p] \in {"delete", "prune"} /\ lock[p] = "exclusive"
           /\ pc[p] \in {"loadRevoked", "wipeValue", "writeTomb"} =>
                op[p] = "revoke" /\ lock[p] = "exclusive"
           /\ pc[p] = "judge" => op[p] \in Sweeps /\ lock[p] = Mode(op[p])
           /\ pc[p] \in {"list", "sweep"} => op[p] \in Sweeps /\ lock[p] = "none"
           /\ pc[p] \in {"idle", "lock"} => lock[p] = "none"
  BY DEF TypeOK, LockDiscipline, PointsOf, Transaction, Mode, Updates, Sweeps, Ops

\* A step of p concerns p alone: the other callers stay where they are, and the
\* store changes only at p's target and only under p's exclusive lock.
OnlyMoves(p) ==
    \A q \in Callers \ {p} :
        /\ op'[q] = op[q] /\ pc'[q] = pc[q] /\ lock'[q] = lock[q]
        /\ target'[q] = target[q] /\ held'[q] = held[q] /\ seen'[q] = seen[q]

UpdatesUnderLock(p) ==
    \/ value' = value /\ meta' = meta
    \/ /\ lock[p] = "exclusive"
       /\ \A n \in Names \ {target[p]} : value'[n] = value[n] /\ meta'[n] = meta[n]

\* What p publishes is what it was storing, and it is then done.
PublishesItsOwn(p) ==
    \/ published' = published
    \/ Storing(p) /\ ~Storing(p)' /\ published' = published \cup {held[p]}

LEMMA Bystanders ==
    ASSUME IndInv, TypeOK', NEW p \in Callers, NEW q \in Callers \ {p},
           OnlyMoves(p), UpdatesUnderLock(p), PublishesItsOwn(p), calls <= calls'
    PROVE  CallerInv(q)'
<1>1. CallerInv(q) /\ CallerInv(p) /\ LockDiscipline(q)
  BY DEF IndInv, CallerInv
<1>2. LockDiscipline(q)'
  BY <1>1 DEF OnlyMoves, LockDiscipline
<1>3. HeldVersion(q)'
  <2>1. held'[q] = held[q] /\ op'[q] = op[q] /\ pc'[q] = pc[q]
    BY DEF OnlyMoves
  <2>2. held[q] \in Nat /\ calls \in Nat /\ calls' \in Nat
    BY BoundsAssumption DEF IndInv, TypeOK, Versions
  <2>3. Storing(q) => held[q] \notin published'
    BY <1>1 DEF PublishesItsOwn, CallerInv, HeldVersion, IndInv, StoresDiffer
  <2> QED BY <1>1, <2>1, <2>2, <2>3 DEF CallerInv, HeldVersion, Storing
<1>4. pc[q] \in {"putValue", "commit", "dropMeta", "writeTomb", "getValue", "recheck"} =>
        (value' = value /\ meta' = meta) \/ target[q] # target[p]
  <2>1. pc[q] \in {"putValue", "commit", "dropMeta", "writeTomb", "getValue", "recheck"} => lock[q] # "none"
    BY <1>1, Whereabouts DEF IndInv
  <2>2. lock[q] # "none" => lock[p] # "exclusive"
    BY DEF IndInv, Exclusion
  <2> QED BY <2>1, <2>2 DEF UpdatesUnderLock
<1>5. pc[q] \in {"putValue", "commit", "dropMeta", "writeTomb", "getValue", "recheck"} =>
        /\ value'[target'[q]] = value[target[q]]
        /\ meta'[target'[q]] = meta[target[q]]
  BY <1>4 DEF UpdatesUnderLock, OnlyMoves, IndInv, TypeOK
<1>6. WriterProgress(q)' /\ ReaderProgress(q)'
  BY <1>1, <1>5 DEF OnlyMoves, CallerInv, WriterProgress, ReaderProgress, Open
<1> QED
  BY <1>2, <1>3, <1>6 DEF CallerInv

\* To show that a step of p inside a call preserves the invariant, it is enough
\* to look at p itself and at the name p updates.
LEMMA StepPreserves ==
    ASSUME IndInv, TypeOK', NEW p \in Callers,
           OnlyMoves(p), UpdatesUnderLock(p), PublishesItsOwn(p),
           calls' = calls, deadline' = deadline,
           Exclusion',
           Storing(p)' => Storing(p) /\ held'[p] = held[p],
           value'[target[p]] \in {value[target[p]], NoVersion, held[p]},
           CallerInv(p)',
           \/ value' = value /\ meta' = meta
           \/ target' = target /\ HasItsPolicy(target[p])'
    PROVE  IndInv'
<1>1. ASSUME NEW q \in Callers PROVE CallerInv(q)'
  <2>1. CASE q = p
    BY <2>1
  <2>2. CASE q # p
    BY <2>2, Bystanders, BoundsAssumption DEF IndInv, TypeOK
  <2> QED BY <2>1, <2>2
<1>2. StoresDiffer'
  BY DEF IndInv, StoresDiffer, OnlyMoves, Storing
<1>3. StoreIssued'
  <2>1. held[p] <= calls + 1
    BY DEF IndInv, CallerInv, HeldVersion
  <2>2. \A v \in published' : v <= calls' + 1
    BY <2>1 DEF IndInv, StoreIssued, PublishesItsOwn
  <2>3. ASSUME NEW n \in Names PROVE value'[n] <= calls' + 1
    <3>1. CASE n = target[p]
      BY <2>1, <3>1, BoundsAssumption DEF IndInv, StoreIssued, TypeOK
    <3>2. CASE n # target[p]
      BY <3>2 DEF IndInv, StoreIssued, UpdatesUnderLock
    <3> QED BY <3>1, <3>2
  <2> QED BY <2>2, <2>3 DEF StoreIssued
<1>4. ASSUME NEW n \in Names PROVE HasItsPolicy(n)'
  <2>1. published \subseteq published'
    BY DEF PublishesItsOwn
  <2>2. CASE value'[n] = value[n] /\ meta'[n] = meta[n]
    BY <2>1, <2>2 DEF IndInv, ReadableValueHasItsPolicy, HasItsPolicy, Visible, Open
  <2>3. CASE ~(value'[n] = value[n] /\ meta'[n] = meta[n])
    BY <2>3 DEF UpdatesUnderLock
  <2> QED BY <2>2, <2>3
<1> QED
  BY <1>1, <1>2, <1>3, <1>4 DEF IndInv, ReadableValueHasItsPolicy

\* A step on which the call returns, or a prune turns to its next name.
LEMMA ReturnStep ==
    ASSUME IndInv, NEW p \in Callers, NEW r \in Outcomes, Return(p, r),
           pc[p] # "idle", Inside, seen' = seen,
           value' \in [Names -> {NoVersion} \cup Versions],
           meta' \in [Names -> Items],
           UpdatesUnderLock(p),
           \/ published' = published
           \/ Storing(p) /\ published' = published \cup {held[p]},
           value'[target[p]] \in {value[target[p]], NoVersion, held[p]},
           (value' = value /\ meta' = meta) \/ HasItsPolicy(target[p])'
    PROVE  IndInv'
<1> USE DEF Return
<1>1. TypeOK /\ CallerInv(p) /\ HeldVersion(p)
  BY DEF IndInv, CallerInv
<1>2. OnlyMoves(p) /\ lock'[p] = "none"
  BY <1>1 DEF OnlyMoves, TypeOK
<1>3. pc'[p] \in {"idle", "sweep"} /\ (pc'[p] = "sweep" => op[p] \in Sweeps)
  BY <1>1 DEF TypeOK
<1>4. ~Storing(p)'
  BY <1>3 DEF Storing, Sweeps
<1>5. PublishesItsOwn(p)
  BY <1>4 DEF PublishesItsOwn
<1>6. held'[p] \in {held[p], NoVersion} /\ (op[p] # "resolve" => held'[p] = NoVersion)
  BY <1>1 DEF TypeOK
<1>7. TypeOK'
  <2>1. /\ pc' \in [Callers -> Points]
        /\ lock' \in [Callers -> {"none", "shared", "exclusive"}]
        /\ held' \in [Callers -> {NoVersion} \cup Versions]
        /\ out' \in [Callers -> Outcomes]
    BY <1>1 DEF TypeOK, Outcomes, Points
  <2>2. published' \subseteq Versions
    <3>1. Storing(p) => held[p] \in Versions
      BY <1>1 DEF HeldVersion, TypeOK
    <3> QED BY <1>1, <3>1 DEF TypeOK
  <2> QED BY <1>1, <2>1, <2>2 DEF TypeOK
<1>8. CallerInv(p)'
  <2>1. LockDiscipline(p)'
    BY <1>1, <1>2, <1>3 DEF LockDiscipline, PointsOf, Transaction, Sweeps
  <2>2. HeldVersion(p)'
    BY <1>1, <1>4, <1>6, BoundsAssumption DEF HeldVersion, TypeOK
  <2>3. WriterProgress(p)' /\ ReaderProgress(p)'
    BY <1>3 DEF WriterProgress, ReaderProgress
  <2> QED BY <2>1, <2>2, <2>3 DEF CallerInv
<1>9. Exclusion'
  BY <1>2 DEF IndInv, Exclusion, OnlyMoves
<1> QED
  BY <1>2, <1>4, <1>5, <1>7, <1>8, <1>9, StepPreserves

\* A step on which the call goes on, in the same hold of the lock.
LEMMA GoOnStep ==
    ASSUME IndInv, NEW p \in Callers, NEW point \in Points, Goto(p, point),
           Inside, UNCHANGED <<lock, out, published>>,
           pc[p] # "idle",
           value' \in [Names -> {NoVersion} \cup Versions],
           meta' \in [Names -> Items],
           UpdatesUnderLock(p),
           \/ seen' = seen
           \/ \E m \in Items : seen' = [seen EXCEPT ![p] = m],
           \/ held' = held
           \/ /\ op[p] = "resolve"
              /\ held' = [held EXCEPT ![p] = value[target[p]]],
           value'[target[p]] \in {value[target[p]], NoVersion, held[p]},
           (value' = value /\ meta' = meta) \/ HasItsPolicy(target[p])',
           LockDiscipline(p)', WriterProgress(p)', ReaderProgress(p)'
    PROVE  IndInv'
<1>1. TypeOK /\ CallerInv(p) /\ HeldVersion(p)
  BY DEF IndInv, CallerInv
<1>2. OnlyMoves(p) /\ PublishesItsOwn(p)
  BY <1>1 DEF OnlyMoves, PublishesItsOwn, TypeOK
<1>3. TypeOK'
  BY <1>1 DEF TypeOK
<1>4. HeldVersion(p)'
  <2>1. CASE held' = held
    BY <1>1, <2>1 DEF HeldVersion, Storing
  <2>2. CASE op[p] = "resolve" /\ held' = [held EXCEPT ![p] = value[target[p]]]
    BY <1>1, <2>2 DEF HeldVersion, Storing, TypeOK, IndInv, StoreIssued
  <2> QED BY <2>1, <2>2
<1>5. Storing(p)' => Storing(p) /\ held'[p] = held[p]
  BY DEF Storing
<1>6. Exclusion'
  BY DEF IndInv, Exclusion
<1> QED
  BY <1>1, <1>2, <1>3, <1>4, <1>5, <1>6, StepPreserves DEF CallerInv

-----------------------------------------------------------------------------
(* storeSecret *)

LEMMA MarkPendingStep ==
    ASSUME IndInv, NEW p \in Callers, MarkPending(p)
    PROVE  IndInv'
<1> USE DEF MarkPending
<1>1. TypeOK /\ CallerInv(p) /\ LockDiscipline(p)
  BY DEF IndInv, CallerInv
<1>2. op[p] = "store" /\ lock[p] = "exclusive"
  BY <1>1, Whereabouts
<1>3a. meta' \in [Names -> Items]
  BY <1>1, ItemFacts DEF TypeOK
<1>3. UpdatesUnderLock(p)
  BY <1>1, <1>2 DEF TypeOK, UpdatesUnderLock
<1>4. (value' = value /\ meta' = meta) \/ HasItsPolicy(target[p])'
  BY <1>1, ItemFacts DEF HasItsPolicy, Visible, TypeOK
<1>5. CASE meta' = [meta EXCEPT ![target[p]] = PendingMark] /\ Goto(p, "putValue")
           /\ UNCHANGED <<lock, held, out>>
  <2>1. LockDiscipline(p)' /\ WriterProgress(p)' /\ ReaderProgress(p)'
    BY <1>1, <1>2, <1>5, ItemFacts
       DEF TypeOK, LockDiscipline, PointsOf, Transaction, Mode, Updates,
           WriterProgress, ReaderProgress, Open
  <2> QED BY <1>1, <1>3a, <1>3, <1>4, <1>5, <2>1, GoOnStep DEF Points, TypeOK
<1>6. CASE Return(p, "error")
  BY <1>1, <1>3a, <1>3, <1>4, <1>6, ReturnStep DEF Outcomes, TypeOK
<1> QED
  BY <1>5, <1>6

LEMMA PutValueStep ==
    ASSUME IndInv, NEW p \in Callers, PutValue(p)
    PROVE  IndInv'
<1> USE DEF PutValue
<1>1. TypeOK /\ CallerInv(p) /\ LockDiscipline(p) /\ WriterProgress(p)
  BY DEF IndInv, CallerInv
<1>2. op[p] = "store" /\ lock[p] = "exclusive"
  BY <1>1, Whereabouts
<1>3. value' \in [Names -> {NoVersion} \cup Versions]
  BY <1>1 DEF TypeOK
<1>4. UpdatesUnderLock(p)
  BY <1>1, <1>2 DEF TypeOK, UpdatesUnderLock
<1>5. HasItsPolicy(target[p])'
  BY <1>1 DEF HasItsPolicy, Visible, WriterProgress, Open
<1>6. value'[target[p]] \in {value[target[p]], NoVersion, held[p]}
  BY <1>1 DEF TypeOK
<1>7. CASE value' = [value EXCEPT ![target[p]] = held[p]] /\ Goto(p, "commit")
           /\ UNCHANGED <<lock, held, out>>
  <2>1. LockDiscipline(p)' /\ WriterProgress(p)' /\ ReaderProgress(p)'
    BY <1>1, <1>2, <1>7
       DEF TypeOK, LockDiscipline, PointsOf, Transaction, Mode, Updates,
           WriterProgress, ReaderProgress, Open
  <2> QED BY <1>1, <1>3, <1>4, <1>5, <1>6, <1>7, <2>1, GoOnStep DEF Points, TypeOK
<1>8. CASE Return(p, "error")
  BY <1>1, <1>3, <1>4, <1>5, <1>6, <1>8, ReturnStep DEF Outcomes, TypeOK
<1> QED
  BY <1>7, <1>8

LEMMA CommitStep ==
    ASSUME IndInv, NEW p \in Callers, Commit(p)
    PROVE  IndInv'
<1> USE DEF Commit
<1>1. TypeOK /\ CallerInv(p) /\ LockDiscipline(p) /\ WriterProgress(p) /\ HeldVersion(p)
  BY DEF IndInv, CallerInv
<1>2. op[p] = "store" /\ lock[p] = "exclusive" /\ Storing(p) /\ held[p] \in Versions
  BY <1>1, Whereabouts DEF Storing, HeldVersion, TypeOK
<1>3. meta' \in [Names -> Items]
  BY <1>1, <1>2, PolicyOfFacts DEF TypeOK
<1>4. UpdatesUnderLock(p)
  BY <1>1, <1>2 DEF TypeOK, UpdatesUnderLock
<1>5. CASE /\ meta' = [meta EXCEPT ![target[p]] = PolicyOf(held[p])]
           /\ published' = published \cup {held[p]}
  <2>1. /\ meta'[target'[p]] = PolicyOf(held[p])
        /\ value'[target'[p]] = held[p] /\ deadline' = deadline
    BY <1>1, <1>5 DEF TypeOK, WriterProgress
  <2>2. PolicyOf(held[p]).expires = deadline[held[p]] /\ Open(PolicyOf(held[p]))
    BY <1>1, <1>2, PolicyOfFacts
  <2>3. Visible(target[p])' = held[p]
    BY <2>1, <2>2 DEF Visible, Open
  <2>4. HasItsPolicy(target[p])'
    BY <1>5, <2>1, <2>2, <2>3 DEF HasItsPolicy
  <2> QED BY <1>1, <1>2, <1>3, <1>4, <1>5, <2>4, ReturnStep DEF Outcomes, TypeOK
<1>6. CASE UNCHANGED <<meta, published>> /\ Return(p, "error")
  BY <1>1, <1>3, <1>4, <1>6, ReturnStep DEF Outcomes, TypeOK
<1> QED
  BY <1>5, <1>6

-----------------------------------------------------------------------------
(* resolveSecret *)

LEMMA LoadPolicyStep ==
    ASSUME IndInv, NEW p \in Callers, LoadPolicy(p)
    PROVE  IndInv'
<1> USE DEF LoadPolicy
<1>1. TypeOK /\ CallerInv(p) /\ LockDiscipline(p)
  BY DEF IndInv, CallerInv
<1>2. op[p] = "resolve" /\ lock[p] = "shared"
  BY <1>1, Whereabouts
<1>3. meta[target[p]] \in Items /\ UpdatesUnderLock(p)
  BY <1>1 DEF TypeOK, UpdatesUnderLock
<1>4. CASE Verdict(meta[target[p]], clock) = "ok"
  <2>1. LockDiscipline(p)' /\ WriterProgress(p)' /\ ReaderProgress(p)'
    BY <1>1, <1>2, <1>3, <1>4, VerdictFacts
       DEF TypeOK, LockDiscipline, PointsOf, Transaction, Mode, Updates,
           WriterProgress, ReaderProgress, Open
  <2> QED BY <1>1, <1>3, <1>4, <2>1, GoOnStep DEF Points, TypeOK
<1>5. CASE Verdict(meta[target[p]], clock) # "ok"
  <2>1. Verdict(meta[target[p]], clock) \in Outcomes
    BY <1>3, VerdictFacts DEF Outcomes
  <2> QED BY <1>1, <1>3, <1>5, <2>1, ReturnStep DEF TypeOK
<1> QED
  BY <1>4, <1>5

LEMMA GetValueStep ==
    ASSUME IndInv, NEW p \in Callers, GetValue(p)
    PROVE  IndInv'
<1> USE DEF GetValue
<1>1. TypeOK /\ CallerInv(p) /\ LockDiscipline(p) /\ ReaderProgress(p)
  BY DEF IndInv, CallerInv
<1>2. op[p] = "resolve" /\ lock[p] = "shared"
  BY <1>1, Whereabouts
<1>3. UpdatesUnderLock(p)
  BY DEF UpdatesUnderLock
<1>4. CASE value[target[p]] # NoVersion
  <2>1. LockDiscipline(p)' /\ WriterProgress(p)' /\ ReaderProgress(p)'
    BY <1>1, <1>2, <1>4
       DEF TypeOK, LockDiscipline, PointsOf, Transaction, Mode, Updates,
           WriterProgress, ReaderProgress, Open
  <2> QED BY <1>1, <1>2, <1>3, <1>4, <2>1, GoOnStep DEF Points, TypeOK
<1>5. CASE value[target[p]] = NoVersion
  BY <1>1, <1>3, <1>5, ReturnStep DEF Outcomes, TypeOK
<1> QED
  BY <1>4, <1>5

LEMMA RecheckStep ==
    ASSUME IndInv, NEW p \in Callers, Recheck(p)
    PROVE  IndInv'
<1> USE DEF Recheck
<1>1. TypeOK /\ UpdatesUnderLock(p)
  BY DEF IndInv, UpdatesUnderLock
<1> QED
  BY <1>1, ReturnStep DEF Outcomes, TypeOK

LEMMA AbandonStep ==
    ASSUME IndInv, NEW p \in Callers, Abandon(p) \/ LockFails(p)
    PROVE  IndInv'
<1> USE DEF Abandon, LockFails
<1>1. TypeOK /\ UpdatesUnderLock(p)
  BY DEF IndInv, UpdatesUnderLock
<1> QED
  BY <1>1, ReturnStep DEF Outcomes, TypeOK
-----------------------------------------------------------------------------
(* deleteSecretLocked *)

LEMMA ProbeMetaStep ==
    ASSUME IndInv, NEW p \in Callers, ProbeMeta(p)
    PROVE  IndInv'
<1> USE DEF ProbeMeta
<1>1. TypeOK /\ CallerInv(p) /\ LockDiscipline(p) /\ UpdatesUnderLock(p)
  BY DEF IndInv, CallerInv, UpdatesUnderLock
<1>2. op[p] \in {"delete", "prune"} /\ lock[p] = "exclusive"
  BY <1>1, Whereabouts
<1>3. CASE Goto(p, "dropValue") /\ UNCHANGED <<lock, held, out>>
           /\ seen' = [seen EXCEPT ![p] = meta[target[p]]]
  <2>1. LockDiscipline(p)' /\ WriterProgress(p)' /\ ReaderProgress(p)'
    BY <1>1, <1>2, <1>3
       DEF TypeOK, LockDiscipline, PointsOf, Transaction, Mode, Updates,
           WriterProgress, ReaderProgress
  <2>2. meta[target[p]] \in Items
    BY <1>1 DEF TypeOK
  <2> QED BY <1>1, <1>3, <2>1, <2>2, GoOnStep DEF Points, TypeOK
<1>4. CASE Return(p, "error") /\ UNCHANGED seen
  BY <1>1, <1>4, ReturnStep DEF Outcomes, TypeOK
<1> QED
  BY <1>3, <1>4

LEMMA DropValueStep ==
    ASSUME IndInv, NEW p \in Callers, DropValue(p)
    PROVE  IndInv'
<1> USE DEF DropValue
<1>1. TypeOK /\ CallerInv(p) /\ LockDiscipline(p)
  BY DEF IndInv, CallerInv
<1>2. op[p] \in {"delete", "prune"} /\ lock[p] = "exclusive"
  BY <1>1, Whereabouts
<1>3. /\ value' \in [Names -> {NoVersion} \cup Versions]
      /\ value'[target[p]] \in {value[target[p]], NoVersion, held[p]}
  BY <1>1 DEF TypeOK
<1>4. UpdatesUnderLock(p)
  BY <1>1, <1>2 DEF TypeOK, UpdatesUnderLock
<1>5. value' = value \/ HasItsPolicy(target[p])'
  BY <1>1 DEF HasItsPolicy, Visible, TypeOK
<1>6. CASE /\ value' = [value EXCEPT ![target[p]] = NoVersion]
           /\ Goto(p, "dropMeta") /\ UNCHANGED <<lock, held, out>>
  <2>1. LockDiscipline(p)' /\ WriterProgress(p)' /\ ReaderProgress(p)'
    BY <1>1, <1>2, <1>6
       DEF TypeOK, LockDiscipline, PointsOf, Transaction, Mode, Updates,
           WriterProgress, ReaderProgress, Open
  <2> QED BY <1>1, <1>3, <1>4, <1>5, <1>6, <2>1, GoOnStep DEF Points, TypeOK
<1>7. CASE \E r \in {"notFound", "error"} : Return(p, r)
  BY <1>1, <1>3, <1>4, <1>5, <1>7, ReturnStep DEF Outcomes, TypeOK
<1> QED
  BY <1>6, <1>7

LEMMA DropMetaStep ==
    ASSUME IndInv, NEW p \in Callers, DropMeta(p)
    PROVE  IndInv'
<1> USE DEF DropMeta
<1>1. TypeOK /\ CallerInv(p) /\ LockDiscipline(p) /\ WriterProgress(p)
  BY DEF IndInv, CallerInv
<1>2. op[p] \in {"delete", "prune"} /\ lock[p] = "exclusive"
  BY <1>1, Whereabouts
<1>3. meta' \in [Names -> Items]
  BY <1>1, ItemFacts DEF TypeOK
<1>4. UpdatesUnderLock(p)
  BY <1>1, <1>2 DEF TypeOK, UpdatesUnderLock
<1>5. HasItsPolicy(target[p])'
  BY <1>1 DEF HasItsPolicy, Visible, TypeOK, WriterProgress
<1>6. \E r \in {"ok", "error"} : Return(p, r)
  OBVIOUS
<1> QED
  BY <1>1, <1>3, <1>4, <1>5, <1>6, ReturnStep DEF Outcomes, TypeOK

-----------------------------------------------------------------------------
(* revokeSecret *)

LEMMA LoadRevokedStep ==
    ASSUME IndInv, NEW p \in Callers, LoadRevoked(p)
    PROVE  IndInv'
<1> USE DEF LoadRevoked
<1>1. TypeOK /\ CallerInv(p) /\ LockDiscipline(p) /\ UpdatesUnderLock(p)
  BY DEF IndInv, CallerInv, UpdatesUnderLock
<1>2. op[p] = "revoke" /\ lock[p] = "exclusive"
  BY <1>1, Whereabouts
<1>3. LockDiscipline(p)' /\ WriterProgress(p)' /\ ReaderProgress(p)'
  BY <1>1, <1>2
     DEF TypeOK, LockDiscipline, PointsOf, Transaction, Mode, Updates,
         WriterProgress, ReaderProgress
<1>4. meta[target[p]] \in Items
  BY <1>1 DEF TypeOK
<1> QED
  BY <1>1, <1>3, <1>4, ItemFacts, GoOnStep DEF Points, TypeOK

LEMMA WipeValueStep ==
    ASSUME IndInv, NEW p \in Callers, WipeValue(p)
    PROVE  IndInv'
<1> USE DEF WipeValue
<1>1. TypeOK /\ CallerInv(p) /\ LockDiscipline(p)
  BY DEF IndInv, CallerInv
<1>2. op[p] = "revoke" /\ lock[p] = "exclusive"
  BY <1>1, Whereabouts
<1>3. /\ value' \in [Names -> {NoVersion} \cup Versions]
      /\ value'[target[p]] \in {value[target[p]], NoVersion, held[p]}
  BY <1>1 DEF TypeOK
<1>4. UpdatesUnderLock(p)
  BY <1>1, <1>2 DEF TypeOK, UpdatesUnderLock
<1>5. value' = value \/ HasItsPolicy(target[p])'
  BY <1>1 DEF HasItsPolicy, Visible, TypeOK
<1>6. CASE /\ value' = [value EXCEPT ![target[p]] = NoVersion]
           /\ Goto(p, "writeTomb") /\ UNCHANGED <<lock, held, out>>
  <2>1. LockDiscipline(p)' /\ WriterProgress(p)' /\ ReaderProgress(p)'
    BY <1>1, <1>2, <1>6
       DEF TypeOK, LockDiscipline, PointsOf, Transaction, Mode, Updates,
           WriterProgress, ReaderProgress, Open
  <2> QED BY <1>1, <1>3, <1>4, <1>5, <1>6, <2>1, GoOnStep DEF Points, TypeOK
<1>7. CASE \E r \in {"notFound", "error"} : Return(p, r)
  BY <1>1, <1>3, <1>4, <1>5, <1>7, ReturnStep DEF Outcomes, TypeOK
<1> QED
  BY <1>6, <1>7

LEMMA WriteTombStep ==
    ASSUME IndInv, NEW p \in Callers, WriteTomb(p)
    PROVE  IndInv'
<1> USE DEF WriteTomb
<1>1. TypeOK /\ CallerInv(p) /\ LockDiscipline(p) /\ WriterProgress(p)
  BY DEF IndInv, CallerInv
<1>2. op[p] = "revoke" /\ lock[p] = "exclusive"
  BY <1>1, Whereabouts
<1>3. meta' \in [Names -> Items]
  <2>1. (IF seen[p].kind = "policy" THEN seen[p].expires ELSE 0) \in Nat
    BY <1>1 DEF TypeOK, Items
  <2> QED BY <1>1, <2>1, ItemFacts DEF TypeOK
<1>4. UpdatesUnderLock(p)
  BY <1>1, <1>2 DEF TypeOK, UpdatesUnderLock
<1>5. HasItsPolicy(target[p])'
  BY <1>1 DEF HasItsPolicy, Visible, TypeOK, WriterProgress
<1>6. \E r \in {"ok", "error"} : Return(p, r)
  OBVIOUS
<1> QED
  BY <1>1, <1>3, <1>4, <1>5, <1>6, ReturnStep DEF Outcomes, TypeOK

-----------------------------------------------------------------------------
(* PruneCmd.Run and pruneSecret *)

LEMMA JudgeStep ==
    ASSUME IndInv, NEW p \in Callers, Judge(p)
    PROVE  IndInv'
<1> USE DEF Judge
<1>1. TypeOK /\ CallerInv(p) /\ LockDiscipline(p) /\ UpdatesUnderLock(p)
  BY DEF IndInv, CallerInv, UpdatesUnderLock
<1>2. CASE op[p] = "prune" /\ Goto(p, "probeMeta") /\ UNCHANGED <<lock, held, out>>
  <2>1. LockDiscipline(p)' /\ WriterProgress(p)' /\ ReaderProgress(p)'
    BY <1>1, <1>2, Whereabouts
       DEF TypeOK, LockDiscipline, PointsOf, Transaction, Mode, Updates,
           WriterProgress, ReaderProgress
  <2> QED BY <1>1, <1>2, <2>1, GoOnStep DEF Points, TypeOK
<1>3. CASE \E r \in {"ok", "error"} : Return(p, r)
  BY <1>1, <1>3, ReturnStep DEF Outcomes, TypeOK
<1> QED
  BY <1>2, <1>3

\* The names are listed and taken one by one outside the lock.
LEMMA SweepStep ==
    ASSUME IndInv, NEW p \in Callers, ListKeys(p) \/ SweepNext(p)
    PROVE  IndInv'
<1> USE DEF ListKeys, SweepNext
<1>1. TypeOK /\ CallerInv(p) /\ LockDiscipline(p) /\ HeldVersion(p)
  BY DEF IndInv, CallerInv
<1>2. op[p] \in Sweeps /\ lock[p] = "none"
  BY <1>1, Whereabouts
<1>3. /\ op' = op /\ lock' = lock /\ held' = held /\ seen' = seen
      /\ calls' = calls /\ deadline' = deadline /\ clock' = clock
      /\ value' = value /\ meta' = meta /\ published' = published
      /\ \E point \in {"idle", "lock", "sweep"} : pc' = [pc EXCEPT ![p] = point]
  OBVIOUS
<1>4. target' = target \/ \E n \in Names : target' = [target EXCEPT ![p] = n]
  BY <1>1 DEF TypeOK
<1>5. TypeOK'
  <2>1. target' \in [Callers -> Names] /\ pc' \in [Callers -> Points]
    BY <1>1, <1>3, <1>4 DEF TypeOK, Points
  <2>2. /\ todo' \in [Callers -> SUBSET Names]
        /\ asOf' \in [Callers -> Nat]
        /\ out' \in [Callers -> Outcomes]
    BY <1>1 DEF TypeOK, Outcomes
  <2> QED BY <1>1, <1>3, <2>1, <2>2 DEF TypeOK
<1>6. OnlyMoves(p) /\ UpdatesUnderLock(p) /\ PublishesItsOwn(p)
  BY <1>1, <1>3, <1>4 DEF OnlyMoves, UpdatesUnderLock, PublishesItsOwn, TypeOK
<1>7. CallerInv(p)'
  BY <1>1, <1>2, <1>3
     DEF TypeOK, CallerInv, LockDiscipline, HeldVersion, Storing, WriterProgress,
         ReaderProgress, PointsOf, Transaction, Sweeps
<1>8. ~Storing(p)'
  BY <1>2, <1>3 DEF Storing, Sweeps
<1>9. Exclusion'
  BY <1>3 DEF IndInv, Exclusion
<1> QED
  BY <1>3, <1>5, <1>6, <1>7, <1>8, <1>9, StepPreserves

-----------------------------------------------------------------------------
(* The lock, crashes, the clock and the start of a call *)

LEMMA AcquireStep ==
    ASSUME IndInv, NEW p \in Callers, Acquire(p)
    PROVE  IndInv'
<1> USE DEF Acquire
<1>1. TypeOK /\ CallerInv(p)
  BY DEF IndInv, CallerInv
<1>2. Mode(op[p]) \in {"shared", "exclusive"}
  BY DEF Mode
<1>3. /\ FirstPoint(op[p]) \in Transaction
      /\ FirstPoint(op[p]) \in PointsOf(op[p])
      /\ FirstPoint(op[p]) \in {"loadPolicy", "markPending", "probeMeta", "loadRevoked", "judge"}
  BY <1>1 DEF TypeOK, Ops, FirstPoint, Sweeps, Transaction, PointsOf
<1>4. pc' = [pc EXCEPT ![p] = FirstPoint(op[p])] /\ FirstPoint(op[p]) \in Points
  BY <1>3 DEF Points
<1>5. TypeOK'
  BY <1>1, <1>2, <1>4 DEF TypeOK
<1>6. OnlyMoves(p) /\ UpdatesUnderLock(p) /\ PublishesItsOwn(p)
  BY <1>1 DEF OnlyMoves, UpdatesUnderLock, PublishesItsOwn, TypeOK
<1>7. Exclusion'
  BY <1>1, <1>2 DEF IndInv, Exclusion, Compatible, TypeOK
<1>8. CallerInv(p)'
  BY <1>1, <1>2, <1>3, <1>4
     DEF TypeOK, CallerInv, LockDiscipline, HeldVersion, Storing, WriterProgress,
         ReaderProgress
<1>9. Storing(p)' => Storing(p) /\ held'[p] = held[p]
  BY DEF Storing
<1> QED
  BY <1>5, <1>6, <1>7, <1>8, <1>9, StepPreserves

LEMMA CrashStep ==
    ASSUME IndInv, NEW p \in Callers, Crash(p)
    PROVE  IndInv'
<1> USE DEF Crash
<1>1. TypeOK /\ CallerInv(p)
  BY DEF IndInv, CallerInv
<1>2. TypeOK'
  BY <1>1 DEF TypeOK, Points, Outcomes
<1>3. OnlyMoves(p) /\ UpdatesUnderLock(p) /\ PublishesItsOwn(p)
  BY <1>1 DEF OnlyMoves, UpdatesUnderLock, PublishesItsOwn, TypeOK
<1>4. Exclusion'
  BY <1>1 DEF IndInv, Exclusion, TypeOK
<1>5. CallerInv(p)'
  BY <1>1, BoundsAssumption
     DEF TypeOK, CallerInv, LockDiscipline, HeldVersion, Storing, WriterProgress,
         ReaderProgress, PointsOf, Transaction
<1>6. ~Storing(p)'
  BY <1>1 DEF Storing, TypeOK
<1> QED
  BY <1>2, <1>3, <1>4, <1>5, <1>6, StepPreserves

\* The new version of a store is larger than every version in use, so nothing
\* known about those changes.
LEMMA StartStep ==
    ASSUME IndInv, NEW p \in Callers, Start(p)
    PROVE  IndInv'
<1>1. TypeOK /\ CallerInv(p)
  BY DEF IndInv
<1>2. PICK o \in Ops, point \in {"lock", "list"}, n \in Names : Begin(p, o, n, point) /\ point \in PointsOf(o)
             /\ IF o = "store" THEN held' = [held EXCEPT ![p] = calls + 2]
                              ELSE held' = [held EXCEPT ![p] = NoVersion]
  BY <1>1 DEF Start, BeginResolve, BeginStore, BeginWipe, BeginSweep, Ops, Sweeps, PointsOf, TypeOK
<1>3. calls' = calls + 1 /\ calls' \in 0..MaxCalls /\ calls + 2 \in Versions
  BY <1>1, <1>2, BoundsAssumption DEF Begin, TypeOK, Versions
<1>4. /\ deadline' \in [Versions -> Nat]
      /\ \A v \in Versions : v <= calls + 1 => deadline'[v] = deadline[v]
  <2>1. \A ttl \in TTLs \cup {0} : (IF ttl = 0 THEN 0 ELSE clock + ttl) \in Nat
    BY <1>1, TTLsAssumption DEF TypeOK
  <2>2. \/ deadline' = deadline
        \/ \E t \in Nat : deadline' = [deadline EXCEPT ![calls + 2] = t]
    BY <2>1 DEF Start, BeginResolve, BeginStore, BeginWipe, BeginSweep
  <2>3. deadline \in [Versions -> Nat] /\ Versions \subseteq Nat /\ calls \in Nat
    BY <1>1, BoundsAssumption DEF TypeOK, Versions
  <2>4. \A v \in Versions : v <= calls + 1 => v # calls + 2
    BY <2>3
  <2>5. deadline' \in [Versions -> Nat]
    BY <1>3, <2>2, <2>3
  <2>6. \A v \in Versions : v # calls + 2 => deadline'[v] = deadline[v]
    BY <2>2, <2>3
  <2> QED BY <2>4, <2>5, <2>6
<1>5. TypeOK'
  BY <1>1, <1>2, <1>3, <1>4 DEF TypeOK, Begin, Points, Outcomes
<1>6. /\ OnlyMoves(p) /\ UpdatesUnderLock(p) /\ PublishesItsOwn(p)
      /\ lock' = lock /\ lock[p] = "none"
  BY <1>1, <1>2, Whereabouts DEF CallerInv, OnlyMoves, UpdatesUnderLock, PublishesItsOwn, TypeOK, Begin
<1>7. Exclusion'
  BY <1>6 DEF IndInv, Exclusion
<1>8. ASSUME NEW q \in Callers PROVE CallerInv(q)'
  <2>1. CASE q # p
    BY <1>1, <1>3, <1>5, <1>6, <2>1, Bystanders DEF TypeOK
  <2>2. CASE q = p
    <3>1. op'[p] = o /\ pc'[p] = point
      BY <1>1, <1>2 DEF Begin, TypeOK
    <3>2. LockDiscipline(p)'
      BY <1>2, <1>6, <3>1 DEF LockDiscipline, Transaction
    <3>3. HeldVersion(p)'
      <4>1. CASE o = "store"
        BY <1>1, <1>2, <1>3, <3>1, <4>1, BoundsAssumption DEF HeldVersion, Storing, Begin, TypeOK, IndInv, StoreIssued
      <4>2. CASE o # "store"
        BY <1>1, <1>2, <1>3, <3>1, <4>2, BoundsAssumption DEF HeldVersion, Storing, TypeOK
      <4> QED BY <4>1, <4>2
    <3>4. WriterProgress(p)' /\ ReaderProgress(p)'
      BY <3>1 DEF WriterProgress, ReaderProgress
    <3> QED BY <2>2, <3>2, <3>3, <3>4 DEF CallerInv
  <2> QED BY <2>1, <2>2
<1>9. StoresDiffer'
  <2>1. ASSUME NEW q \in Callers \ {p}, Storing(p)', Storing(q)' PROVE held'[p] # held'[q]
    <3>1. held'[q] = held[q] /\ held[q] <= calls + 1
      BY <1>6 DEF OnlyMoves, IndInv, CallerInv, HeldVersion
    <3>2. held'[p] = calls + 2
      BY <1>1, <1>2, <2>1 DEF Storing, Begin, TypeOK
    <3> QED BY <1>1, <3>1, <3>2 DEF TypeOK
  <2> QED BY <1>6, <2>1 DEF IndInv, StoresDiffer, OnlyMoves, Storing
<1>10. StoreIssued'
  BY <1>1, <1>2, <1>3, BoundsAssumption DEF IndInv, StoreIssued, Begin, TypeOK, Versions
<1>11. ASSUME NEW n0 \in Names PROVE HasItsPolicy(n0)'
  <2>1. Visible(n0)' = Visible(n0) /\ meta' = meta /\ published' = published
    BY <1>2 DEF Begin, Visible, Open
  <2>2. Visible(n0) # NoVersion => deadline'[Visible(n0)] = deadline[Visible(n0)]
    BY <1>1, <1>4 DEF Visible, IndInv, StoreIssued, TypeOK
  <2> QED BY <2>1, <2>2 DEF HasItsPolicy, IndInv, ReadableValueHasItsPolicy
<1> QED
  BY <1>5, <1>7, <1>8, <1>9, <1>10, <1>11 DEF IndInv, ReadableValueHasItsPolicy

\* Neither the clock nor a step that changes nothing disturbs anything.
LEMMA QuietStep ==
    ASSUME IndInv, Tick \/ UNCHANGED vars
    PROVE  IndInv'
<1>1. /\ UNCHANGED <<deadline, calls, store, caller>>
      /\ clock' \in Nat
  BY DEF Tick, vars, IndInv, TypeOK
<1>2. TypeOK' /\ Exclusion' /\ StoresDiffer' /\ StoreIssued'
  BY <1>1 DEF IndInv, TypeOK, Exclusion, StoresDiffer, StoreIssued, Storing
<1>3. \A p \in Callers : CallerInv(p)'
  BY <1>1
     DEF IndInv, CallerInv, LockDiscipline, HeldVersion, Storing, WriterProgress,
         ReaderProgress, Open
<1>4. ReadableValueHasItsPolicy'
  BY <1>1 DEF IndInv, ReadableValueHasItsPolicy, HasItsPolicy, Visible, Open
<1> QED
  BY <1>2, <1>3, <1>4 DEF IndInv

-----------------------------------------------------------------------------
(* The invariant *)

LEMMA InitIndInv == Init => IndInv
<1> SUFFICES ASSUME Init PROVE IndInv
  OBVIOUS
<1> USE DEF Init
<1>1. 1 \in Versions
  BY BoundsAssumption DEF Versions
<1>2. TypeOK
  <2>1. (CHOOSE n \in Names : TRUE) \in Names
    BY NamesAssumption
  <2> QED BY <1>1, <2>1, ItemFacts, BoundsAssumption DEF TypeOK, Legacy, Ops, Points, Outcomes
<1>3. Exclusion /\ StoresDiffer
  BY DEF Exclusion, StoresDiffer, Storing
<1>4. ASSUME NEW p \in Callers PROVE CallerInv(p)
  <2>1. op[p] = "resolve" /\ pc[p] = "idle" /\ lock[p] = "none" /\ held[p] = 0 /\ calls = 0
    OBVIOUS
  <2>2. LockDiscipline(p)
    BY <2>1 DEF LockDiscipline, PointsOf, Transaction
  <2>3. HeldVersion(p)
    BY <2>1 DEF HeldVersion, Storing
  <2>4. WriterProgress(p) /\ ReaderProgress(p)
    BY <2>1 DEF WriterProgress, ReaderProgress
  <2> QED BY <2>2, <2>3, <2>4 DEF CallerInv
<1>5. StoreIssued
  BY DEF StoreIssued, Legacy
<1>6. ReadableValueHasItsPolicy
  <2> SUFFICES ASSUME NEW n \in Names, Visible(n) # NoVersion PROVE HasItsPolicy(n)
    BY DEF ReadableValueHasItsPolicy, HasItsPolicy
  <2>1. Visible(n) = Legacy /\ meta[n] = Absent
    BY ItemFacts DEF Visible
  <2> QED BY <1>1, <2>1, ItemFacts DEF HasItsPolicy, Legacy
<1> QED
  BY <1>2, <1>3, <1>4, <1>5, <1>6 DEF IndInv

LEMMA NextIndInv == IndInv /\ [Next]_vars => IndInv'
<1> SUFFICES ASSUME IndInv, [Next]_vars PROVE IndInv'
  OBVIOUS
<1>1. CASE Tick \/ UNCHANGED vars
  BY <1>1, QuietStep
<1>2. ASSUME NEW p \in Callers, Start(p) PROVE IndInv'
  BY <1>2, StartStep
<1>3. ASSUME NEW p \in Callers, Acquire(p) PROVE IndInv'
  BY <1>3, AcquireStep
<1>4. ASSUME NEW p \in Callers, LockFails(p) \/ Abandon(p) PROVE IndInv'
  BY <1>4, AbandonStep
<1>5. ASSUME NEW p \in Callers, Crash(p) PROVE IndInv'
  BY <1>5, CrashStep
<1>6. ASSUME NEW p \in Callers, Advance(p) PROVE IndInv'
  <2>1. CASE LoadPolicy(p) \/ GetValue(p) \/ Recheck(p)
    BY <2>1, LoadPolicyStep, GetValueStep, RecheckStep
  <2>2. CASE MarkPending(p) \/ PutValue(p) \/ Commit(p)
    BY <2>2, MarkPendingStep, PutValueStep, CommitStep
  <2>3. CASE ProbeMeta(p) \/ DropValue(p) \/ DropMeta(p)
    BY <2>3, ProbeMetaStep, DropValueStep, DropMetaStep
  <2>4. CASE LoadRevoked(p) \/ WipeValue(p) \/ WriteTomb(p)
    BY <2>4, LoadRevokedStep, WipeValueStep, WriteTombStep
  <2>5. CASE ListKeys(p) \/ SweepNext(p) \/ Judge(p)
    BY <2>5, SweepStep, JudgeStep
  <2> QED BY <1>6, <2>1, <2>2, <2>3, <2>4, <2>5 DEF Advance
<1> QED
  BY <1>1, <1>2, <1>3, <1>4, <1>5, <1>6 DEF Next

\* The inductive invariant holds in every reachable state, for any set of
\* callers, names and time-to-live values and any bounds.
THEOREM IndInvHolds == Spec => []IndInv
<1>1. Init => IndInv
  BY InitIndInv
<1>2. IndInv /\ [Next]_vars => IndInv'
  BY NextIndInv
<1> QED
  BY <1>1, <1>2, PTL DEF Spec

\* Every variable of the secret store keeps its type.
THEOREM TypeCorrect == Spec => []TypeOK
<1>1. IndInv => TypeOK
  BY DEF IndInv
<1> QED
  BY <1>1, IndInvHolds, PTL

\* A value that can be read has its own policy beside it, whatever crashes,
\* fails or runs concurrently.
THEOREM ReadableValuesHaveTheirPolicy == Spec => []ReadableValueHasItsPolicy
<1>1. IndInv => ReadableValueHasItsPolicy
  BY DEF IndInv
<1> QED
  BY <1>1, IndInvHolds, PTL

-----------------------------------------------------------------------------
(* What a read hands out *)

LEMMA OthersKeepTheirs ==
    ASSUME TypeOK, NEW q \in Callers, NEW p \in Callers \ {q},
           Start(q) \/ Acquire(q) \/ Advance(q) \/ LockFails(q) \/ Abandon(q) \/ Crash(q)
    PROVE  pc'[p] = pc[p] /\ held'[p] = held[p]
<1>1. CASE Start(q)
  BY <1>1 DEF Start, BeginResolve, BeginStore, BeginWipe, BeginSweep, Begin, TypeOK
<1>2. CASE Acquire(q) \/ LockFails(q) \/ Abandon(q) \/ Crash(q)
  BY <1>2 DEF Acquire, LockFails, Abandon, Crash, Return, TypeOK
<1>3. CASE LoadPolicy(q) \/ GetValue(q) \/ Recheck(q)
  BY <1>3 DEF LoadPolicy, GetValue, Recheck, Return, TypeOK
<1>4. CASE MarkPending(q) \/ PutValue(q) \/ Commit(q)
  BY <1>4 DEF MarkPending, PutValue, Commit, Return, TypeOK
<1>5. CASE ProbeMeta(q) \/ DropValue(q) \/ DropMeta(q)
  BY <1>5 DEF ProbeMeta, DropValue, DropMeta, Return, TypeOK
<1>6. CASE LoadRevoked(q) \/ WipeValue(q) \/ WriteTomb(q)
  BY <1>6 DEF LoadRevoked, WipeValue, WriteTomb, Return, TypeOK
<1>7. CASE ListKeys(q) \/ SweepNext(q) \/ Judge(q)
  BY <1>7 DEF ListKeys, SweepNext, Judge, Return, TypeOK
<1> QED
  BY <1>1, <1>2, <1>3, <1>4, <1>5, <1>6, <1>7 DEF Advance

\* A Buffer that a caller keeps when it is idle was handed to it by the second
\* expiry test of resolveSecret, and by nothing else.
LEMMA OnlyRecheckReleases ==
    ASSUME IndInv, [Next]_vars, NEW p \in Callers,
           Released(p)' # NoVersion, Released(p) # Released(p)'
    PROVE  /\ Recheck(p) /\ ~ExpiredAt(seen[p], clock)
           /\ Released(p)' = held[p]
<1>1. TypeOK /\ CallerInv(p) /\ LockDiscipline(p) /\ HeldVersion(p)
  BY DEF IndInv, CallerInv
<1>2. pc'[p] = "idle" /\ held'[p] # NoVersion /\ ~(pc'[p] = pc[p] /\ held'[p] = held[p])
      /\ Released(p)' = held'[p]
  BY DEF Released
<1>3. ~(Tick \/ UNCHANGED vars)
  BY <1>2 DEF Tick, vars
<1>4. Start(p) \/ Acquire(p) \/ Advance(p) \/ LockFails(p) \/ Abandon(p) \/ Crash(p)
  BY <1>1, <1>2, <1>3, OthersKeepTheirs DEF Next
<1>5. ASSUME NEW r, Return(p, r), op[p] # "resolve" \/ r # "ok" PROVE FALSE
  BY <1>1, <1>2, <1>5 DEF Return, TypeOK
<1>6. ~Start(p) /\ ~Crash(p)
  BY <1>1, <1>2 DEF Start, BeginResolve, BeginStore, BeginWipe, BeginSweep, Begin, Crash, TypeOK
<1>7. ~Acquire(p)
  BY <1>1, <1>2 DEF Acquire, TypeOK, FirstPoint, Ops, Sweeps
<1>8. ~LockFails(p) /\ ~Abandon(p)
  BY <1>5 DEF LockFails, Abandon
<1>9. ~LoadPolicy(p) /\ ~GetValue(p)
  BY <1>1, <1>2, <1>5 DEF LoadPolicy, GetValue, TypeOK
<1>10. ~MarkPending(p) /\ ~PutValue(p) /\ ~Commit(p)
  <2>1. pc[p] \in {"markPending", "putValue", "commit"} => op[p] # "resolve"
    BY <1>1, Whereabouts
  <2> QED BY <1>1, <1>2, <1>5, <2>1 DEF MarkPending, PutValue, Commit, TypeOK
<1>11. ~ProbeMeta(p) /\ ~DropValue(p) /\ ~DropMeta(p)
  <2>1. pc[p] \in {"probeMeta", "dropValue", "dropMeta"} => op[p] # "resolve"
    BY <1>1, Whereabouts
  <2> QED BY <1>1, <1>2, <1>5, <2>1 DEF ProbeMeta, DropValue, DropMeta, TypeOK
<1>12. ~LoadRevoked(p) /\ ~WipeValue(p) /\ ~WriteTomb(p)
  <2>1. pc[p] \in {"loadRevoked", "wipeValue", "writeTomb"} => op[p] # "resolve"
    BY <1>1, Whereabouts
  <2> QED BY <1>1, <1>2, <1>5, <2>1 DEF LoadRevoked, WipeValue, WriteTomb, TypeOK
<1>13. ~ListKeys(p) /\ ~SweepNext(p) /\ ~Judge(p)
  <2>1. pc[p] \in {"list", "sweep", "judge"} => op[p] \in Sweeps
    BY <1>1, Whereabouts
  <2>2. op[p] \in Sweeps => held[p] = NoVersion
    BY <1>1 DEF HeldVersion, Sweeps
  <2>3. ~ListKeys(p) /\ ~SweepNext(p)
    BY <1>2, <2>1, <2>2 DEF ListKeys, SweepNext
  <2>4. ~Judge(p)
    BY <1>1, <1>2, <1>5, <2>1 DEF Judge, TypeOK, Sweeps
  <2> QED BY <2>3, <2>4
<1>14. Recheck(p)
  BY <1>4, <1>6, <1>7, <1>8, <1>9, <1>10, <1>11, <1>12, <1>13 DEF Advance
<1>15. ~ExpiredAt(seen[p], clock)
  BY <1>5, <1>14 DEF Recheck
<1>16. held'[p] \in {held[p], NoVersion}
  BY <1>1, <1>14 DEF Recheck, Return, TypeOK
<1> QED
  BY <1>2, <1>14, <1>15, <1>16

\* Whatever a read hands out is the readable version at that moment and has not
\* reached the expiry it was stored with.
THEOREM ReleasesAreAlwaysCurrent == Spec => ReleasesAreCurrent
<1> DEFINE Current ==
      \A p \in Callers : LET v == Released(p)' IN
          v # NoVersion /\ Released(p) # v =>
              /\ v = Visible(target[p])
              /\ deadline[v] = 0 \/ clock < deadline[v]
<1>1. IndInv /\ [Next]_vars => [Current]_vars
  <2> SUFFICES ASSUME IndInv, [Next]_vars, NEW p \in Callers,
                      Released(p)' # NoVersion, Released(p) # Released(p)'
               PROVE  /\ Released(p)' = Visible(target[p])
                      /\ deadline[Released(p)'] = 0 \/ clock < deadline[Released(p)']
    BY Zenon
  <2>1. pc[p] = "recheck" /\ ~ExpiredAt(seen[p], clock) /\ Released(p)' = held[p]
    BY OnlyRecheckReleases DEF Recheck
  <2>2. Visible(target[p]) = held[p] /\ held[p] # NoVersion /\ seen[p] = meta[target[p]]
    BY <2>1 DEF IndInv, CallerInv, ReaderProgress, Visible
  <2>3. seen[p].expires = deadline[held[p]] /\ target[p] \in Names /\ held[p] \in Versions
    BY <2>2 DEF IndInv, TypeOK, ReadableValueHasItsPolicy, HasItsPolicy
  <2>4. deadline[held[p]] \in Nat /\ clock \in Nat
    BY <2>3 DEF IndInv, TypeOK
  <2> QED BY <2>1, <2>2, <2>3, <2>4 DEF ExpiredAt
<1>2. Spec => [][Current]_vars
  BY <1>1, IndInvHolds, PTL DEF Spec
<1> QED
  BY <1>2 DEF ReleasesAreCurrent
-----------------------------------------------------------------------------
(* What changes the store *)

Writes(p) ==
    \/ MarkPending(p) \/ PutValue(p) \/ Commit(p) \/ DropValue(p) \/ DropMeta(p)
    \/ WipeValue(p) \/ WriteTomb(p)

\* Only seven steps touch the keyring, under the exclusive lock of an update.
LEMMA OnlyWritesChangeTheStore ==
    ASSUME [Next]_vars, ~(value' = value /\ meta' = meta)
    PROVE  \E p \in Callers : Writes(p)
<1>1. PICK p \in Callers :
        Start(p) \/ Acquire(p) \/ Advance(p) \/ LockFails(p) \/ Abandon(p) \/ Crash(p)
  BY DEF Next, Tick, vars
<1>2. ~Start(p)
  BY DEF Start, BeginResolve, BeginStore, BeginWipe, BeginSweep, Begin
<1>3. ~Acquire(p) /\ ~LockFails(p) /\ ~Abandon(p) /\ ~Crash(p)
  BY DEF Acquire, LockFails, Abandon, Crash
<1>4. /\ ~LoadPolicy(p) /\ ~GetValue(p) /\ ~Recheck(p) /\ ~ProbeMeta(p)
      /\ ~LoadRevoked(p) /\ ~ListKeys(p) /\ ~SweepNext(p) /\ ~Judge(p)
  BY DEF LoadPolicy, GetValue, Recheck, ProbeMeta, LoadRevoked, ListKeys,
         SweepNext, Judge
<1> QED
  BY <1>1, <1>2, <1>3, <1>4 DEF Advance, Writes

LEMMA WritesUnderLock ==
    ASSUME IndInv, NEW p \in Callers, Writes(p)
    PROVE  /\ lock[p] = "exclusive"
           /\ \A n \in Names \ {target[p]} : value'[n] = value[n] /\ meta'[n] = meta[n]
<1>1. TypeOK /\ LockDiscipline(p)
  BY DEF IndInv, CallerInv
<1>2. lock[p] = "exclusive"
  BY <1>1, Whereabouts
     DEF Writes, MarkPending, PutValue, Commit, DropValue, DropMeta, WipeValue, WriteTomb
<1>3. CASE MarkPending(p) \/ Commit(p) \/ DropMeta(p) \/ WriteTomb(p)
  BY <1>1, <1>2, <1>3 DEF TypeOK, MarkPending, Commit, DropMeta, WriteTomb
<1>4. CASE PutValue(p) \/ DropValue(p) \/ WipeValue(p)
  BY <1>1, <1>2, <1>4 DEF TypeOK, PutValue, DropValue, WipeValue
<1> QED
  BY <1>3, <1>4 DEF Writes

\* The only step after which another version can be read is the commit of the
\* store that carries it.
LEMMA OnlyCommitShows ==
    ASSUME IndInv, [Next]_vars, NEW n \in Names,
           Visible(n)' # NoVersion, Visible(n)' # Visible(n)
    PROVE  \E p \in Callers : Commit(p) /\ Visible(n)' = held[p]
<1>1. ~(value' = value /\ meta' = meta)
  BY DEF Visible, Open
<1>2. PICK p \in Callers : Writes(p)
  BY <1>1, OnlyWritesChangeTheStore
<1>3. TypeOK /\ LockDiscipline(p) /\ WriterProgress(p)
  BY DEF IndInv, CallerInv
<1>4. n = target[p]
  BY <1>2, WritesUnderLock DEF Visible, Open
<1>5. value'[n] # NoVersion /\ Open(meta'[n]) /\ Visible(n)' = value'[n]
  BY DEF Visible, Open
<1>6. ~(value'[n] = value[n] /\ meta'[n] = meta[n])
  BY DEF Visible, Open
<1>7. ~MarkPending(p) /\ ~WriteTomb(p)
  <2>1. \A t \in Nat : ~Open(Tombstone(t))
    BY ItemFacts
  <2>2. seen[p].expires \in Nat
    BY <1>3 DEF TypeOK, Items
  <2> QED BY <1>3, <1>4, <1>5, <1>6, <2>1, <2>2, ItemFacts DEF TypeOK, MarkPending, WriteTomb
<1>8. ~PutValue(p)
  BY <1>3, <1>4, <1>5 DEF TypeOK, PutValue, WriterProgress, Open
<1>9. ~DropValue(p) /\ ~WipeValue(p)
  BY <1>3, <1>4, <1>5, <1>6 DEF TypeOK, DropValue, WipeValue
<1>10. ~DropMeta(p)
  BY <1>3, <1>4, <1>5 DEF TypeOK, DropMeta, WriterProgress
<1>11. Commit(p) /\ value' = value /\ value[target[p]] = held[p]
  BY <1>2, <1>3, <1>7, <1>8, <1>9, <1>10 DEF Writes, Commit, WriterProgress
<1> QED
  BY <1>4, <1>5, <1>11

\* What was hidden, wiped or left behind never becomes readable again.
THEOREM NothingResurrects == Spec => NoResurrection
<1> DEFINE OnlyNew ==
      \A n \in Names : LET v == Visible(n)' IN
          v # NoVersion /\ v # Visible(n) => v \notin published
<1>1. IndInv /\ [Next]_vars => [OnlyNew]_vars
  <2> SUFFICES ASSUME IndInv, [Next]_vars, NEW n \in Names,
                      Visible(n)' # NoVersion, Visible(n)' # Visible(n)
               PROVE  Visible(n)' \notin published
    BY Zenon
  <2>1. PICK p \in Callers : Commit(p) /\ Visible(n)' = held[p]
    BY OnlyCommitShows
  <2>2. LockDiscipline(p) /\ HeldVersion(p) /\ TypeOK
    BY DEF IndInv, CallerInv
  <2>3. Storing(p)
    BY <2>1, <2>2, Whereabouts DEF Commit, Storing
  <2> QED BY <2>1, <2>2, <2>3 DEF HeldVersion
<1>2. Spec => [][OnlyNew]_vars
  BY <1>1, IndInvHolds, PTL DEF Spec
<1> QED
  BY <1>2 DEF NoResurrection

-----------------------------------------------------------------------------
(* What a prune may take *)

\* From its judgement to the removal of the item, a prune holds the lock and the
\* item stays the expired one it has judged.
PruneProgress(p) ==
    op[p] = "prune" /\ pc[p] \in {"probeMeta", "dropValue", "dropMeta"} =>
        Verdict(meta[target[p]], asOf[p]) = "expired"

PruneInv == \A p \in Callers : PruneProgress(p)

LEMMA OthersKeepTheirCall ==
    ASSUME TypeOK, NEW q \in Callers, NEW p \in Callers \ {q},
           Start(q) \/ Acquire(q) \/ Advance(q) \/ LockFails(q) \/ Abandon(q) \/ Crash(q)
    PROVE  /\ op'[p] = op[p] /\ target'[p] = target[p] /\ asOf'[p] = asOf[p]
<1>1. CASE Start(q)
  BY <1>1 DEF Start, BeginResolve, BeginStore, BeginWipe, BeginSweep, Begin, TypeOK
<1>2. CASE Acquire(q) \/ LockFails(q) \/ Abandon(q) \/ Crash(q)
  BY <1>2 DEF Acquire, LockFails, Abandon, Crash
<1>3. CASE LoadPolicy(q) \/ GetValue(q) \/ Recheck(q)
  BY <1>3 DEF LoadPolicy, GetValue, Recheck
<1>4. CASE MarkPending(q) \/ PutValue(q) \/ Commit(q)
  BY <1>4 DEF MarkPending, PutValue, Commit
<1>5. CASE ProbeMeta(q) \/ DropValue(q) \/ DropMeta(q)
  BY <1>5 DEF ProbeMeta, DropValue, DropMeta
<1>6. CASE LoadRevoked(q) \/ WipeValue(q) \/ WriteTomb(q)
  BY <1>6 DEF LoadRevoked, WipeValue, WriteTomb
<1>7. CASE ListKeys(q) \/ SweepNext(q) \/ Judge(q)
  BY <1>7 DEF ListKeys, SweepNext, Judge, TypeOK
<1> QED
  BY <1>1, <1>2, <1>3, <1>4, <1>5, <1>6, <1>7 DEF Advance

\* A caller comes to these program points through Judge alone, and on the way to
\* the last of them it leaves the item as it is.
LEMMA PruneSteps ==
    ASSUME IndInv, PruneInv, NEW p \in Callers,
           Start(p) \/ Acquire(p) \/ Advance(p) \/ LockFails(p) \/ Abandon(p) \/ Crash(p)
    PROVE  PruneProgress(p)'
<1>1. TypeOK /\ PruneProgress(p)
  BY DEF IndInv, PruneInv
<1>2. SUFFICES ASSUME op'[p] = "prune", pc'[p] \in {"probeMeta", "dropValue", "dropMeta"}
               PROVE  Verdict(meta'[target'[p]], asOf'[p]) = "expired"
  BY DEF PruneProgress, Verdict, ExpiredAt
<1>3. ASSUME NEW r, Return(p, r) PROVE FALSE
  BY <1>1, <1>2, <1>3 DEF Return, TypeOK
<1>4. ~Start(p) /\ ~Crash(p)
  BY <1>1, <1>2 DEF Start, BeginResolve, BeginStore, BeginWipe, BeginSweep, Begin, Crash, TypeOK
<1>5. ~Acquire(p)
  BY <1>1, <1>2 DEF Acquire, TypeOK, FirstPoint, Ops, Sweeps
<1>6. ~LockFails(p) /\ ~Abandon(p)
  BY <1>3 DEF LockFails, Abandon
<1>7. ~LoadPolicy(p) /\ ~GetValue(p) /\ ~Recheck(p)
  BY <1>1, <1>2, <1>3 DEF LoadPolicy, GetValue, Recheck, TypeOK
<1>8. ~MarkPending(p) /\ ~PutValue(p) /\ ~Commit(p)
  BY <1>1, <1>2, <1>3 DEF MarkPending, PutValue, Commit, TypeOK
<1>9. ~DropMeta(p)
  BY <1>1, <1>2, <1>3 DEF DropMeta, TypeOK
<1>10. ~LoadRevoked(p) /\ ~WipeValue(p) /\ ~WriteTomb(p)
  BY <1>1, <1>2, <1>3 DEF LoadRevoked, WipeValue, WriteTomb, TypeOK
<1>11. ~ListKeys(p) /\ ~SweepNext(p)
  BY <1>1, <1>2 DEF ListKeys, SweepNext, TypeOK
<1>12. ProbeMeta(p) \/ DropValue(p) \/ Judge(p)
  BY <1>4, <1>5, <1>6, <1>7, <1>8, <1>9, <1>10, <1>11 DEF Advance
<1>13. CASE ProbeMeta(p) \/ DropValue(p)
  BY <1>1, <1>2, <1>3, <1>13 DEF ProbeMeta, DropValue, PruneProgress, Verdict,
                                 ExpiredAt, TypeOK
<1>14. CASE Judge(p)
  BY <1>1, <1>2, <1>3, <1>14 DEF Judge, TypeOK
<1> QED
  BY <1>12, <1>13, <1>14

LEMMA PruneInvHolds == Spec => []PruneInv
<1>1. Init => PruneInv
  BY DEF Init, PruneInv, PruneProgress
<1>2. IndInv /\ PruneInv /\ [Next]_vars => PruneInv'
  <2> SUFFICES ASSUME IndInv, PruneInv, [Next]_vars, NEW p \in Callers
               PROVE  PruneProgress(p)'
    BY DEF PruneInv
  <2>1. TypeOK /\ LockDiscipline(p) /\ PruneProgress(p)
    BY DEF IndInv, CallerInv, PruneInv
  <2>2. CASE Tick \/ UNCHANGED vars
    BY <2>1, <2>2 DEF Tick, vars, PruneProgress, Verdict, ExpiredAt
  <2>3. ASSUME NEW q \in Callers \ {p},
               Start(q) \/ Acquire(q) \/ Advance(q) \/ LockFails(q) \/ Abandon(q) \/ Crash(q)
        PROVE  PruneProgress(p)'
    <3>1. /\ op'[p] = op[p] /\ target'[p] = target[p] /\ asOf'[p] = asOf[p]
          /\ pc'[p] = pc[p]
      BY <2>1, <2>3, OthersKeepTheirCall, OthersKeepTheirs
    <3>2. pc[p] \in {"probeMeta", "dropValue", "dropMeta"} => lock[p] = "exclusive"
      BY <2>1, Whereabouts
    <3>3. lock[p] = "exclusive" => meta'[target[p]] = meta[target[p]]
      <4>1. CASE meta' = meta
        BY <4>1
      <4>2. CASE meta' # meta
        <5>1. PICK r \in Callers : Writes(r)
          BY <4>2, OnlyWritesChangeTheStore
        <5>2. CASE lock[p] # "exclusive"
          BY <5>2
        <5>3. CASE r = p
          <6>1. Writes(p) => pc'[p] # pc[p]
            BY <2>1 DEF Writes, MarkPending, PutValue, Commit, DropValue, DropMeta,
                        WipeValue, WriteTomb, Return, TypeOK
          <6> QED BY <3>1, <5>1, <5>3, <6>1
        <5>4. CASE lock[p] = "exclusive" /\ r # p
          BY <5>1, <5>4, WritesUnderLock DEF IndInv, Exclusion
        <5> QED BY <5>2, <5>3, <5>4
      <4> QED BY <4>1, <4>2
    <3> QED BY <2>1, <3>1, <3>2, <3>3 DEF PruneProgress, Verdict, ExpiredAt
  <2> QED BY <2>2, <2>3, PruneSteps DEF Next
<1> QED
  BY <1>1, <1>2, IndInvHolds, PTL DEF Spec

\* A prune removes a value only if that very version was past its own expiry
\* when the prune began.
THEOREM PrunesTakeOnlyExpired == Spec => PruneTakesOnlyExpired
<1> DEFINE TakesExpired ==
      \A p \in Callers, n \in Names :
          /\ pc[p] = "dropValue" /\ op[p] = "prune" /\ target[p] = n
          /\ pc'[p] # "dropValue"
          /\ value'[n] # value[n]
          => deadline[value[n]] # 0 /\ deadline[value[n]] <= asOf[p]
<1>1. IndInv /\ PruneInv /\ [Next]_vars => [TakesExpired]_vars
  <2> SUFFICES ASSUME IndInv, PruneInv, [Next]_vars, NEW p \in Callers, NEW n \in Names,
                      pc[p] = "dropValue", op[p] = "prune", target[p] = n,
                      value'[n] # value[n]
               PROVE  deadline[value[n]] # 0 /\ deadline[value[n]] <= asOf[p]
    BY Zenon
  <2>1. TypeOK /\ LockDiscipline(p) /\ HasItsPolicy(n)
    BY DEF IndInv, CallerInv, ReadableValueHasItsPolicy
  <2>2. Verdict(meta[n], asOf[p]) = "expired" /\ meta[n] \in Items
    BY <2>1 DEF PruneInv, PruneProgress, TypeOK
  <2>3. Open(meta[n]) /\ meta[n].expires # 0 /\ asOf[p] >= meta[n].expires
    BY <2>2, VerdictFacts DEF Verdict, ExpiredAt
  <2>4. value[n] # NoVersion
    <3>1. PICK r \in Callers : Writes(r)
      BY OnlyWritesChangeTheStore
    <3>2. lock[p] = "exclusive"
      BY <2>1, Whereabouts
    <3>3. r = p
      BY <3>1, <3>2, WritesUnderLock DEF IndInv, Exclusion
    <3>4. DropValue(p)
      BY <3>1, <3>3 DEF Writes, MarkPending, PutValue, Commit, DropMeta, WipeValue, WriteTomb
    <3> QED BY <2>1, <3>4 DEF DropValue, TypeOK
  <2>5. deadline[value[n]] = meta[n].expires
    BY <2>1, <2>3, <2>4 DEF HasItsPolicy, Visible
  <2>6. asOf[p] \in Nat /\ meta[n].expires \in Nat
    BY <2>1, <2>2 DEF TypeOK, Items
  <2> QED BY <2>3, <2>5, <2>6
<1>2. Spec => [][TakesExpired]_vars
  BY <1>1, IndInvHolds, PruneInvHolds, PTL DEF Spec
<1> QED
  BY <1>2 DEF PruneTakesOnlyExpired

\* A tombstone goes away only under the exclusive lock of a store or a delete
\* of that name.
THEOREM TombstonesStay == Spec => TombstoneStays
<1> DEFINE Stays ==
      \A n \in Names : meta[n].revoked /\ ~meta'[n].revoked =>
          \E p \in Callers :
              /\ op[p] \in {"store", "delete"} /\ target[p] = n
              /\ lock[p] = "exclusive"
<1>1. IndInv /\ PruneInv /\ [Next]_vars => [Stays]_vars
  <2> SUFFICES ASSUME IndInv, PruneInv, [Next]_vars, NEW n \in Names,
                      meta[n].revoked, ~meta'[n].revoked
               PROVE  \E p \in Callers :
                          /\ op[p] \in {"store", "delete"} /\ target[p] = n
                          /\ lock[p] = "exclusive"
    BY Zenon
  <2>1. PICK p \in Callers : Writes(p)
    BY OnlyWritesChangeTheStore
  <2>2. TypeOK /\ LockDiscipline(p)
    BY DEF IndInv, CallerInv
  <2>3. lock[p] = "exclusive" /\ target[p] = n
    BY <2>1, WritesUnderLock
  <2>4. ~PutValue(p) /\ ~DropValue(p) /\ ~WipeValue(p)
    BY DEF PutValue, DropValue, WipeValue
  <2>5. ~WriteTomb(p)
    BY <2>2, <2>3 DEF WriteTomb, Tombstone, Item, TypeOK
  <2>6. CASE MarkPending(p) \/ Commit(p)
    BY <2>2, <2>3, <2>6, Whereabouts DEF MarkPending, Commit
  <2>7. CASE DropMeta(p)
    <3>1. op[p] \in {"delete", "prune"} /\ pc[p] = "dropMeta"
      BY <2>2, <2>7, Whereabouts DEF DropMeta
    <3>2. Verdict(meta[n], asOf[p]) # "expired"
      BY DEF Verdict
    <3>3. op[p] # "prune"
      BY <2>3, <3>1, <3>2 DEF PruneInv, PruneProgress
    <3> QED BY <2>3, <3>1, <3>3
  <2> QED BY <2>1, <2>4, <2>5, <2>6, <2>7 DEF Writes
<1>2. Spec => [][Stays]_vars
  BY <1>1, IndInvHolds, PruneInvHolds, PTL DEF Spec
<1> QED
  BY <1>2 DEF TombstoneStays

-----------------------------------------------------------------------------
(* SecretPolicy implements SecretRegistry: every step of the keyring protocol is  *)
(* a step of the atomic registry or changes nothing that a user of it can see.    *)

Steps(p) == Acquire(p) \/ Advance(p) \/ LockFails(p) \/ Abandon(p) \/ Crash(p)

Shown   == [n \in Names |-> Visible(n)]
Granted == [p \in Callers |-> Released(p)]

\* Inside a call nothing is granted before the last expiry test.
LEMMA GrantedStays ==
    ASSUME IndInv, NEW p \in Callers, Steps(p), ~Recheck(p)
    PROVE  Granted' = Granted
<1>1. [Next]_vars /\ TypeOK
  BY DEF Steps, Next, IndInv
<1>2. pc[p] # "idle"
  BY DEF Steps, Advance, Acquire, LockFails, Abandon, Crash, LoadPolicy, GetValue,
         Recheck, MarkPending, PutValue, Commit, ProbeMeta, DropValue, DropMeta,
         LoadRevoked, WipeValue, WriteTomb, ListKeys, SweepNext, Judge
<1>3. ASSUME NEW q \in Callers PROVE Released(q)' = Released(q)
  <2>1. CASE q # p
    BY <1>1, <2>1, OthersKeepTheirs DEF Released, Steps
  <2>2. CASE q = p
    BY <1>1, <1>2, <2>2, OnlyRecheckReleases DEF Released
  <2> QED BY <2>1, <2>2
<1> QED
  BY <1>3 DEF Granted

\* The clock and the deadlines stand still inside a call, and only a commit
\* publishes.
LEMMA InsideACall ==
    ASSUME NEW p \in Callers, Steps(p)
    PROVE  /\ clock' = clock /\ deadline' = deadline
           /\ published' = published \/ Commit(p)
<1>1. CASE Acquire(p) \/ LockFails(p) \/ Abandon(p) \/ Crash(p)
  BY <1>1 DEF Acquire, LockFails, Abandon, Crash
<1>2. CASE LoadPolicy(p) \/ GetValue(p) \/ Recheck(p)
  BY <1>2 DEF LoadPolicy, GetValue, Recheck
<1>3. CASE MarkPending(p) \/ PutValue(p) \/ Commit(p)
  BY <1>3 DEF MarkPending, PutValue, Commit
<1>4. CASE ProbeMeta(p) \/ DropValue(p) \/ DropMeta(p)
  BY <1>4 DEF ProbeMeta, DropValue, DropMeta
<1>5. CASE LoadRevoked(p) \/ WipeValue(p) \/ WriteTomb(p)
  BY <1>5 DEF LoadRevoked, WipeValue, WriteTomb
<1>6. CASE ListKeys(p) \/ SweepNext(p) \/ Judge(p)
  BY <1>6 DEF ListKeys, SweepNext, Judge
<1> QED
  BY <1>1, <1>2, <1>3, <1>4, <1>5, <1>6 DEF Steps, Advance

-----------------------------------------------------------------------------
(* One lemma for each way the registry may move *)

LEMMA StartIsIssue ==
    ASSUME IndInv, NEW p \in Callers, Start(p)
    PROVE  Registry!Issue /\ Registry!Destroy(p)
<1>1. TypeOK /\ StoreIssued /\ calls \in Nat /\ TypeOK'
  BY StartStep, BoundsAssumption DEF IndInv, TypeOK
<1>2. PICK o \in Ops, point \in {"lock", "list"}, n \in Names : Begin(p, o, n, point)
  BY <1>1 DEF Start, BeginResolve, BeginStore, BeginWipe, BeginSweep, Ops, Sweeps, TypeOK
<1>3. /\ clock' = clock /\ Shown' = Shown /\ published' = published
      /\ pc' = [pc EXCEPT ![p] = point]
  BY <1>2 DEF Begin, Shown, Visible, Open
<1>4. \A v \in published : deadline'[v] = deadline[v]
  <2>1. \A v \in published : v \in Versions /\ v # calls + 2
    BY <1>1, BoundsAssumption DEF TypeOK, StoreIssued, Versions
  <2>2. deadline' = deadline \/ \E t : deadline' = [deadline EXCEPT ![calls + 2] = t]
    BY DEF Start, BeginResolve, BeginStore, BeginWipe, BeginSweep
  <2> QED BY <1>1, <2>1, <2>2 DEF TypeOK
<1>5. Granted' = [Granted EXCEPT ![p] = NoVersion]
  <2>1. \A q \in Callers \ {p} : Released(q)' = Released(q)
    BY <1>1, OthersKeepTheirs DEF Released
  <2>2. Released(p)' = NoVersion
    BY <1>1, <1>3 DEF Released, TypeOK
  <2> QED BY <2>1, <2>2 DEF Granted
<1> QED
  BY <1>1, <1>3, <1>4, <1>5 DEF TypeOK, Registry!Issue, Registry!Destroy, Shown, Granted

LEMMA RecheckIsGrant ==
    ASSUME IndInv, NEW p \in Callers, Recheck(p)
    PROVE  Registry!Grant(p, target[p]) \/ UNCHANGED Registry!vars
<1>1. TypeOK /\ CallerInv(p) /\ [Next]_vars
  BY DEF IndInv, Next, Advance
<1>2. /\ clock' = clock /\ deadline' = deadline /\ Shown' = Shown
      /\ published' = published
  BY DEF Recheck, Shown, Visible, Open
<1>3. \A q \in Callers \ {p} : Released(q)' = Released(q)
  BY <1>1, OthersKeepTheirs DEF Released, Advance
<1>4. Released(p) = NoVersion
  BY DEF Released, Recheck
<1>5. CASE Released(p)' = NoVersion
  <2>1. Granted' = Granted
    BY <1>3, <1>4, <1>5 DEF Granted
  <2> QED BY <1>2, <2>1 DEF Registry!vars, Shown, Granted
<1>6. CASE Released(p)' # NoVersion
  <2>1. ~ExpiredAt(seen[p], clock) /\ Released(p)' = held[p]
    BY <1>1, <1>4, <1>6, OnlyRecheckReleases
  <2>2. /\ seen[p] = meta[target[p]] /\ Visible(target[p]) = held[p]
        /\ held[p] # NoVersion /\ target[p] \in Names
    BY <1>1 DEF Recheck, CallerInv, ReaderProgress, Visible, TypeOK
  <2>3. meta[target[p]].expires = deadline[held[p]]
    BY <2>2 DEF IndInv, ReadableValueHasItsPolicy, HasItsPolicy
  <2>4. deadline[held[p]] \in Nat /\ clock \in Nat
    BY <1>1, <2>2 DEF TypeOK
  <2>5. deadline[held[p]] = 0 \/ clock < deadline[held[p]]
    BY <2>1, <2>2, <2>3, <2>4 DEF ExpiredAt
  <2>6. Granted' = [Granted EXCEPT ![p] = Visible(target[p])]
    BY <1>3, <2>1, <2>2 DEF Granted
  <2> QED BY <1>2, <1>4, <2>2, <2>5, <2>6 DEF Registry!Grant, Shown, Granted
<1> QED
  BY <1>5, <1>6

\* A write to the keyring shows the version being stored, hides one, or neither.
LEMMA WriteIsPublishOrWithdraw ==
    ASSUME IndInv, NEW p \in Callers, Writes(p)
    PROVE  \/ held[p] \in Versions /\ Registry!Publish(target[p], held[p])
           \/ Registry!Withdraw(target[p])
           \/ UNCHANGED Registry!vars
<1>1. TypeOK /\ CallerInv(p) /\ LockDiscipline(p) /\ HeldVersion(p) /\ WriterProgress(p)
  BY DEF IndInv, CallerInv
<1>0. PICK n \in Names : n = target[p]
  BY <1>1 DEF TypeOK
<1>2. Steps(p) /\ [Next]_vars
  BY DEF Writes, Steps, Advance, Next
<1>3. ~Recheck(p)
  BY DEF Writes, Recheck, MarkPending, PutValue, Commit, DropValue, DropMeta, WipeValue, WriteTomb
<1>4. Granted' = Granted /\ clock' = clock /\ deadline' = deadline
  BY <1>2, <1>3, GrantedStays, InsideACall
<1>5. \A m \in Names \ {n} : Visible(m)' = Visible(m)
  BY <1>0, WritesUnderLock DEF Visible, Open
<1>6. CASE ~Commit(p)
  <2>1. published' = published
    BY <1>2, <1>6, InsideACall
  <2>2. Visible(n)' \in {Visible(n), NoVersion}
    <3>1. ASSUME Visible(n)' # Visible(n), Visible(n)' # NoVersion PROVE FALSE
      <4>1. PICK q \in Callers : Commit(q)
        BY <1>2, <1>5, <3>1, OnlyCommitShows
      <4>2. lock[q] = "exclusive" /\ lock[p] = "exclusive"
        BY <4>1, WritesUnderLock DEF Writes
      <4> QED BY <1>6, <4>1, <4>2 DEF IndInv, Exclusion
    <3> QED BY <3>1
  <2>3. CASE Visible(n)' = Visible(n)
    <3>1. Shown' = Shown
      BY <1>5, <2>3 DEF Shown
    <3> QED BY <1>4, <2>1, <3>1 DEF Registry!vars, Shown, Granted
  <2>4. CASE Visible(n)' = NoVersion /\ Visible(n) # NoVersion
    <3>1. Shown' = [Shown EXCEPT ![n] = NoVersion]
      <4>1. Visible(n)' = NoVersion
        BY <2>4
      <4> QED BY <1>5, <4>1 DEF Shown
    <3> QED BY <1>0, <1>4, <2>1, <2>4, <3>1 DEF Registry!Withdraw, Shown, Granted
  <2> QED BY <2>2, <2>3, <2>4
<1>7. CASE Commit(p) /\ published' = published /\ meta' = meta
  <2>1. Shown' = Shown
    BY <1>7 DEF Commit, Shown, Visible, Open
  <2> QED BY <1>4, <1>7, <2>1 DEF Registry!vars, Shown, Granted
<1>8. CASE /\ Commit(p)
           /\ meta' = [meta EXCEPT ![n] = PolicyOf(held[p])]
           /\ published' = published \cup {held[p]}
  <2>1. Storing(p)
    BY <1>1, <1>8, Whereabouts DEF Commit, Storing
  <2>2. held[p] \in Versions /\ held[p] \notin published
    BY <1>1, <2>1 DEF HeldVersion, TypeOK
  <2>3. value' = value /\ value[n] = held[p] /\ ~Open(meta[n])
    BY <1>0, <1>1, <1>8 DEF Commit, WriterProgress
  <2>4. Visible(n) = NoVersion
    BY <2>3 DEF Visible
  <2>5. meta'[n] = PolicyOf(held[p]) /\ Open(PolicyOf(held[p]))
    BY <1>0, <1>1, <1>8, <2>2, PolicyOfFacts DEF TypeOK
  <2>6. Visible(n)' = held[p]
    BY <2>3, <2>5 DEF Visible, Open
  <2>7. Shown' = [Shown EXCEPT ![n] = held[p]]
    BY <1>5, <2>6 DEF Shown
  <2> QED BY <1>0, <1>4, <1>8, <2>2, <2>4, <2>7 DEF Registry!Publish, Shown, Granted
<1> QED
  BY <1>0, <1>6, <1>7, <1>8 DEF Commit

-----------------------------------------------------------------------------
LEMMA InitImplements == Init => Registry!Init
<1> SUFFICES ASSUME Init PROVE Registry!Init
  OBVIOUS
<1>1. TypeOK /\ ReadableValueHasItsPolicy
  BY InitIndInv DEF IndInv
<1>2. \A n \in Names : Visible(n) \in {NoVersion} \cup published
  BY <1>1 DEF ReadableValueHasItsPolicy, HasItsPolicy
<1>3. \A p \in Callers : Released(p) = NoVersion
  BY DEF Init, Released
<1> QED
  BY <1>1, <1>2, <1>3 DEF TypeOK, Registry!Init

LEMMA StepImplements == IndInv /\ [Next]_vars => [Registry!Next]_(Registry!vars)
<1> SUFFICES ASSUME IndInv, [Next]_vars PROVE [Registry!Next]_(Registry!vars)
  OBVIOUS
<1>1. CASE Tick
  <2>1. clock' > clock
    BY <1>1 DEF Tick, IndInv, TypeOK
  <2> QED BY <1>1, <2>1 DEF Tick, Registry!Next, Registry!Elapse, Visible, Open, Released
<1>2. CASE UNCHANGED vars
  BY <1>2 DEF vars, Registry!vars, Visible, Open, Released
<1>3. ASSUME NEW p \in Callers, Start(p) PROVE Registry!Next
  BY <1>3, StartIsIssue DEF Registry!Next
<1>4. ASSUME NEW p \in Callers, Steps(p) PROVE [Registry!Next]_(Registry!vars)
  <2>1. CASE Recheck(p)
    BY <1>4, <2>1, RecheckIsGrant DEF Registry!Next, IndInv, TypeOK
  <2>2. CASE Writes(p)
    <3>1. target[p] \in Names
      BY <1>4 DEF IndInv, TypeOK
    <3>2. CASE UNCHANGED Registry!vars
      BY <3>2
    <3>3. CASE Registry!Withdraw(target[p])
      BY <3>1, <3>3 DEF Registry!Next
    <3>4. CASE held[p] \in Versions /\ Registry!Publish(target[p], held[p])
      BY <3>1, <3>4 DEF Registry!Next
    <3> QED BY <1>4, <2>2, <3>2, <3>3, <3>4, WriteIsPublishOrWithdraw
  <2>3. CASE ~Recheck(p) /\ ~Writes(p)
    <3>1. Granted' = Granted /\ clock' = clock /\ deadline' = deadline
      BY <1>4, <2>3, GrantedStays, InsideACall
    <3>2. published' = published
      BY <1>4, <2>3, InsideACall DEF Writes
    <3>3. value' = value /\ meta' = meta
      BY <1>4, <2>3
         DEF Steps, Writes, Advance, Acquire, LockFails, Abandon, Crash, LoadPolicy,
             GetValue, ProbeMeta, LoadRevoked, ListKeys, SweepNext, Judge
    <3>4. Shown' = Shown
      BY <3>3 DEF Shown, Visible, Open
    <3> QED BY <3>1, <3>2, <3>4 DEF Registry!vars, Shown, Granted
  <2> QED BY <2>1, <2>2, <2>3
<1> QED
  BY <1>1, <1>2, <1>3, <1>4 DEF Next, Steps

\* The two-item protocol of policy.go, with its locks, failures and crashes,
\* implements the atomic registry, for any callers, names and bounds.
THEOREM RegistryIsImplemented == Spec => ImplementsRegistry
<1>1. Spec => Registry!Spec
  BY InitImplements, StepImplements, IndInvHolds, PTL DEF Spec, Registry!Spec
<1> QED
  BY <1>1 DEF ImplementsRegistry
=============================================================================
