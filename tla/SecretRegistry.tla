--------------------------- MODULE SecretRegistry ---------------------------
(***************************************************************************)
(* What policy.go promises to the rest of opq, with every operation atomic *)
(* and no lock, no keyring and no failure in sight: a name shows at most   *)
(* one version of a secret, a version is shown at most once, and a reader  *)
(* gets the version shown at that moment and never past its deadline.      *)
(* SecretPolicy implements it.                                             *)
(***************************************************************************)
EXTENDS Naturals

CONSTANTS Readers, Names, Versions, NoVersion

VARIABLES
    time,       \* wall-clock time
    shown,      \* version each name shows, or NoVersion
    shownOnce,  \* versions that were ever shown
    deadline,   \* expiry of each version, 0 for none
    granted     \* version each reader was given, or NoVersion

vars == <<time, shown, shownOnce, deadline, granted>>

Init ==
    /\ time \in Nat
    /\ shownOnce \subseteq Versions
    /\ shown \in [Names -> {NoVersion} \cup shownOnce]
    /\ deadline \in [Versions -> Nat]
    /\ granted = [r \in Readers |-> NoVersion]

Elapse ==
    /\ time' > time
    /\ UNCHANGED <<shown, shownOnce, deadline, granted>>

\* How long a version may live is decided before anybody has seen it.
Issue ==
    /\ deadline' \in [Versions -> Nat]
    /\ \A v \in shownOnce : deadline'[v] = deadline[v]
    /\ UNCHANGED <<time, shown, shownOnce>>

Publish(n, v) ==
    /\ shown[n] = NoVersion
    /\ v \notin shownOnce
    /\ shown' = [shown EXCEPT ![n] = v]
    /\ shownOnce' = shownOnce \cup {v}
    /\ UNCHANGED <<time, deadline, granted>>

Withdraw(n) ==
    /\ shown[n] # NoVersion
    /\ shown' = [shown EXCEPT ![n] = NoVersion]
    /\ UNCHANGED <<time, shownOnce, deadline, granted>>

Grant(r, n) ==
    /\ shown[n] # NoVersion
    /\ deadline[shown[n]] = 0 \/ time < deadline[shown[n]]
    /\ granted[r] = NoVersion
    /\ granted' = [granted EXCEPT ![r] = shown[n]]
    /\ UNCHANGED <<time, shown, shownOnce, deadline>>

Destroy(r) == granted' = [granted EXCEPT ![r] = NoVersion]

Next ==
    \/ Elapse
    \/ Issue /\ \E r \in Readers : Destroy(r)
    \/ \E n \in Names, v \in Versions : Publish(n, v)
    \/ \E n \in Names : Withdraw(n)
    \/ \E r \in Readers, n \in Names : Grant(r, n)
    \/ \E r \in Readers : Destroy(r) /\ UNCHANGED <<time, shown, shownOnce, deadline>>

Spec == Init /\ [][Next]_vars
=============================================================================
