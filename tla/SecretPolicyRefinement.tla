----------------------- MODULE SecretPolicyRefinement -----------------------
(* SecretPolicy implements SecretRegistry: a name shows the value whose policy *)
(* item lets a read through, and a reader was granted what it still holds.   *)
EXTENDS SecretPolicy

Registry == INSTANCE SecretRegistry WITH
    Readers   <- Callers,
    time      <- clock,
    shown     <- [n \in Names |-> Visible(n)],
    shownOnce <- published,
    granted   <- [p \in Callers |-> Released(p)]

\* The two-item keyring protocol, with its locks, failures and crashes, behaves
\* like an atomic registry that shows every version at most once: the code is
\* storeSecret, deleteSecret, revokeSecret, pruneSecret and resolveSecret.
ImplementsRegistry == Registry!Spec
=============================================================================
