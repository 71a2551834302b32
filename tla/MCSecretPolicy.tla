--------------------------- MODULE MCSecretPolicy ---------------------------
(* Instances of SecretPolicy and its refinement for TLC. *)
EXTENDS SecretPolicyRefinement, TLC

CallerSymmetry == Permutations(Callers)

\* What the documentation says of `opq prune` (cmd_prune.go): a sweep that
\* reported no failure leaves no expired policy item behind.  It is meant for a
\* single caller, where nothing can be stored while the sweep runs.
PruneDeletesEveryExpired ==
    [][\A p \in Callers :
        /\ op[p] = "prune" /\ pc[p] = "sweep" /\ pc'[p] = "idle"
        /\ out'[p] \in {"none", "ok"}
        => \A n \in Names : Verdict(meta[n], asOf[p]) # "expired"]_vars
=============================================================================
