------------------------------ MODULE MCMcpRun ------------------------------
(* Instances of McpRun for TLC.                                                 *)
EXTENDS McpRunRefinement, TLC

CONSTANTS c1, c2

\* A request with the network and a secret, and one with neither.
Demanding == {[env |-> 1, network |-> TRUE]}
Either == Demanding \cup {[env |-> 0, network |-> FALSE]}

\* One of each kind, for the same slot: calls meet in the slots and the server's lifetime only.
MixedInit == Init /\ Cardinality({request[c] : c \in Calls}) = Cardinality(Calls)
MixedSpec == MixedInit /\ [][Next]_vars

Interchangeable == Permutations(Calls)
=============================================================================
