-------------------------- MODULE MCUserDirectory --------------------------
(* Small instances of UserDirectory for TLC. *)
EXTENDS UserDirectory, TLC

Budget(f, c, l) == [faults |-> f, crashes |-> c, logins |-> l]
MCLogin == {Budget(1, 0, 4)}
\* a fault, or a crash, between two nodes
MCCluster == {Budget(1, 0, 2), Budget(0, 1, 0)}
MCAnswers == {Budget(1, 1, 2)}
MCDeleted == {Budget(0, 0, 4)}

\* only equality of these is used
Symmetry == Permutations(Requests) \cup Permutations(Nodes) \cup Permutations(Passwords)
=============================================================================
