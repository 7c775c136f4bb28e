---------------------------- MODULE MCMsgStore ----------------------------
(* Small instances of MsgStore for TLC. *)
EXTENDS MsgStoreLog, TLC

\* a wildcard filter selects every topic, a plain one its own
MCFilters == {Topics} \cup {{t} : t \in Topics}

\* topics are interchangeable
Symmetry == Permutations(Topics)
=============================================================================
