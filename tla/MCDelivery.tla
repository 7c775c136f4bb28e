---------------------------- MODULE MCDelivery ----------------------------
(* Instances of Delivery for TLC. *)
EXTENDS Delivery, TLC

MCWords == {"", "chat", "u1", "u2", "$sys"}
MCPublish == {<<"chat", "u1">>}
MCFanout == {}
MCAdmin == {}
User1 == [userid |-> "u1", superuser |-> FALSE, admin |-> FALSE]
User2 == [userid |-> "u2", superuser |-> FALSE, admin |-> TRUE]
MCRecords == {User1, User2}
MCTopics == {<<"chat", "u1">>}
MCRequests == {<<"+", "u1", "#">>}
Bounded(auth, first, nc, na, nf) ==
    [auth |-> auth, acl |-> auth, auto |-> auth, first |-> first,
     maxChanges |-> nc, maxAsks |-> na, maxFaults |-> nf]
\* the whole path with a fault; a device that asks for what is not its own;
\* accounts that change; and a broker without logins
MCScenarios ==
    {Bounded(TRUE, User1, 0, 1, 1), Bounded(TRUE, User2, 0, 1, 0),
     Bounded(TRUE, User1, 2, 0, 0), Bounded(FALSE, User1, 0, 1, 0)}

Symmetry == Permutations(Nodes)
=============================================================================
