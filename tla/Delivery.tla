------------------------------ MODULE Delivery ------------------------------
(***************************************************************************)
(* How a message reaches the devices of a user: login, automatic and       *)
(* requested subscriptions under the access rules, the live path through   *)
(* the replicated router, and the stored path, which a subscription opens  *)
(* by loading messages from every node.                                    *)
(*                                                                         *)
(* The rules, the automatic subscriptions and the matching of stored       *)
(* messages are the repository's own code (Acl, TopicFilter); the session, *)
(* the router and the load are the vendored rmqtt as the broker runs it.   *)
(* The store is reduced to which messages are stored and who is marked:    *)
(* MsgStore has the rest.  Messages do not expire here.                    *)
(*                                                                         *)
(* A client connects again only after its previous connection ended.       *)
(***************************************************************************)
EXTENDS Acl, FiniteSets

CONSTANTS
    Nodes,
    Clients,       \* devices, each with an account of its own
    Records,       \* records an account is created with
    Topics,        \* topics that are published to
    Requests,      \* filters that devices subscribe to
    Scenarios,     \* configurations, each with the bounds it is explored within
    Messages,      \* bound: the messages that are published
    MaxConnects,   \* bound on connections of a client
    None

\* a configuration: AUTH_DISABLED is not set, acl.enabled, fanout.auto_subscribe; the
\* record accounts start with; and bounds on creations and deletions of accounts, on SUBSCRIBE packets and on lost
\* forwards and failed loads
Scenario == [auth : BOOLEAN, acl : BOOLEAN, auto : BOOLEAN,
             first : Account, maxChanges : Nat, maxAsks : Nat, maxFaults : Nat]

Filters == Requests \cup UNION {AutoFilters(rec) : rec \in Records}

\* a session, and a load under way: wait is None until the node's own store was read
Session == [id : 1 .. MaxConnects, node : Nodes, auth : Auths, keep : BOOLEAN, subs : SUBSET Filters]
Load == [f : Filters, wait : (SUBSET Nodes) \cup {None}, got : SUBSET Messages, bad : BOOLEAN]

ASSUME DeliveryAssumption ==
    /\ Records \subseteq Account
    /\ Topics \subseteq Topic
    /\ \A f \in Filters : ValidFilter(f)
    /\ Scenarios \subseteq Scenario
    /\ \A s \in Scenarios : s.first \in Records
    /\ MaxConnects \in Nat
    \* None is a value of its own
    /\ \A v \in Records \cup (SUBSET Nodes) \cup (SUBSET Filters) : v # None
    /\ \A v \in Session \cup Load : v # None

VARIABLES
    conf,
    account,    \* [c] its record, or None
    stage,      \* [c] how far its connection is
    hello,      \* [c] the handshake: [id, node, clean, carry, rec, auth]
    sess,       \* [c] its session, on the node it was last connected to, or None
    inbox,      \* [c] messages of the session's rx: [kind, filters]
    work,       \* [c] subscriptions under way: [kind, rest]
    load,       \* [c] message_load under way: [f, wait, got, bad], or None
    gets,       \* MessageGet requests to peers; not live once their load gave up
    rlog,       \* the raft log of the router: [op, c, f, id, node]
    applied,    \* [n] entries of it that n had applied when it last looked a topic up
    removing,   \* Remove entries whose proposal is a task of its own
    msg,        \* [m] the publication: [pc, topic, node]; pc is none, store or done
    marks,      \* <<c, m>> that get marked
    wire,       \* <<m, c, n>> on the way to a session on n
    asks, changes, faults,
    \* what follows only records history; no action reads it
    sent,       \* [c] messages handed to a session of c
    logins,     \* [c] records c was admitted with
    wanted,     \* [c] filters c was granted since its last clean start, and did not give up;
                \* without those a connection was to take over and did not before it ended
    since,      \* [c][f] the log entry with which the session of c subscribed to f
    refused,    \* [c] filters refused to the automatic subscription of this connection
    steady,     \* [c] the automatic subscription read the record the login had read
    passed,     \* [c] <<f, n>>: the load of subscription f is done with n
    missed      \* <<c, m, why>>: what kept m from c on the live path (unrouted,
                \* overtaken, moved, lost) or on the stored one (unstored, failed)

vars == <<conf, account, stage, hello, sess, inbox, work, load, gets, rlog, applied,
          removing, msg, marks, wire, asks, changes, faults,
          sent, logins, wanted, since, refused, steady, passed, missed>>
histVars == <<sent, logins, wanted, since, refused, steady, passed, missed>>
routeVars == <<rlog, applied, removing>>
msgVars == <<msg, marks, wire>>
linkVars == <<stage, hello, sess, inbox, work>>

NoHello == [id |-> 0, node |-> None, clean |-> TRUE, carry |-> None, rec |-> None, auth |-> OpenAuth]
NotPublished == [pc |-> "none", topic |-> None, node |-> None]

-----------------------------------------------------------------------------
(* Routes: the relation (filter, client) -> session id, node, of each node. *)

\* mutant: a Remove removes the relation of any session
BugRoutes(k, c, f) ==
    {rlog[i].node : i \in {i \in 1 .. k :
        /\ rlog[i].op = "add" /\ rlog[i].c = c /\ rlog[i].f = f
        /\ \A j \in i + 1 .. k : ~ (rlog[j].c = c /\ rlog[j].f = f)}}

\* the node with the session of c subscribed to f, after k entries of the log; a
\* Remove only removes the relation of the session that asked for it
Routes(k, c, f) ==
    {rlog[i].node : i \in {i \in 1 .. k :
        /\ rlog[i].op = "add" /\ rlog[i].c = c /\ rlog[i].f = f
        /\ \A j \in i + 1 .. k :
              rlog[j].c = c /\ rlog[j].f = f =>
                  rlog[j].op = "remove" /\ rlog[j].id # rlog[i].id}}

\* Router.add is awaited, Router.remove is spawned
AddRoute(c, f) ==
    rlog' = Append(rlog, [op |-> "add", c |-> c, f |-> f,
                          id |-> sess[c].id, node |-> sess[c].node])

Removals(c, fs) ==
    {[op |-> "remove", c |-> c, f |-> f, id |-> sess[c].id, node |-> sess[c].node] : f \in fs}

Propose(e) ==
    /\ e \in removing
    /\ removing' = removing \ {e}
    /\ rlog' = Append(rlog, e)
    /\ UNCHANGED <<conf, account, linkVars, load, gets, applied, msgVars, asks, changes, faults, histVars>>

-----------------------------------------------------------------------------
(* Accounts: POST and DELETE /api/v1/users. *)

CreateAccount(c, rec) ==
    /\ account[c] = None /\ changes < conf.maxChanges
    /\ account' = [account EXCEPT ![c] = rec]
    /\ changes' = changes + 1
    /\ UNCHANGED <<conf, linkVars, load, gets, routeVars, msgVars, asks, faults, histVars>>

DeleteAccount(c) ==
    /\ account[c] # None /\ changes < conf.maxChanges
    /\ account' = [account EXCEPT ![c] = None]
    /\ changes' = changes + 1
    /\ UNCHANGED <<conf, linkVars, load, gets, routeVars, msgVars, asks, faults, histVars>>

-----------------------------------------------------------------------------
(* Connecting. *)

\* client_authenticate, with the right password
Authenticate(c, n, clean) ==
    /\ stage[c] = "down" /\ hello[c].id < MaxConnects
    /\ conf.auth => account[c] # None
    /\ stage' = [stage EXCEPT ![c] = "authed"]
    /\ hello' = [hello EXCEPT ![c] =
                    [id |-> @.id + 1, node |-> n, clean |-> clean, carry |-> None, rec |-> account[c],
                     auth |-> IF conf.auth THEN AuthInfo(account[c]) ELSE OpenAuth]]
    /\ logins' = [logins EXCEPT ![c] = @ \cup ({account[c]} \ {None})]
    /\ UNCHANGED <<conf, account, sess, inbox, work, load, gets, routeVars, msgVars, asks, changes, faults,
                   sent, wanted, since, refused, steady, passed, missed>>

\* entry.kick: the offline session goes; its routes go too on a clean start or
\* when it was on another node
Kick(c) ==
    /\ stage[c] = "authed"
    /\ stage' = [stage EXCEPT ![c] = "kicked"]
    /\ sess' = [sess EXCEPT ![c] = None]
    /\ LET old == sess[c]
           cleared == old # None /\ (hello[c].clean \/ old.node # hello[c].node)
       IN  /\ removing' = removing \cup (IF cleared THEN Removals(c, old.subs) ELSE {})
           /\ hello' = [hello EXCEPT ![c].carry =
                           IF old = None \/ hello[c].clean THEN None ELSE old.subs]
    /\ wanted' = [wanted EXCEPT ![c] = IF hello[c].clean THEN {} ELSE @]
    /\ passed' = [passed EXCEPT ![c] = {}]
    /\ UNCHANGED <<conf, account, inbox, work, load, gets, rlog, applied, msgVars, asks, changes, faults,
                   sent, logins, since, refused, steady, missed>>

\* Session::new, entry.set, and the state transfer as its first message
SetSession(c) ==
    /\ stage[c] = "kicked"
    /\ stage' = [stage EXCEPT ![c] = "set"]
    /\ sess' = [sess EXCEPT ![c] =
                   [id |-> hello[c].id, node |-> hello[c].node, auth |-> hello[c].auth,
                    keep |-> ~ hello[c].clean, subs |-> {}]]
    /\ inbox' = [inbox EXCEPT ![c] =
                   IF hello[c].carry = None THEN <<>>
                   ELSE <<[kind |-> "carry", filters |-> hello[c].carry]>>]
    /\ UNCHANGED <<conf, account, hello, work, load, gets, routeVars, msgVars, asks, changes, faults,
                   histVars>>

\* auto_subscription.subscribes reads the account a second time
AutoSubscribe(c) ==
    /\ stage[c] = "set"
    /\ stage' = [stage EXCEPT ![c] = "up"]
    /\ hello' = [hello EXCEPT ![c] = [NoHello EXCEPT !.id = hello[c].id]]
    /\ inbox' = [inbox EXCEPT ![c] =
                   IF conf.auto /\ account[c] # None
                   THEN Append(@, [kind |-> "auto", filters |-> AutoFilters(account[c])])
                   ELSE @]
    /\ refused' = [refused EXCEPT ![c] = {}]
    /\ steady' = [steady EXCEPT ![c] = account[c] = hello[c].rec]
    /\ UNCHANGED <<conf, account, sess, work, load, gets, routeVars, msgVars, asks, changes, faults,
                   sent, logins, wanted, since, passed, missed>>

NoWork == [kind |-> "none", rest |-> {}]
Idle(c) == stage[c] = "up" /\ work[c] = NoWork /\ load[c] = None

\* subscriptions of the previous session that wait in rx
Waiting(c) ==
    UNION {inbox[c][i].filters : i \in {i \in DOMAIN inbox[c] : inbox[c][i].kind = "carry"}}

\* the offline loop throws the rest of rx away; only a kept session stays
Disconnect(c) ==
    /\ Idle(c)
    /\ stage' = [stage EXCEPT ![c] = "down"]
    /\ inbox' = [inbox EXCEPT ![c] = <<>>]
    /\ sess' = [sess EXCEPT ![c] = IF @.keep THEN @ ELSE None]
    /\ removing' = removing \cup (IF sess[c].keep THEN {} ELSE Removals(c, sess[c].subs))
    /\ wanted' = [wanted EXCEPT ![c] =
                     IF sess[c].keep THEN @ \ (Waiting(c) \ sess[c].subs) ELSE {}]
    /\ UNCHANGED <<conf, account, hello, work, load, gets, rlog, applied, msgVars, asks, changes, faults,
                   sent, logins, since, refused, steady, passed, missed>>

-----------------------------------------------------------------------------
(* The session loop: one message or packet at a time. *)

\* the filters that are left of a message or packet
Job(kind, rest) == IF rest = {} THEN NoWork ELSE [kind |-> kind, rest |-> rest]

TakeMessage(c) ==
    /\ Idle(c) /\ inbox[c] # <<>>
    /\ inbox' = [inbox EXCEPT ![c] = Tail(@)]
    /\ work' = [work EXCEPT ![c] = Job(Head(inbox[c]).kind, Head(inbox[c]).filters)]
    /\ UNCHANGED <<conf, account, stage, hello, sess, load, gets, routeVars, msgVars, asks, changes, faults,
                   histVars>>

\* a SUBSCRIBE packet
Ask(c, f) ==
    /\ Idle(c) /\ asks < conf.maxAsks
    /\ asks' = asks + 1
    /\ work' = [work EXCEPT ![c] = Job("ask", {f})]
    /\ UNCHANGED <<conf, account, stage, hello, sess, inbox, load, gets, routeVars, msgVars, changes, faults,
                   histVars>>

\* an UNSUBSCRIBE packet
Unsubscribe(c, f) ==
    /\ Idle(c) /\ f \in sess[c].subs
    /\ sess' = [sess EXCEPT ![c].subs = @ \ {f}]
    /\ removing' = removing \cup Removals(c, {f})
    /\ wanted' = [wanted EXCEPT ![c] = @ \ {f}]
    /\ passed' = [passed EXCEPT ![c] = @ \ ({f} \X Nodes)]
    /\ UNCHANGED <<conf, account, stage, hello, inbox, work, load, gets, rlog, applied, msgVars, asks,
                   changes, faults, sent, logins, since, refused, steady, missed>>

NewLoad(f) == [f |-> f, wait |-> None, got |-> {}, bad |-> FALSE]

\* _subscribe: the rules, the route, then the load; a transferred subscription is
\* not checked again
StartFilter(c, f) ==
    /\ load[c] = None /\ f \in work[c].rest
    /\ work' = [work EXCEPT ![c] = Job(@.kind, @.rest \ {f})]
    /\ IF work[c].kind = "carry" \/ MaySubscribe(sess[c].auth, conf.acl, f)
       THEN /\ AddRoute(c, f)
            /\ sess' = [sess EXCEPT ![c].subs = @ \cup {f}]
            /\ load' = [load EXCEPT ![c] = NewLoad(f)]
            /\ wanted' = [wanted EXCEPT ![c] = @ \cup {f}]
            /\ passed' = [passed EXCEPT ![c] = @ \ ({f} \X Nodes)]
            /\ since' = [since EXCEPT ![c][f] = IF f \in sess[c].subs THEN @ ELSE Len(rlog) + 1]
            /\ UNCHANGED refused
       ELSE /\ refused' = [refused EXCEPT ![c] = IF work[c].kind = "auto" THEN @ \cup {f} ELSE @]
            /\ UNCHANGED <<rlog, sess, load, wanted, passed, since>>
    /\ UNCHANGED <<conf, account, stage, hello, inbox, gets, applied, removing, msgVars, asks, changes,
                   faults, sent, logins, steady, missed>>

-----------------------------------------------------------------------------
(* message_load. *)

Stored(n) == {m \in Messages : msg[m].pc = "done" /\ msg[m].node = n}

\* get(c, f) on n marks what it returns
Hits(n, c, f) ==
    {m \in Stored(n) : StoreMatches(msg[m].topic, f) /\ <<c, m>> \notin marks}

\* the local get, then MessageGet to every peer
LoadLocal(c) ==
    /\ load[c] # None /\ load[c].wait = None
    /\ LET n == sess[c].node
           f == load[c].f
       IN  /\ marks' = marks \cup ({c} \X Hits(n, c, f))
           /\ load' = [load EXCEPT ![c].got = Hits(n, c, f), ![c].wait = Nodes \ {n}]
           /\ gets' = gets \cup
                 {[c |-> c, f |-> f, node |-> p, live |-> TRUE] : p \in Nodes \ {n}}
           /\ passed' = [passed EXCEPT ![c] = @ \cup {<<f, n>>}]
    /\ UNCHANGED <<conf, account, linkVars, routeVars, msg, wire, asks, changes, faults,
                   sent, logins, wanted, since, refused, steady, missed>>

\* a peer answers; an answer nobody waits for any more is dropped
PeerGet(g) ==
    /\ g \in gets
    /\ gets' = gets \ {g}
    /\ marks' = marks \cup ({g.c} \X Hits(g.node, g.c, g.f))
    /\ load' = IF g.live
               THEN [load EXCEPT ![g.c].got = @ \cup Hits(g.node, g.c, g.f),
                                 ![g.c].wait = @ \ {g.node}]
               ELSE load
    /\ passed' = [passed EXCEPT ![g.c] = @ \cup (IF g.live THEN {<<g.f, g.node>>} ELSE {})]
    /\ missed' = missed \cup
          (IF g.live THEN {} ELSE {<<g.c, m, "failed">> : m \in Hits(g.node, g.c, g.f)})
    /\ UNCHANGED <<conf, account, linkVars, routeVars, msg, wire, asks, changes, faults,
                   sent, logins, wanted, since, refused, steady>>

\* an answer does not arrive in time; its request may still be executed
Timeout(g) ==
    /\ g \in gets /\ g.live /\ faults < conf.maxFaults
    /\ faults' = faults + 1
    /\ \E late \in BOOLEAN :
          gets' = (gets \ {g}) \cup (IF late THEN {[g EXCEPT !.live = FALSE]} ELSE {})
    /\ load' = [load EXCEPT ![g.c].wait = @ \ {g.node}, ![g.c].bad = TRUE]
    /\ passed' = [passed EXCEPT ![g.c] = @ \cup {<<g.f, g.node>>}]
    /\ missed' = missed \cup {<<g.c, m, "failed">> : m \in Hits(g.node, g.c, g.f)}
    /\ UNCHANGED <<conf, account, linkVars, routeVars, msgVars, asks, changes,
                   sent, logins, wanted, since, refused, steady>>

\* mutant: only what the session's own node returned is sent
BugLoadEnd(c) ==
    /\ load[c] # None /\ load[c].wait = {}
    /\ load' = [load EXCEPT ![c] = None]
    /\ sent' = [sent EXCEPT ![c] = @ \cup {m \in load[c].got : msg[m].node = sess[c].node}]
    /\ missed' = missed \cup
          (IF load[c].bad THEN {<<c, m, "failed">> : m \in load[c].got} ELSE {})
    /\ UNCHANGED <<conf, account, linkVars, gets, routeVars, msgVars, asks, changes, faults,
                   logins, wanted, since, refused, steady, passed>>

\* one failed answer fails the load: what the others returned is not sent
LoadEnd(c) ==
    /\ load[c] # None /\ load[c].wait = {}
    /\ load' = [load EXCEPT ![c] = None]
    /\ sent' = [sent EXCEPT ![c] = @ \cup (IF load[c].bad THEN {} ELSE load[c].got)]
    /\ missed' = missed \cup
          (IF load[c].bad THEN {<<c, m, "failed">> : m \in load[c].got} ELSE {})
    /\ UNCHANGED <<conf, account, linkVars, gets, routeVars, msgVars, asks, changes, faults,
                   logins, wanted, since, refused, steady, passed>>

-----------------------------------------------------------------------------
(* Publishing. *)

\* mutant: only the routes of the topic itself, none with a wildcard
BugTargets(k, t, c) == UNION {Routes(k, c, f) : f \in Filters \cap {t}}

\* the nodes to which a publication to t goes for c, after k entries of the log
Targets(k, t, c) ==
    UNION {Routes(k, c, f) : f \in {f \in Filters : RouteMatches(t, f)}}

\* whether a message that comes to n for c finds a session
Reachable(c, n) == sess[c] # None /\ sess[c].node = n

\* history: the subscriptions of the session of c that take a publication to t and were
\* made within the first k entries of the log
Heard(k, t, c) ==
    IF sess[c] = None THEN {}
    ELSE {f \in sess[c].subs : RouteMatches(t, f) /\ since[c][f] <= k}

\* history: entry i is what the session of c proposed, as op, for its subscription f
Own(i, op, c, f) ==
    rlog[i].op = op /\ rlog[i].c = c /\ rlog[i].f = f /\ rlog[i].id = sess[c].id

\* history: the Remove of an UNSUBSCRIBE came into the log after the same session had
\* subscribed to f again, and no later Add of it within k entries
Overtaken(k, c, f) ==
    \E i \in since[c][f] + 1 .. k :
        Own(i, "remove", c, f) /\ \A j \in i + 1 .. k : ~ Own(j, "add", c, f)

\* inner_forwards up to the store: n looks t up in the routes it knows, local
\* sessions get the message at once, other nodes by gRPC
Forwards(m, t, n) ==
    /\ msg[m].pc = "none"
    /\ msg' = [msg EXCEPT ![m] = [pc |-> "store", topic |-> t, node |-> n]]
    /\ \E k \in applied[n] .. Len(rlog) :
          LET local == {c \in Clients : n \in Targets(k, t, c) /\ Reachable(c, n)}
          IN  /\ applied' = [applied EXCEPT ![n] = k]
              /\ wire' = wire \cup
                    UNION {{<<m, c, p>> : p \in Targets(k, t, c) \ {n}} : c \in Clients}
              /\ sent' = [c \in Clients |-> IF c \in local THEN sent[c] \cup {m} ELSE sent[c]]
              /\ missed' = missed
                    \cup {<<c, m, "unrouted">> : c \in {c \in Clients : Heard(k, t, c) = {}}}
                    \cup {<<c, m, "overtaken">> : c \in {c \in Clients :
                             Heard(k, t, c) # {} /\ \A f \in Heard(k, t, c) : Overtaken(k, c, f)}}
    /\ UNCHANGED <<conf, account, linkVars, load, gets, rlog, removing, marks, asks, changes, faults,
                   logins, wanted, since, refused, steady, passed>>

\* the backend, a superuser, on any node
Publish(m, t, n) == Forwards(m, t, n)

\* a device; a publication that the rules reject is a Disconnect
DevicePublish(c, m, t) ==
    /\ Idle(c)
    /\ MayPublish(sess[c].auth, conf.acl, t)
    /\ Forwards(m, t, sess[c].node)

\* message_mgr.store
Store(m) ==
    /\ msg[m].pc = "store"
    /\ msg' = [msg EXCEPT ![m].pc = "done"]
    /\ missed' = missed \cup
          {<<c, m, "unstored">> : c \in {c \in Clients : \E p \in passed[c] :
              p[2] = msg[m].node /\ StoreMatches(msg[m].topic, p[1])}}
    /\ UNCHANGED <<conf, account, linkVars, load, gets, routeVars, marks, wire, asks, changes, faults,
                   sent, logins, wanted, since, refused, steady, passed>>

\* ForwardsTo on the other node
Arrive(w) ==
    /\ w \in wire
    /\ wire' = wire \ {w}
    /\ sent' = [sent EXCEPT ![w[2]] = @ \cup (IF Reachable(w[2], w[3]) THEN {w[1]} ELSE {})]
    \* history: the session has left the node the message was forwarded to
    /\ missed' = missed \cup
          (IF sess[w[2]] = None \/ sess[w[2]].node # w[3] THEN {<<w[2], w[1], "moved">>} ELSE {})
    /\ UNCHANGED <<conf, account, linkVars, load, gets, routeVars, msg, marks, asks, changes, faults,
                   logins, wanted, since, refused, steady, passed>>

LoseForward(w) ==
    /\ w \in wire /\ faults < conf.maxFaults
    /\ faults' = faults + 1
    /\ wire' = wire \ {w}
    /\ missed' = missed \cup {<<w[2], w[1], "lost">>}
    /\ UNCHANGED <<conf, account, linkVars, load, gets, routeVars, msg, marks, asks, changes,
                   sent, logins, wanted, since, refused, steady, passed>>

-----------------------------------------------------------------------------
Init ==
    /\ conf \in Scenarios
    /\ account = [c \in Clients |-> conf.first]
    /\ stage = [c \in Clients |-> "down"]
    /\ hello = [c \in Clients |-> NoHello]
    /\ sess = [c \in Clients |-> None]
    /\ inbox = [c \in Clients |-> <<>>]
    /\ work = [c \in Clients |-> NoWork]
    /\ load = [c \in Clients |-> None]
    /\ gets = {}
    /\ rlog = <<>>
    /\ applied = [n \in Nodes |-> 0]
    /\ removing = {}
    /\ msg = [m \in Messages |-> NotPublished]
    /\ marks = {}
    /\ wire = {}
    /\ asks = 0 /\ changes = 0 /\ faults = 0
    /\ sent = [c \in Clients |-> {}]
    /\ logins = [c \in Clients |-> {}]
    /\ wanted = [c \in Clients |-> {}]
    /\ since = [c \in Clients |-> [f \in Filters |-> 0]]
    /\ refused = [c \in Clients |-> {}]
    /\ steady = [c \in Clients |-> TRUE]
    /\ passed = [c \in Clients |-> {}]
    /\ missed = {}

ClientNext(c) ==
    \/ DeleteAccount(c) \/ Kick(c) \/ SetSession(c) \/ AutoSubscribe(c) \/ Disconnect(c)
    \/ TakeMessage(c) \/ LoadLocal(c) \/ LoadEnd(c)
    \/ \E rec \in Records : CreateAccount(c, rec)
    \/ \E n \in Nodes, clean \in BOOLEAN : Authenticate(c, n, clean)
    \/ \E f \in Requests : Ask(c, f)
    \/ \E f \in Filters : Unsubscribe(c, f) \/ StartFilter(c, f)
    \/ \E m \in Messages, t \in Topics : DevicePublish(c, m, t)

Next ==
    \/ \E c \in Clients : ClientNext(c)
    \/ \E e \in removing : Propose(e)
    \/ \E g \in gets : PeerGet(g) \/ Timeout(g)
    \/ \E m \in Messages : Store(m) \/ \E t \in Topics, n \in Nodes : Publish(m, t, n)
    \/ \E w \in wire : Arrive(w) \/ LoseForward(w)

Spec == Init /\ [][Next]_vars

-----------------------------------------------------------------------------
(* Properties. *)

\* Through whichever path a message reaches a device (live, loaded from a store,
\* by a requested, automatic or transferred subscription), its topic belongs to an
\* account the device was once admitted with: second level the userid, or a prefix open
\* to it.  Any login of the device will do, not only the latest: a subscription that a
\* new session takes over from the previous one is not checked against the account as
\* it is now (session.rs transfer_session_state), so a device whose account changed
\* keeps what the earlier account was granted.
DeliveredAuthorised ==
    conf.auth /\ conf.acl =>
        \A c \in Clients : \A m \in sent[c] :
            \E rec \in logins[c] : Belongs(msg[m].topic, rec)

\* A filter of the automatic subscription is refused only when the account changed
\* between the read of the login (api.rs) and the second read (fanout.rs).
AutoGranted == \A c \in Clients : refused[c] # {} => ~ steady[c]

\* get marks a message before it is sent; every marked message is handed to the session,
\* or is about to be, or is one of those of a load that failed: returned by another node
\* to a load that one answer did not reach in time, or by a node whose answer came late.
MarkedIsSent ==
    \A p \in marks :
        \/ p[2] \in sent[p[1]]
        \/ load[p[1]] # None /\ p[2] \in load[p[1]].got
        \/ <<p[1], p[2], "failed">> \in missed

\* Every subscription of a session is routed to its node at the end of the log, however
\* the spawned Removes of this and of earlier sessions of the client are proposed in
\* between; the exception is a subscription that an UNSUBSCRIBE of the same session, sent
\* before it and proposed after it, has undone.
SubscribedIsRouted ==
    \A c \in Clients : sess[c] # None =>
        \A f \in sess[c].subs :
            Routes(Len(rlog), c, f) = {sess[c].node} \/ Overtaken(Len(rlog), c, f)

\* nothing is on its way
Settled(c) ==
    /\ stage[c] \in {"up", "down"}
    /\ inbox[c] = <<>> /\ work[c] = NoWork /\ load[c] = None
    /\ gets = {} /\ removing = {} /\ wire = {}

Missed(c, m, why) == <<c, m, why>> \in missed

\* A message reaches every subscriber, live or from a store; it is missed only when both
\* paths failed.  The live path fails when the session had no subscription for the topic
\* that the publishing node could know of (unrouted), when the late Remove of an
\* UNSUBSCRIBE had undone each that it had (overtaken), when the session was gone from the
\* node the message was forwarded to (moved), or when the forward was lost.  The stored
\* path fails when the message was stored after the load had passed its node (unstored), or
\* was one of those of a load with an answer that did not come in time (failed).
\* Subscriptions that a connection was to take over from the previous session, and had
\* not when it ended, are not counted: they are lost.
NoGap ==
    \A c \in Clients, m \in Messages :
        /\ Settled(c) /\ msg[m].pc = "done"
        /\ \E f \in wanted[c] : RouteMatches(msg[m].topic, f)
        => \/ m \in sent[c]
           \/ /\ \E why \in {"unrouted", "overtaken", "moved", "lost"} : Missed(c, m, why)
              /\ \E why \in {"unstored", "failed"} : Missed(c, m, why)
=============================================================================
