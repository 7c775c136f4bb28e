--------------------------- MODULE UserDirectory ---------------------------
(***************************************************************************)
(* User accounts of the cluster: the REST handlers, the login hook, the    *)
(* replication between nodes (src/src/api.rs) and the redb tables under    *)
(* them (src/src/db.rs).                                                   *)
(*                                                                         *)
(* Every node keeps its own table of users and of fast verifiers and two   *)
(* caches with a time to live.  A request is a task that touches shared    *)
(* state in separate steps; between two of them any other task may run.    *)
(* Creations and deletions are posted to every peer, once.  A node that    *)
(* starts copies the users of the first peer that answers.                 *)
(*                                                                         *)
(* A step is one redb transaction, one cache access under its lock, or one *)
(* message.  Requests are well formed: create_user answers any other with  *)
(* 400 before it touches anything.                                         *)
(***************************************************************************)
EXTENDS Naturals, FiniteSets

CONSTANTS
    Nodes,
    Usernames,
    Passwords,
    Logins,            \* passwords that clients present: some of Passwords
    Profiles,          \* what else a record holds: userid, superuser, admin
    Requests,          \* bound: requests that are made, each identified by a member
    None,
    Pepper,            \* whether a pepper is configured
    Ttl,               \* AUTH_CACHE_TTL_SECS in ticks, 0 = no caching
    HashConcurrency,   \* permits of auth_sem
    Budgets            \* bounds on failed transactions, dropped handlers and lost messages,
                       \* on crashes, and on logins; each is explored

ASSUME DirectoryAssumption ==
    /\ Logins \subseteq Passwords
    /\ Pepper \in BOOLEAN
    /\ Ttl \in Nat
    /\ Budgets \subseteq [faults : Nat, crashes : Nat, logins : Nat]
    /\ HashConcurrency \in Nat \ {0}
    /\ None \notin Nodes \cup Usernames \cup Passwords
    /\ None \notin [pw : Passwords, profile : Profiles]
    /\ None \notin [rec : [pw : Passwords, profile : Profiles], left : Nat]

VARIABLES
    up,          \* running nodes
    users,       \* USERS_TABLE of each node
    verifiers,   \* VERIFIERS_TABLE of each node: the password a verifier stands for
    userCache,   \* UserCache of each node
    authCache,   \* AuthCache of each node: ticks left of each (username, password)
    req,         \* the requests
    catchUp,     \* the catch_up task of each node
    budget,      \* what is left of the bounds
    \* what follows only records history; no action reads it
    raced,       \* [n] users whose row changed on n while a login or creation was under way there,
                 \* or who logged in from a cache that was still to be purged, or never was
    unpurged,    \* [n] users whose row changed on n and left copies in the caches: catch_up does not
                 \* purge, and a handler may be dropped before it does
    kept,        \* [n] users whose row was replaced on n by an upsert that left the verifier of
                 \* another password
    conflict,    \* users changed while an earlier change was still on its way
    missed,      \* [n] users of which n missed a change
    fresh,       \* [n] users whose last change is in the snapshot that n is about to apply
    setBack,     \* [n] users whose last change a snapshot without it has undone on n
    closed,      \* users deleted with a 204 and not created again
    late         \* logins that began when their user was in closed

vars == <<up, users, verifiers, userCache, authCache, req, catchUp, budget,
          raced, unpurged, kept, conflict, missed, fresh, setBack, closed, late>>
cacheHist == <<raced, unpurged, kept>>
tableHist == <<conflict, missed, fresh, setBack>>
histVars == <<cacheHist, tableHist, closed, late>>

-----------------------------------------------------------------------------
(* Data. *)

\* password_hash is the password: a hash verifies the password it was made from only
UserRecord == [pw : Passwords, profile : Profiles]

Entry == [rec : UserRecord, left : 1 .. Ttl] \cup {None}

Kinds == {"none", "create", "delete", "connect"}

PCs == {"idle", "permit", "insert", "verifier", "fanout",
        "delete", "purgeAuth", "purgeUser",
        "lookup", "read", "remember", "authCache", "fast", "fastInsert", "hashWait", "hash", "keep",
        "done"}

Answers == {"none", "created", "conflict", "deleted", "absent", "allow", "deny", "error", "dropped"}

\* the POST to one peer, and its handler there: cut means applied and then dropped
Stages == {"none", "sent", "applied", "purged", "done", "lost", "cut"}

Request == [kind : Kinds, node : Nodes \cup {None}, user : Usernames \cup {None},
            pw : Passwords \cup {None}, rec : UserRecord \cup {None}, pc : PCs,
            answer : Answers, wait : SUBSET Nodes, repl : [Nodes -> Stages]]

NoRequest == [kind |-> "none", node |-> None, user |-> None, pw |-> None, rec |-> None,
              pc |-> "idle", answer |-> "none", wait |-> {}, repl |-> [n \in Nodes |-> "none"]]

Idle == [pc |-> "idle", snap |-> [u \in Usernames |-> None]]

Peers(n) == Nodes \ {n}

AuthKey(u, p) == <<u, p>>

-----------------------------------------------------------------------------
(* The stores.  Definitions named Bug... are seeded faults, put in place of the *)
(* definition after them to show that a property notices.                       *)

BugKeepsVerifier(n, u) ==
    /\ users' = [users EXCEPT ![n][u] = None]
    /\ UNCHANGED verifiers

\* delete_user of RedbStore: both tables, one transaction
DbDelete(n, u) ==
    /\ users' = [users EXCEPT ![n][u] = None]
    /\ verifiers' = [verifiers EXCEPT ![n][u] = None]

\* insert_user (after its check) and upsert_user: the verifier stays
DbPut(n, u, rec) ==
    /\ users' = [users EXCEPT ![n][u] = rec]
    /\ UNCHANGED verifiers

BugNoCommit(n, snap) == UNCHANGED <<users, verifiers>>

\* upsert_many: adds and overwrites, deletes nothing
DbPutAll(n, snap) ==
    /\ users' = [users EXCEPT ![n] = [u \in Usernames |-> IF snap[u] # None THEN snap[u] ELSE @[u]]]
    /\ UNCHANGED verifiers

\* list_users: the whole table in one transaction
DbList(n) == users[n]

SetVerifier(n, u, p) == verifiers' = [verifiers EXCEPT ![n][u] = p]

\* verify_password of the record's hash, verify_fast of the stored verifier
VerifyPassword(rec, p) == rec.pw = p

VerifyFast(n, u, p) == verifiers[n][u] = p

BugPurgesNothing(n) == UNCHANGED authCache

\* AuthCache::purge_user clears every entry
PurgeAuthCache(n) == authCache' = [authCache EXCEPT ![n] = [k \in Usernames \X Passwords |-> 0]]

PurgeUserCache(n, u) == userCache' = [userCache EXCEPT ![n][u] = None]

BugProlongs(n, u, p) == authCache' = [authCache EXCEPT ![n][AuthKey(u, p)] = @ + Ttl]

AuthInsert(n, u, p) == authCache' = [authCache EXCEPT ![n][AuthKey(u, p)] = Ttl]

UserInsert(n, u, rec) ==
    userCache' = [userCache EXCEPT ![n][u] = IF Ttl = 0 THEN None ELSE [rec |-> rec, left |-> Ttl]]

-----------------------------------------------------------------------------
(* Requests. *)

Current(r, pc) == req[r].pc = pc /\ req[r].node \in up

Go(r, pc) == req' = [req EXCEPT ![r].pc = pc]

Finish(r, answer) == req' = [req EXCEPT ![r].pc = "done", ![r].answer = answer]

\* create_user holds its permit until it answers, a login until its verifier is stored
HoldsPermit(q) ==
    \/ q.pc \in {"insert", "verifier", "hash", "keep"}
    \/ q.kind = "create" /\ q.pc = "fanout"

PermitFree(n) ==
    Cardinality({r \in Requests : req[r].node = n /\ HoldsPermit(req[r])}) < HashConcurrency

\* fanout: one POST to every peer at once
Fanned(q) == [q EXCEPT !.pc = "fanout", !.wait = Peers(q.node),
                       !.repl = [n \in Nodes |-> IF n \in Peers(q.node) THEN "sent" ELSE "none"]]

\* a login of u on n that has read a record, or a creation that has not stored its verifier
Underway(n, u) ==
    \E r \in Requests :
        /\ req[r].node = n /\ req[r].user = u
        /\ req[r].pc \in {"verifier", "remember", "authCache", "fast", "fastInsert", "hashWait",
                          "hash", "keep"}

\* a row of u changed on n and its cached copies are not purged yet
PurgePending(n, u) ==
    \E r \in Requests :
        /\ req[r].user = u
        /\ \/ req[r].node = n /\ req[r].pc \in {"purgeAuth", "purgeUser"}
           \/ req[r].repl[n] \in {"applied", "purged"}

\* the change is in the table of q's node and no POST was sent
Committed(q) == q.pc \in {"verifier", "purgeAuth", "purgeUser"}

\* a change of u has not reached every node
Pending(u) ==
    \E r \in Requests :
        /\ req[r].user = u
        /\ Committed(req[r]) \/ \E n \in Nodes : req[r].repl[n] = "sent"

\* a change of u has not reached n
Awaited(n, u) ==
    \E r \in Requests :
        /\ req[r].user = u
        /\ req[r].repl[n] = "sent" \/ (Committed(req[r]) /\ n # req[r].node)

\* a cache of n holds something of u
Cached(n, u) == userCache[n][u] # None \/ \E p \in Passwords : authCache[n][AuthKey(u, p)] > 0

Race(n, U) == raced' = [raced EXCEPT ![n] = @ \cup U]

\* the caches of n are not purged of U
Unpurge(n, U) == unpurged' = [unpurged EXCEPT ![n] = @ \cup {u \in U : Cached(n, u)}]

\* n applies the last change of u
Applies(n, u) ==
    /\ missed' = [missed EXCEPT ![n] = @ \ {u}]
    /\ setBack' = [setBack EXCEPT ![n] = @ \ {u}]

\* history of a change of u that n makes on behalf of a client
Originates(n, u) ==
    /\ Race(n, {v \in {u} : Underway(n, v)})
    /\ conflict' = conflict \cup {v \in {u} : Pending(v)}
    /\ Applies(n, u)
    /\ fresh' = [m \in Nodes |-> fresh[m] \ {u}]
    /\ UNCHANGED <<unpurged, kept, closed, late>>

Begin(r, kind, n, u, p, rec, pc) ==
    /\ req[r].kind = "none"
    /\ n \in up
    /\ req' = [req EXCEPT ![r] = [NoRequest EXCEPT !.kind = kind, !.node = n, !.user = u, !.pw = p,
                                                   !.rec = rec, !.pc = pc]]
    /\ UNCHANGED <<up, users, verifiers, userCache, authCache, catchUp, cacheHist, tableHist>>

-----------------------------------------------------------------------------
(* create_user. *)

BeginCreate(r, n, u, rec) ==
    /\ Begin(r, "create", n, u, rec.pw, rec, "permit")
    /\ UNCHANGED budget
    /\ closed' = closed \ {u}
    /\ late' = {s \in late : req[s].user # u}

\* the permit is taken before the password is hashed
CreatePermit(r) ==
    /\ Current(r, "permit")
    /\ PermitFree(req[r].node)
    /\ Go(r, "insert")
    /\ UNCHANGED <<up, users, verifiers, userCache, authCache, catchUp, budget, histVars>>

\* insert_user
CreateInsert(r) ==
    LET n == req[r].node
        u == req[r].user
    IN  /\ Current(r, "insert")
        /\ \/ /\ users[n][u] # None
              /\ Finish(r, "conflict")
              /\ UNCHANGED <<users, verifiers, histVars>>
           \/ /\ users[n][u] = None
              /\ DbPut(n, u, req[r].rec)
              /\ req' = [req EXCEPT ![r] = IF Pepper THEN [@ EXCEPT !.pc = "verifier"] ELSE Fanned(@)]
              /\ Originates(n, u)
        /\ UNCHANGED <<up, userCache, authCache, catchUp, budget>>

\* set_verifier, then fanout
CreateVerifier(r) ==
    /\ Current(r, "verifier")
    /\ SetVerifier(req[r].node, req[r].user, req[r].pw)
    /\ req' = [req EXCEPT ![r] = Fanned(@)]
    /\ UNCHANGED <<up, users, userCache, authCache, catchUp, budget, histVars>>

-----------------------------------------------------------------------------
(* delete_user. *)

BeginDelete(r, n, u) ==
    /\ Begin(r, "delete", n, u, None, None, "delete")
    /\ UNCHANGED budget
    /\ UNCHANGED <<closed, late>>

DeleteCommit(r) ==
    LET n == req[r].node
        u == req[r].user
    IN  /\ Current(r, "delete")
        /\ DbDelete(n, u)
        /\ \/ /\ users[n][u] = None
              /\ Finish(r, "absent")
              /\ UNCHANGED histVars
           \/ /\ users[n][u] # None
              /\ Go(r, "purgeAuth")
              /\ Originates(n, u)
        /\ UNCHANGED <<up, userCache, authCache, catchUp, budget>>

DeletePurgeAuth(r) ==
    /\ Current(r, "purgeAuth")
    /\ PurgeAuthCache(req[r].node)
    /\ Go(r, "purgeUser")
    /\ UNCHANGED <<up, users, verifiers, userCache, catchUp, budget, histVars>>

\* users.purge, then fanout
DeletePurgeUser(r) ==
    /\ Current(r, "purgeUser")
    /\ PurgeUserCache(req[r].node, req[r].user)
    /\ req' = [req EXCEPT ![r] = Fanned(@)]
    /\ UNCHANGED <<up, users, verifiers, authCache, catchUp, budget, histVars>>

-----------------------------------------------------------------------------
(* The end of fanout. *)

BugWaitsForPeer(r, p) ==
    /\ Current(r, "fanout")
    /\ p \in req[r].wait
    /\ req[r].repl[p] = "done"
    /\ req' = [req EXCEPT ![r].wait = @ \ {p}]
    /\ UNCHANGED <<up, users, verifiers, userCache, authCache, catchUp, budget, histVars>>

\* the POST to p was answered, failed, or timed out while it may still be under way
Settle(r, p) ==
    /\ Current(r, "fanout")
    /\ p \in req[r].wait
    /\ req' = [req EXCEPT ![r].wait = @ \ {p}]
    /\ UNCHANGED <<up, users, verifiers, userCache, authCache, catchUp, budget, histVars>>

\* 201 or 204, whatever became of the POSTs
Respond(r) ==
    LET u == req[r].user
    IN  /\ Current(r, "fanout")
        /\ req[r].wait = {}
        /\ Finish(r, IF req[r].kind = "create" THEN "created" ELSE "deleted")
        /\ closed' = closed \cup {v \in {u} :
              /\ req[r].kind = "delete"
              /\ \A s \in Requests : req[s].kind = "create" /\ req[s].user = v => req[s].pc = "done"}
        /\ UNCHANGED <<up, users, verifiers, userCache, authCache, catchUp, budget, cacheHist, tableHist, late>>

-----------------------------------------------------------------------------
(* authenticate. *)

BeginConnect(r, n, u, p) ==
    /\ budget.logins > 0
    /\ budget' = [budget EXCEPT !.logins = @ - 1]
    /\ Begin(r, "connect", n, u, p, None, "lookup")
    /\ late' = late \cup {s \in {r} : u \in closed}
    /\ UNCHANGED closed

\* lookup_user: the cache first
LookupCached(r) ==
    LET n == req[r].node
        u == req[r].user
    IN  /\ Current(r, "lookup")
        /\ \/ /\ userCache[n][u] # None
              /\ req' = [req EXCEPT ![r].pc = "authCache", ![r].rec = userCache[n][u].rec]
              /\ Race(n, {v \in {u} : PurgePending(n, v) \/ v \in unpurged[n]})
              /\ UNCHANGED <<unpurged, kept, tableHist, closed, late>>
           \/ /\ userCache[n][u] = None
              /\ Go(r, "read")
              /\ UNCHANGED histVars
        /\ UNCHANGED <<up, users, verifiers, userCache, authCache, catchUp, budget>>

\* then the table
LookupRead(r) ==
    LET rec == users[req[r].node][req[r].user]
    IN  /\ Current(r, "read")
        /\ \/ rec = None /\ Finish(r, "deny")
           \/ rec # None /\ req' = [req EXCEPT ![r].pc = "remember", ![r].rec = rec]
        /\ UNCHANGED <<up, users, verifiers, userCache, authCache, catchUp, budget, histVars>>

\* and the record that was read goes into the cache, whatever happened since
LookupRemember(r) ==
    /\ Current(r, "remember")
    /\ UserInsert(req[r].node, req[r].user, req[r].rec)
    /\ Go(r, "authCache")
    /\ UNCHANGED <<up, users, verifiers, authCache, catchUp, budget, histVars>>

ConnectCached(r) ==
    /\ Current(r, "authCache")
    /\ \/ /\ authCache[req[r].node][AuthKey(req[r].user, req[r].pw)] > 0
          /\ Finish(r, "allow")
          /\ Race(req[r].node, {v \in {req[r].user} : PurgePending(req[r].node, v)})
          /\ UNCHANGED <<unpurged, kept, tableHist, closed, late>>
       \/ /\ authCache[req[r].node][AuthKey(req[r].user, req[r].pw)] = 0
          /\ Go(r, IF Pepper THEN "fast" ELSE "hashWait")
          /\ UNCHANGED histVars
    /\ UNCHANGED <<up, users, verifiers, userCache, authCache, catchUp, budget>>

\* get_verifier and verify_fast
ConnectFast(r) ==
    /\ Current(r, "fast")
    /\ Go(r, IF VerifyFast(req[r].node, req[r].user, req[r].pw) THEN "fastInsert" ELSE "hashWait")
    /\ UNCHANGED <<up, users, verifiers, userCache, authCache, catchUp, budget, histVars>>

ConnectFastInsert(r) ==
    /\ Current(r, "fastInsert")
    /\ AuthInsert(req[r].node, req[r].user, req[r].pw)
    /\ Finish(r, "allow")
    /\ UNCHANGED <<up, users, verifiers, userCache, catchUp, budget, histVars>>

ConnectPermit(r) ==
    /\ Current(r, "hashWait")
    /\ PermitFree(req[r].node)
    /\ Go(r, "hash")
    /\ UNCHANGED <<up, users, verifiers, userCache, authCache, catchUp, budget, histVars>>

\* verify_password against the record that was looked up
ConnectHash(r) ==
    /\ Current(r, "hash")
    /\ \/ /\ VerifyPassword(req[r].rec, req[r].pw)
          /\ AuthInsert(req[r].node, req[r].user, req[r].pw)
          /\ IF Pepper THEN Go(r, "keep") ELSE Finish(r, "allow")
       \/ /\ ~ VerifyPassword(req[r].rec, req[r].pw)
          /\ Finish(r, "deny")
          /\ UNCHANGED authCache
    /\ UNCHANGED <<up, users, verifiers, userCache, catchUp, budget, histVars>>

\* set_verifier
ConnectKeep(r) ==
    /\ Current(r, "keep")
    /\ SetVerifier(req[r].node, req[r].user, req[r].pw)
    /\ Finish(r, "allow")
    /\ UNCHANGED <<up, users, userCache, authCache, catchUp, budget, histVars>>

-----------------------------------------------------------------------------
(* replicate, on peer p of the node that serves request r. *)

\* history of the change of r on p
ReplicaHistory(r, p) ==
    LET u == req[r].user
    IN  /\ Race(p, {v \in {u} : Underway(p, v)})
        /\ kept' = [kept EXCEPT ![p] = @ \cup {v \in {u} :
               req[r].kind = "create" /\ verifiers[p][v] \notin {None, req[r].rec.pw}}]
        /\ Applies(p, u)
        /\ UNCHANGED <<unpurged, conflict, fresh, closed, late>>

BugReplicaKeepsCache(r, p) ==
    LET u == req[r].user
    IN  /\ p \in up
        /\ req[r].repl[p] = "sent"
        /\ \/ req[r].kind = "create" /\ DbPut(p, u, req[r].rec)
           \/ req[r].kind = "delete" /\ DbDelete(p, u)
        /\ req' = [req EXCEPT ![r].repl[p] = "done"]
        /\ ReplicaHistory(r, p)
        /\ UNCHANGED <<up, userCache, authCache, catchUp, budget>>

BugReplicaInserts(r, p) ==
    LET u == req[r].user
    IN  /\ p \in up
        /\ req[r].repl[p] = "sent"
        /\ \/ /\ req[r].kind = "create"
              /\ DbPut(p, u, IF users[p][u] = None THEN req[r].rec ELSE users[p][u])
           \/ req[r].kind = "delete" /\ DbDelete(p, u)
        /\ req' = [req EXCEPT ![r].repl[p] = "applied"]
        /\ ReplicaHistory(r, p)
        /\ UNCHANGED <<up, userCache, authCache, catchUp, budget>>

ReplicateCommit(r, p) ==
    LET u == req[r].user
    IN  /\ p \in up
        /\ req[r].repl[p] = "sent"
        /\ \/ req[r].kind = "create" /\ DbPut(p, u, req[r].rec)
           \/ req[r].kind = "delete" /\ DbDelete(p, u)
        /\ req' = [req EXCEPT ![r].repl[p] = "applied"]
        /\ ReplicaHistory(r, p)
        /\ UNCHANGED <<up, userCache, authCache, catchUp, budget>>

ReplicatePurgeAuth(r, p) ==
    /\ p \in up
    /\ req[r].repl[p] = "applied"
    /\ PurgeAuthCache(p)
    /\ req' = [req EXCEPT ![r].repl[p] = "purged"]
    /\ UNCHANGED <<up, users, verifiers, userCache, catchUp, budget, histVars>>

ReplicatePurgeUser(r, p) ==
    /\ p \in up
    /\ req[r].repl[p] = "purged"
    /\ PurgeUserCache(p, req[r].user)
    /\ req' = [req EXCEPT ![r].repl[p] = "done"]
    /\ UNCHANGED <<up, users, verifiers, authCache, catchUp, budget, histVars>>

-----------------------------------------------------------------------------
(* catch_up, when a node starts. *)

\* users_full of a peer that answers
CatchUpFetch(n, p) ==
    /\ n \in up /\ p \in up \cap Peers(n)
    /\ catchUp[n].pc = "fetch"
    /\ catchUp' = [catchUp EXCEPT ![n] = [pc |-> "apply", snap |-> DbList(p)]]
    /\ fresh' = [fresh EXCEPT ![n] =
                   {u \in Usernames \ (missed[p] \cup setBack[p]) : ~ Awaited(p, u)}]
    /\ UNCHANGED <<up, users, verifiers, userCache, authCache, req, budget,
                   cacheHist, conflict, missed, setBack, closed, late>>

\* upsert_many of the snapshot; the caches are not purged
CatchUpApply(n) ==
    /\ n \in up
    /\ catchUp[n].pc = "apply"
    /\ DbPutAll(n, catchUp[n].snap)
    /\ catchUp' = [catchUp EXCEPT ![n] = Idle]
    /\ LET snap    == catchUp[n].snap
           changed == {u \in Usernames : snap[u] \notin {None, users[n][u]}}
           right   == {u \in fresh[n] : snap[u] # None}
       IN  /\ Race(n, {u \in changed : Underway(n, u)})
           /\ Unpurge(n, changed)
           /\ kept' = [kept EXCEPT ![n] = @ \cup {u \in changed : verifiers[n][u] \notin {None, snap[u].pw}}]
           /\ missed' = [missed EXCEPT ![n] = @ \ right]
           /\ setBack' = [setBack EXCEPT ![n] = (@ \ right) \cup
                             {u \in changed \ (fresh[n] \cup missed[n]) : ~ Awaited(n, u)}]
    /\ fresh' = [fresh EXCEPT ![n] = {}]
    /\ UNCHANGED <<up, userCache, authCache, req, budget, conflict, closed, late>>

\* 30 rounds without an answer, or the snapshot could not be stored
CatchUpFail(n) ==
    /\ n \in up
    /\ catchUp[n].pc # "idle"
    /\ budget.faults > 0
    /\ budget' = [budget EXCEPT !.faults = @ - 1]
    /\ catchUp' = [catchUp EXCEPT ![n] = Idle]
    /\ UNCHANGED <<up, users, verifiers, userCache, authCache, req, histVars>>

-----------------------------------------------------------------------------
(* Faults. *)

\* what a handler does when its transaction fails
OnDbError(q) ==
    CASE q.pc \in {"insert", "delete"} -> [q EXCEPT !.pc = "done", !.answer = "error"]
      [] q.pc = "verifier"             -> Fanned(q)
      [] q.pc = "read"                 -> [q EXCEPT !.pc = "done", !.answer = "deny"]
      [] q.pc = "fast"                 -> [q EXCEPT !.pc = "hashWait"]
      [] q.pc = "keep"                 -> [q EXCEPT !.pc = "done", !.answer = "allow"]

DbError(r) ==
    /\ req[r].node \in up
    /\ req[r].pc \in {"insert", "delete", "verifier", "read", "fast", "keep"}
    /\ budget.faults > 0
    /\ budget' = [budget EXCEPT !.faults = @ - 1]
    /\ req' = [req EXCEPT ![r] = OnDbError(@)]
    /\ UNCHANGED <<up, users, verifiers, userCache, authCache, catchUp, histVars>>

\* the client of a REST request disconnects: its handler is dropped where it awaits, and
\* with it the tasks of the POSTs that did not go out yet
Abandon(r, unsent) ==
    LET q    == req[r]
        miss == IF Committed(q) THEN Peers(q.node) ELSE unsent
    IN  /\ q.node \in up
        /\ q.pc \in {"permit", "insert", "verifier", "delete", "purgeAuth", "fanout"}
        /\ \A p \in unsent : q.repl[p] = "sent"
        /\ budget.faults > 0
        /\ budget' = [budget EXCEPT !.faults = @ - 1]
        /\ req' = [req EXCEPT ![r].pc = "done", ![r].answer = "dropped",
                              ![r].repl = [p \in Nodes |-> IF p \in unsent THEN "lost" ELSE @[p]]]
        /\ Unpurge(q.node, {u \in {q.user} : q.pc = "purgeAuth"})
        /\ missed' = [n \in Nodes |-> IF n \in miss THEN missed[n] \cup {q.user} ELSE missed[n]]
        /\ UNCHANGED <<up, users, verifiers, userCache, authCache, catchUp,
                       raced, kept, conflict, fresh, setBack, closed, late>>

\* a POST is refused or lost, its transaction fails, or its handler is dropped
LoseReplicate(r, p) ==
    /\ req[r].repl[p] \in {"sent", "applied"}
    /\ \/ budget.faults > 0 /\ budget' = [budget EXCEPT !.faults = @ - 1]
       \/ p \notin up /\ UNCHANGED budget
    /\ req' = [req EXCEPT ![r].repl[p] = IF @ = "sent" THEN "lost" ELSE "cut"]
    /\ IF req[r].repl[p] = "sent"
       THEN missed' = [missed EXCEPT ![p] = @ \cup {req[r].user}] /\ UNCHANGED unpurged
       ELSE Unpurge(p, {req[r].user}) /\ UNCHANGED missed
    /\ UNCHANGED <<up, users, verifiers, userCache, authCache, catchUp,
                   raced, kept, conflict, fresh, setBack, closed, late>>

\* a node stops: its tables stay, its caches and its tasks are gone
Crash(n) ==
    /\ n \in up
    /\ budget.crashes > 0
    /\ budget' = [budget EXCEPT !.crashes = @ - 1]
    /\ up' = up \ {n}
    /\ userCache' = [userCache EXCEPT ![n] = [u \in Usernames |-> None]]
    /\ authCache' = [authCache EXCEPT ![n] = [k \in Usernames \X Passwords |-> 0]]
    /\ catchUp' = [catchUp EXCEPT ![n] = Idle]
    /\ req' = [r \in Requests |->
                 LET q == [req[r] EXCEPT !.repl[n] = CASE @ = "sent" -> "lost"
                                                       [] @ \in {"applied", "purged"} -> "done"
                                                       [] OTHER -> @]
                 IN  IF q.node = n /\ q.pc # "done" THEN [q EXCEPT !.pc = "done", !.answer = "dropped"]
                                                    ELSE q]
    /\ missed' = [m \in Nodes |->
                    IF m = n THEN missed[m] \cup {req[r].user : r \in {s \in Requests : req[s].repl[n] = "sent"}}
                    ELSE missed[m] \cup {req[r].user : r \in {s \in Requests : req[s].node = n /\ Committed(req[s])}}]
    /\ UNCHANGED <<users, verifiers, cacheHist, conflict, fresh, setBack, closed, late>>

Restart(n) ==
    /\ n \notin up
    /\ up' = up \cup {n}
    /\ catchUp' = [catchUp EXCEPT ![n].pc = IF Peers(n) = {} THEN "idle" ELSE "fetch"]
    /\ UNCHANGED <<users, verifiers, userCache, authCache, req, budget, histVars>>

\* time passes: an entry with no tick left is expired, whether or not sweep removed it
Tick ==
    /\ \E n \in Nodes : \/ \E u \in Usernames : userCache[n][u] # None
                        \/ \E k \in Usernames \X Passwords : authCache[n][k] > 0
    /\ userCache' = [n \in Nodes |-> [u \in Usernames |->
                        IF userCache[n][u] = None \/ userCache[n][u].left = 1 THEN None
                        ELSE [userCache[n][u] EXCEPT !.left = @ - 1]]]
    /\ authCache' = [n \in Nodes |-> [k \in Usernames \X Passwords |->
                        IF authCache[n][k] = 0 THEN 0 ELSE authCache[n][k] - 1]]
    /\ UNCHANGED <<up, users, verifiers, req, catchUp, budget, histVars>>

-----------------------------------------------------------------------------
(* The specification. *)

\* every node has started, with empty tables, and found nothing to catch up with
Init ==
    /\ up = Nodes
    /\ users = [n \in Nodes |-> [u \in Usernames |-> None]]
    /\ verifiers = [n \in Nodes |-> [u \in Usernames |-> None]]
    /\ userCache = [n \in Nodes |-> [u \in Usernames |-> None]]
    /\ authCache = [n \in Nodes |-> [k \in Usernames \X Passwords |-> 0]]
    /\ req = [r \in Requests |-> NoRequest]
    /\ catchUp = [n \in Nodes |-> Idle]
    /\ budget \in Budgets
    /\ raced = [n \in Nodes |-> {}]
    /\ unpurged = [n \in Nodes |-> {}]
    /\ kept = [n \in Nodes |-> {}]
    /\ conflict = {}
    /\ missed = [n \in Nodes |-> {}]
    /\ fresh = [n \in Nodes |-> {}]
    /\ setBack = [n \in Nodes |-> {}]
    /\ closed = {}
    /\ late = {}

Create(r) == CreatePermit(r) \/ CreateInsert(r) \/ CreateVerifier(r)

Delete(r) == DeleteCommit(r) \/ DeletePurgeAuth(r) \/ DeletePurgeUser(r)

Lookup(r) == LookupCached(r) \/ LookupRead(r) \/ LookupRemember(r)

Verify(r) ==
    ConnectCached(r) \/ ConnectFast(r) \/ ConnectFastInsert(r) \/ ConnectPermit(r) \/ ConnectHash(r)
    \/ ConnectKeep(r)

Replicate(r, p) == ReplicateCommit(r, p) \/ ReplicatePurgeAuth(r, p) \/ ReplicatePurgeUser(r, p)

Next ==
    \/ \E r \in Requests, n \in Nodes, u \in Usernames :
          \/ \E rec \in UserRecord : BeginCreate(r, n, u, rec)
          \/ BeginDelete(r, n, u)
          \/ \E p \in Logins : BeginConnect(r, n, u, p)
    \/ \E r \in Requests :
          \/ Create(r) \/ Delete(r) \/ Lookup(r) \/ Verify(r) \/ Respond(r)
          \/ DbError(r)
          \/ \E unsent \in SUBSET Nodes : Abandon(r, unsent)
          \/ \E p \in Nodes : Settle(r, p) \/ Replicate(r, p) \/ LoseReplicate(r, p)
    \/ \E n \in Nodes :
          \/ \E p \in Nodes : CatchUpFetch(n, p)
          \/ CatchUpApply(n) \/ CatchUpFail(n) \/ Crash(n) \/ Restart(n)
    \/ Tick

Spec == Init /\ [][Next]_vars

\* The runtime runs every task that can run, and a POST ends with an answer or after the
\* client's 5 second timeout.
Fairness ==
    \A r \in Requests :
        /\ WF_vars(Create(r) \/ Delete(r) \/ Lookup(r) \/ Verify(r) \/ Respond(r))
        /\ \A p \in Nodes : WF_vars(Settle(r, p))

FairSpec == Spec /\ Fairness
-----------------------------------------------------------------------------
(* Properties. *)

\* Every variable stays in its type; no cache entry outlives the time to live.
TypeOK ==
    /\ up \subseteq Nodes
    /\ users \in [Nodes -> [Usernames -> UserRecord \cup {None}]]
    /\ verifiers \in [Nodes -> [Usernames -> Passwords \cup {None}]]
    /\ userCache \in [Nodes -> [Usernames -> Entry]]
    /\ authCache \in [Nodes -> [Usernames \X Passwords -> 0 .. Ttl]]
    /\ req \in [Requests -> Request]
    /\ catchUp \in [Nodes -> [pc : {"idle", "fetch", "apply"}, snap : [Usernames -> UserRecord \cup {None}]]]
    /\ budget \in [faults : Nat, crashes : Nat, logins : Nat]
    /\ raced \in [Nodes -> SUBSET Usernames]
    /\ unpurged \in [Nodes -> SUBSET Usernames]
    /\ kept \in [Nodes -> SUBSET Usernames]
    /\ conflict \subseteq Usernames
    /\ missed \in [Nodes -> SUBSET Usernames]
    /\ fresh \in [Nodes -> SUBSET Usernames]
    /\ setBack \in [Nodes -> SUBSET Usernames]
    /\ closed \subseteq Usernames
    /\ late \subseteq Requests

\* What a node keeps beside a row agrees with it: a cached record is the row, a cached
\* or stored verification is for the row's password.  The caches may differ while a purge
\* is outstanding.  What differs for longer has one of three causes, each with its own
\* reach: a change that overlapped a login on that node (raced: anything); a change whose
\* purge was dropped, or that catch_up made, which purges nothing (unpurged: the caches,
\* not the verifier); an upsert, replicated or of catch_up, over a row with a verifier for
\* another password (kept: the verifier, and the verifications it lets into the cache).
CredentialsCoherent ==
    \A n \in Nodes : \A u \in Usernames \ raced[n] :
        /\ userCache[n][u] # None /\ u \notin unpurged[n] /\ ~ PurgePending(n, u) =>
               userCache[n][u].rec = users[n][u]
        /\ \A p \in Passwords :
              \/ authCache[n][AuthKey(u, p)] > 0 /\ u \notin unpurged[n] \cup kept[n] /\ ~ PurgePending(n, u)
              \/ verifiers[n][u] = p /\ u \notin kept[n]
              => users[n][u] # None /\ users[n][u].pw = p

\* A login is accepted only with the password of the record it was looked up under,
\* whichever of auth cache, verifier and hash decided it.  The causes that exempt a user
\* on a node are those of CredentialsCoherent: a change that overlapped a login there (a
\* login that a cache decides while its purge is outstanding is such an overlap), copies
\* left in the caches without a purge, and a verifier that an upsert left behind.
AcceptedMatches ==
    \A r \in Requests :
        LET n == req[r].node
        IN  req[r].answer = "allow" /\ req[r].user \notin raced[n] \cup unpurged[n] \cup kept[n] =>
                req[r].rec.pw = req[r].pw

\* Two nodes agree on a user once every POST about it was applied.  The exceptions: two
\* changes overlapped (conflict, on every node); a POST to one of the two was lost, or its
\* sender stopped before it sent it (missed); catch_up put a snapshot without the last
\* change over it (setBack, recorded when that happens: an older snapshot that finds the
\* change still to come, or no change, does no harm, and neither do late deliveries).
\* The last two end with the next change that the node applies.
SettledAgree ==
    \A u \in Usernames \ conflict : ~ Pending(u) =>
        \A m, n \in Nodes :
            u \notin missed[m] \cup missed[n] \cup setBack[m] \cup setBack[n] => users[m][u] = users[n][u]

\* Every request to a running node is answered, although create_user keeps its permit
\* while it waits for peers that may be down.
RequestsAnswered ==
    \A r \in Requests : req[r].kind # "none" ~> req[r].pc = "done"

\* A login that begins after the deletion of its user was answered with 204, and before
\* the user is created again, is rejected.
DeletedRejected == \A r \in late : req[r].answer # "allow"
=============================================================================
