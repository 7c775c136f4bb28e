# Verification of ciqadamq

TLA+ specifications, TLC runs and TLAPS proofs for the core of the ciqadamq MQTT
broker (`src/src/`). The models follow the code; line numbers are in the map of
`PROJECT.json`.

## 1. The system

ciqadamq wraps a vendored copy of the rmqtt broker. Its own code adds these parts.

| part | source | state | operations |
|---|---|---|---|
| message store | `msgstore.rs` | id counter, unbounded channel to a writer task, `MemState` behind a mutex (messages, eviction order, topic index, byte count, dirty and removed sets), redb table | `next_msg_id`, `store`, `get`, `evict`, `flush`, `open` |
| write-back | `main.rs`, `msgstore.rs` | what each flusher has drained and not committed | periodic flush, flush at shutdown, exit |
| user table | `db.rs` | tables of users and of fast verifiers | insert, upsert, delete, read, verifier |
| management API | `api.rs` | requests in progress, hashing semaphore | `create_user`, `delete_user`, `list_users`, `cluster_status` |
| login hook | `api.rs` | `AuthCache`, `UserCache`, both with a time to live | `authenticate`, `lookup_user` |
| user replication | `api.rs`, `main.rs` | POSTs on their way, the snapshot of a starting node | `fanout`, `replicate`, `users_full`, `catch_up` |
| API token | `api.rs`, `vault.rs`, `main.rs` | current and previous token, time of the last refresh | `require_token`, `refresh_token` |
| access rules, topics, auto-subscription | `api.rs`, `topic.rs`, `fanout.rs` | none of their own | `build_auth_info`, the ACL hooks, `topic_matches`, `subscribes` |
| broker and cluster | `src/vendor/` | sessions with their subscriptions, replicated routes, queues, raft | connect, kick, subscribe, publish, forward, `message_load` |
| load generators | `bin/perf.rs`, `bin/perf_resources.rs` | accounts, connections, publishing tasks, the count of deliveries | rounds, measurements, cleaning up |

How they interact: the broker calls `next_msg_id` before it forwards a publish and `store`
after it, and `get` when a client subscribes, on every node of the cluster. The login hook
reads the user table through the caches. REST handlers change the table, purge the caches and
post the change to the other nodes, whose handlers check the API token and do the same. A login
gives its session the access rules made from the account; when the session starts, the
auto-subscription reads the account again. The load generators are clients of the API and of the
broker.

What is hard here:

- *Shared state used across an unlock or an await.* `flush` drains under the mutex and commits
  later; `lookup_user` reads a row, awaits, and fills a cache; `create_user` writes the user and
  its verifier in two transactions; `refresh_token` applies an answer that may be old.
- *Failure.* A transaction can fail, a process can be killed between two steps, a handler is
  dropped when its client disconnects, a POST to a peer is sent once.
- *Order.* Publishes are stored in another order than their ids. Changes of one user made
  through two nodes cross. A batch drained first may be committed last. A message is routed, then
  stored; a subscription is routed, then loads, on nodes that apply the routes at their own pace.
- *Limits.* Message and byte caps, one hashing permit held during calls to other nodes, one
  vault call in five seconds.

What makes the parts correct: the indexes of the store agree, the caps hold and nothing is
dropped without a cause, ids are unique over restarts, no update or deletion is lost between
memory and disk, no client is handed a message twice; what a node caches about a user agrees
with the row, the nodes' tables agree, every request is answered; the vault's secret is
accepted; a device receives what belongs to its account, all of it, and nothing else; the load
generators end and report what happened. `PROJECT.json` lists the hazards line by line with the property that watches each.

## 2. Modules

| module | models | extends |
|---|---|---|
| `MsgStore` | message store, write-back, shutdown, crash, recovery | community `FiniteSetsExt` |
| `SumLemmas` | lemmas about sums over finite functions, for the byte count | proof library |
| `MsgStoreProofs` | theorems about `MsgStore` | `MsgStore`, `SumLemmas` |
| `WriteBackProofs` | theorems about the write-back, and the refinement of `MessageLog` | `MsgStoreProofs`, `MsgStoreLog` |
| `MessageLog` | what this store gives the broker through the trait `MessageManager`, less than the trait asks | |
| `MsgStoreLog` | the refinement mapping from `MsgStore` to `MessageLog` | `MsgStore` |
| `UserDirectory` | user table, REST handlers, login hook, caches, replication, catch-up | |
| `UserDirectoryProofs` | theorems about `UserDirectory` | `UserDirectory` |
| `ApiToken` | bearer token and its refresh from the vault | |
| `ApiTokenProofs` | theorems about `ApiToken` | `ApiToken` |
| `TopicFilter` | topics, filters, and the three matchers: store, router, access rules | |
| `Acl` | access rules, their checks, the filters of the auto-subscription | `TopicFilter` |
| `AclProofs` | theorems about `TopicFilter` and `Acl` | `Acl` |
| `Delivery` | login, sessions, routes, subscriptions, forward, store and load over several nodes | `Acl` |
| `DeliveryProofs` | theorems about `Delivery` | `Delivery`, `AclProofs` |
| `LoadGen` | the two load generators, with the broker as their environment | community `FiniteSetsExt`, `Functions` |
| `LoadGenProofs` | theorems about `LoadGen` | `LoadGen`, `SumLemmas` |
| `MCMsgStore`, `MCUserDirectory`, `MCApiToken`, `MCDelivery`, `MCLoadGen` | finite instances for TLC | |

**MsgStore.** One process and the table it leaves behind. Each critical section of the mutex is
one action: `WriterRecv` (insert and evict), `Get` (evict, select, mark), `FlushBegin` (evict
and drain). `FlushCommit` and `FlushFail` are the blocking task. `evict` is a loop in the code;
`Evict` pops the shortest prefix of `order` at which the loop's exit condition holds. The
message id `(node_id << 48) | counter` is the pair, which orders and compares alike. A topic
filter is the set of topics it selects, a payload its size. `phase` follows `main`: run, stopping
(the other tasks keep running while `main` flushes), stopped, killed. A flush of the periodic
task whose blocking part has not begun when `main` returns is dropped. `Open` recovers counter,
order, indexes and byte count from the table. A few variables (`handed`, `rehanded`, `lost`,
`skipped`, `due`) only record history for the properties.

**MessageLog.** The abstract store: messages that are available, who was served, what is saved.
In it `get` hands a client exactly the available messages that `get` has not handed it before,
a message is never altered and goes early only from a bounded store, a saved copy is deleted
only after its message is gone, and a restart brings back saved messages with marks of real
deliveries. This is less than the trait asks: `store` is told which clients have been served already
(`message.rs:67`), the store ignores the list (`msgstore.rs:273`), and so `Accept` has a message
served to nobody. An abstract log that kept the list would not be refined. `MsgStoreLog` maps the memory of a running process to `avail`, `handed` to `served`,
the table to `saved`, and every copy anywhere (memory, drained batches, table) to `book`.

**UserDirectory.** A request is a record with a program counter; a step is one transaction, one
cache access under its lock, or one message. A password hash and a fast verifier are the
password they were made from, an auth cache key the pair it hashes. Cache entries carry the
ticks they have left. The POST to each peer has its own stage: sent, applied, purged, done, or
lost, or cut off between the commit and the purge. `Settle` lets the sender stop waiting at any
time, because the timeout may strike before or after the peer acted. `Abandon` drops a handler
where it awaits, `Crash` stops a node, `Restart` starts its `catch_up`. The history variables
record where the code gives no guarantee, each cause by itself:

- about what a node keeps beside a row: `raced` (the row changed there while a login or a creation
  of the user was under way, or a login was decided by a cache whose purge was outstanding or never
  came), `unpurged` (the row changed and copies stayed in the caches: `catch_up` purges nothing, and
  the handler that was to purge was dropped or cut off), `kept` (an upsert, replicated or of
  `catch_up`, replaced the row and left the verifier of another password);
- about the tables of the nodes: `conflict` (a user was changed while an earlier change of it was on
  its way), `missed` (a node never got a change), `setBack` (`catch_up` put a snapshot without the
  last change over it; `fresh` is the set of users whose last change the snapshot has).

**ApiToken.** One node. Secrets are numbered in the order the vault gets them. The five seconds
of the limit and of the HTTP timeout are `Period` and `Timeout` ticks; a call that starts when
the limit ends can overlap the last instant of the one before.

**TopicFilter, Acl.** A topic is the sequence of its levels; levels that start with `$` are told
apart because the matchers treat them differently. The access rules are compared by `matches_str`
with the text of the requested filter (`topic.rs:222` and `match_level` at line 315 of the vendored
crate): a level of a rule that is spelt out, an empty one too, takes only itself. A loop over levels is
written as the number of the iteration that returns. Rules are filters without their order, since
all of them allow. `Belongs` says what the rules are for: the userid is the second level of the
topic, or a prefix is open to the account.

**Delivery.** The composition: the account, the handshake (`Authenticate`, `Kick`, `SetSession`,
`AutoSubscribe`), the session loop that takes one message or packet at a time, the routes, the two
paths of a message. Routes are the log of the raft router; each node looks topics up in a prefix
of the log that only grows. `AddRoute` is awaited, a removal is a proposal of its own (`removing`).
`message_load` is `LoadLocal`, one `PeerGet` per node, `Timeout`, `LoadEnd`; a request whose load
gave up may still be executed and mark messages. A publication is routed and forwarded
(`Forwards`), stored later (`Store`); copies for other nodes travel in `wire`. The rules, the
automatic filters and the store's matcher are the repository's own code; the rest is the vendored
broker as `main` runs it. The history variables record who was admitted with what (`logins`), what a client may count on
(`wanted`), with which entry of the log its session subscribed (`since`), which stores a load is done
with (`passed`), and why a path did not carry a message (`missed`). The causes are found from the
sessions and the log by themselves, not from what the routing found: "unrouted" is recorded when no
subscription of the client for the topic entered the log within what the publishing node had applied,
"overtaken" when there was one, and a later Remove by the same session had undone it.

**LoadGen.** Both programs in one module, as they share their steps: `tool` says which one runs.
Tasks (creation, connection, receiving, publishing) interleave; `main` awaits them in the order of
the code. The broker hands out live copies and keeps stored ones for the next subscription of the
client id; every failure of a step is a fault. A publishing task of `perf-resources` publishes
once per measurement.

Definitions named `Bug...` are seeded faults. No action uses them; `PROJECT.json` names, for
each property, the fault that makes TLC report it.

## 3. Runs

| run | instance | shows |
|---|---|---|
| `memory` | 3 messages, 2 topics, 2 sizes, 2 expiries, 1 client, both caps, no flush | `IndexConsistent`, `BytesExact`, `CapsEnforced`, `NoEarlyDrop` |
| `writeback` | 2 messages, 1 failed transaction, 2 starts, cap of 1 | `TypeOK`, `FreshIds`, `WriteBackCoherent`, `RemovalsScheduled`, `AtMostOnceGet`, `StopKeepsAbsorbed`, `DurableMarks`, and the refinement `ImplementsLog` |
| `live` | 2 messages, 1 start, fair | `EventuallyAbsorbed`, `ExpiryCleanup`, `ShutdownCompletes` |
| `login` | 1 node, 4 requests, 2 passwords, pepper, 1 fault | `TypeOK`, `CredentialsCoherent`, `AcceptedMatches` |
| `cluster` | 2 nodes, 3 requests, 2 passwords, with 2 logins and 1 fault, or without logins and with 1 crash | `SettledAgree`, `CredentialsCoherent` |
| `answers` | 2 nodes, 2 requests, 1 permit each, 1 crash, 1 fault, fair | `RequestsAnswered`, `SettledAgree` |
| `token` | 2 requests at a time, 3 secrets, 1 failure, fair | `TypeOK`, `RejectionExplained`, `KnownKept`, `SecretAccepted` |
| `delivery` | 2 nodes, 1 device that connects twice, 1 message, 4 scenarios | `DeliveredAuthorised`, `AutoGranted`, `MarkedIsSent`, `SubscribedIsRouted`, `NoGap` |
| `loadgen` | both programs, rounds of 0, 3 and 2 subscribers with 2 devices per user, 3 messages, 2 publishers, 1 fault, fair | `CleanEnd`, `FailureExplained`, `RoundComplete`, `StallExplained`, `NoOverlap`, `Ends` |

Three runs show that the code does not do what a text of the repository says:

- `shutdown` (`ShutdownKeepsAccepted`): the channel is not drained before the last flush.
- `expiredrows` (`ExpiryCleanup` over a restart): rows that expired while the process was
  down are never deleted.
- `deleted` (`DeletedRejected`): a login in progress puts a deleted user back into the caches.

*Why the bounds are enough.* Three messages against a cap of two give eviction of an older, of
an expired and of several messages at once, and different sizes let a byte cap evict two for
one. Two messages, two starts and one failure reach a flush that races with a read, with an
insert that evicts and with the other flusher, and the reuse of a counter. Four requests on one
node are create, delete, create again and a login, in every interleaving, which is the shortest
way to a verifier or a cache entry of the wrong generation. Five are needed for a login that the
auth cache accepts with a password of the previous account, while the purge of the deletion is
outstanding and the account was created again; a search that deep does not fit a regular run, and
the theorem `AcceptedCorrect` covers it. Across nodes three requests suffice
to create, delete and create again while a node is down, or to create, delete and log in on the
peer; the two halves of `cluster` (`Budgets`) explore a fault and a crash separately. Two
requests in the token run are as many calls of the vault as can overlap, since each needs its
own period; further ones are limited and only compare. Two nodes have no third on which the changes made
through two others could meet in either order, and without a pepper there is no verifier for an upsert
to leave behind (`kept`); both are covered by the theorems only. In `delivery` every publication is by itself (messages do not interact before they
are queued) and so is every device (routes, marks and sessions are per client), so one of each is
enough; two connections give an offline session, its transfer to the same or the other node, and
a clean start. The scenarios (2.8 million states together) are: the whole path with one fault; a
device that asks for another user's filter; an account that is deleted and created again with
another userid between any two steps; a broker without logins. Prefixes are empty in this run
(one admin prefix, hence a second automatic filter, takes it past 15 million states); the theorems of
`AclProofs` hold for any. In `loadgen` three messages for two users with two devices, and two
publishers, make both the division of messages and that of subscribers come out uneven; the round
without subscribers is the first of the default levels of `perf-resources`.
Runs that stop at their bounds turn deadlock checking off: all requests made, the clock at its
bound and the process stopped is a regular end. `token` has none and checks it.

*What the delivery run says.* `NoGap`: a subscriber misses a message only when both paths failed. The
live one fails because the publishing node could not know of a subscription yet (unrouted), because
the late Remove of an earlier UNSUBSCRIBE had undone it (overtaken, `router.rs:168`), because the
session had left the node the message was forwarded to (moved), or because the forward was lost. The
stored one fails because the message was stored after the load had passed its node (unstored), or was
among those of a load with an answer that did not come in time (failed). Each of the six is needed:
without any one of them TLC finds a gap. Subscriptions that a connection was to take over from the
previous session, and had not when it ended, are lost with the transfer (`session.rs:461`) and not
counted. So `NoGap` does not say that these things do not happen; it says that nothing else
loses a message. `SubscribedIsRouted` says that the overtaken ones are the only subscriptions without
a route. `MarkedIsSent`: marking before sending loses only what a load with a failed or late answer
had collected. `DeliveredAuthorised` accepts any account the device was ever admitted with: a
subscription that is taken over is not checked against the rules of the new login
(`session.rs:1410`). A message that a
client received live is stored without a mark and handed to it again by its next subscription
(`store` ignores the list of clients already served, `msgstore.rs:273`); `RoundComplete` has to
exclude rounds in which such copies were counted.

*Symmetry.* Nodes, passwords and requests are interchangeable in `login`, `cluster` and
`deleted`, nodes in `delivery`, and topics in `memory`; none of these checks a liveness property.
Runs with fairness use no symmetry.

*Fairness.* `MsgStore`: the tokio runtime polls the writer task and the flusher's timer,
blocking tasks end, `main` goes on, the clock advances. Nothing is assumed of publishers,
subscribers, signals and restarts. `UserDirectory`: handlers run, and a POST ends at the latest
with the client's five second timeout; tokio's semaphore is a queue, and with finitely many
requests weak fairness of the waiting step is what it gives. Peers may stay down. `ApiToken`:
handlers run, a call of the vault ends, the clock advances, and one client keeps presenting the
secret, which is what the retry in the README's "refreshes on an auth-miss" needs. `LoadGen`: some
task can always run. HTTP requests and connections are answered or fail (connecting has a timeout
of 30 seconds), and the drain loop has its own deadline. As every step brings the programs closer
to their end, weak fairness of the whole next-state relation is enough.

## 4. Proofs

Every safety property of the passing runs is a theorem for all values of the constants, from the
named assumptions in the modules that declare them (types of the bounds, `None` is a value of its
own). The tables name them; the text says which strengthening makes them inductive.

**Message store** (`MsgStoreProofs`; from `SetAssumption` and `BoundAssumption`).

| theorem | states |
|---|---|
| `TypeCorrect` | `Spec => []TypeOK` |
| `StoreInvariant` | `Spec => []StoreInv`, the inductive invariant |
| `IndexCorrect`, `BytesCorrect`, `FreshIdsCorrect`, `AtMostOnceCorrect` | `IndexConsistent`, `BytesExact`, `FreshIds`, `AtMostOnceGet` |
| `CapsCorrect`, `NoEarlyDropCorrect` | the action properties `CapsEnforced`, `NoEarlyDrop` |

None of the invariants is inductive alone. The index needs `FreshIds`: an id that came twice to
the writer task would leave its old topic in `by_topic`. `FreshIds` needs `WriteSets`, since the
counter after a restart is found from the table, which a flush fills from memory.
`AtMostOnceGet` needs to know that every recorded hand-out of a message still in memory or in
the table is marked there (`HandedMarked`). `StoreInv` is their conjunction. The critical
sections are handled once, as lemmas about `Evict`, `Insert` and `Mark` on any consistent memory
state, and every action cites them. The byte count rests on `SumLemmas`: the sum over a finite
function exists, does not depend on the order, and splits over disjoint domains. Induction there
is over sets of naturals and of subsets, so that no operator has to be instantiated.

**Write-back** (`WriteBackProofs`; from `StoreInv`).

| theorem | states |
|---|---|
| `WriteBackInvariant` | `Spec => []WriteBackInv`, the inductive invariant |
| `WriteBackCorrect`, `RemovalsCorrect`, `StopCorrect` | `WriteBackCoherent`, `RemovalsScheduled`, `StopKeepsAbsorbed` |
| `MarksDurable` | the action property `DurableMarks` |
| `StoreImplementsLog` | `Spec => ImplementsLog`: `MsgStore` refines `MessageLog`, what it gives and not all the trait asks |

The two flushers, and memory that goes on changing between a drain and its commit, make copies of
one message in memory, in two batches and in the table. `WriteBackInv` says that the copies agree in
what never changes (`CopiesAgree`), that their marks are of real deliveries (`MarksReal`) and grow
from the table over the batch to memory (`MarksGrow`), and that what changed since a drain is dirty
again, and what was dropped since is to be deleted (`BatchFollowed`). `Absorbed` follows the messages
that were in memory at the signal until the exit. The refinement then maps every step to a step of
`MessageLog` or to a stutter.

**User directory** (`UserDirectoryProofs`; from `DirectoryAssumption`).

| theorem | states |
|---|---|
| `DirectoryInvariant` | `Spec => []DirectoryInv`, the inductive invariant |
| `DirectoryType` | `Spec => []TypeOK` |
| `CredentialsAgree` | `CredentialsCoherent` |
| `AcceptedCorrect` | `AcceptedMatches` |
| `NodesAgree` | `SettledAgree` |

`CredentialsCoherent` is about caches; what fills them is held by requests between two steps.
`HeldFits` says that a login in progress, or a creation before its verifier, holds the row, and
`VerifiedFits` that a verified password is the one of the record held (`Vouched`: the hash leaves no
doubt, the verifier and the auth cache only where no cause has touched them). `VerifierFits`,
`AuthFits` and `RecordFits` say for each place which purge may still be outstanding, and which of
`raced`, `unpurged` and `kept` may have touched it: the verifier goes with the row in one transaction,
the auth cache before the user cache. `Places` bounds where a request of each kind can be. `Agreement`
gives the nodes' tables a common target: for every user without a conflict there is a value that each
node has, missed, was set back from, or is about to be sent, and that agrees with every snapshot that
has the last change (`fresh`).

The theorems hold outside these causes, and the causes do occur. `CredentialsAgree` and
`AcceptedCorrect` say nothing of a user on a node where a change overlapped a login, where a purge was
never made, or where an upsert left an older verifier. `NodesAgree` says nothing of a user with
overlapping changes, and nothing of a node that missed the last change or on which an older snapshot
undid it, until the next change reaches that node. A snapshot that is older than a change still to
come does no harm.

**API token** (`ApiTokenProofs`; from `TokenAssumption`).

| theorem | states |
|---|---|
| `TokenInvariant` | `Spec => []TokenInv`, the inductive invariant |
| `TypeCorrect`, `RejectionsExplained` | `TypeOK`, `RejectionExplained` |
| `SecretKept` | the action property `KnownKept` |

The argument is about the vault calls that may overlap: the limit and the timeout let at most one
call be under way beside one that ends in the same instant (`CallsOk`), so an answer that is applied
late is at most one secret behind (`AnswersOk`), and the pair of current and previous still holds the
vault's secret. `Timeout <= Period` is needed; both are five seconds in the code.

**Access rules** (`AclProofs`; from `WordsAssumption` and `AclAssumption`).

| theorem | states |
|---|---|
| `StoreAgreesWithRouter` | what the router selects the store selects; they agree except for a leading wildcard and a `$` topic |
| `RulesAdmitOwnTopics` | a filter that the rules grant selects only topics that belong to the account, by either matcher |
| `AutoSubscriptionGranted` | the rules of a record grant every automatic filter of the same record |

The matchers are loops, written as "iteration n returns and those before it continue". The first
lemmas turn this into a statement about all levels at once; what is left compares a rule, a filter
and a topic level by level. Prefixes are any topics, with empty or `$` levels too; a rule that is no
valid filter is dropped, as `build_auth_info` drops it.

**Delivery** (`DeliveryProofs`; from `DeliveryAssumption` and the theorems of `AclProofs`).

| theorem | states |
|---|---|
| `DeliveryInvariant` | `Spec => []DeliveryInv`, the inductive invariant |
| `OnlyAuthorisedDelivered` | `DeliveredAuthorised` |
| `AutomaticIsGranted` | `AutoGranted` |
| `MarkedNotLost` | `MarkedIsSent` |
| `SubscriptionsRouted` | `SubscribedIsRouted` |
| `NoMessageGap` | `NoGap` |

`AuthorisedOk` follows a grant from the rules of a login through the subscription, its routes, the
forwards, the loads and the transfer to a later session; `RulesAdmitOwnTopics` then makes the message
one of an account it was admitted with. `RoutedOk` says of every subscription that from its entry
(`since`) on, every prefix of the log routes it to the node of the session or shows a Remove that
overtook it. For `NoGap` each path has its part: `ForwardedOk` says that a published
message was sent to each client, is on the wire to it, or has a cause of the live path; `LoadedOk` and
`PassedOk` that the load of every subscription is done with a store or still to come, and that what
was in a store it is done with is marked or has a cause of the stored path; `WantedOk` that a wanted
filter is a subscription or about to become one. They meet where a message is stored. Since the
causes do not depend on what the routing finds, this is a proof about the routing: with a routing
that finds less, `ForwardedOk` fails.

**Load generators** (`LoadGenProofs`; from `LoadGenAssumption`).

| theorem | states |
|---|---|
| `LoadInvariant` | `Spec => []LoadInv`, the inductive invariant |
| `EndsClean`, `FailuresExplained` | `CleanEnd`, `FailureExplained` |
| `RoundsComplete`, `StallsExplained` | `RoundComplete`, `StallExplained` |
| `MeasurementsApart` | `NoOverlap` |

`CopiesCount` counts the copies of a round by an injection into pairs of a message and a device of
its user: never more than `Expected`, and exactly as many when the devices per user divide the
subscribers. `RoundCounted` says that the counter is the number of different copies of the round
plus the others, so reaching the number means having them all. `RoundKept` says that without a
fault a copy that was sent is on its way or counted, and `PartsCover` that the publishers' parts
together are all messages, so giving up has a cause. Accounts suffice because the number of users of
the largest round is rounded up (`RoundSize`).

*Model-checked only.* The liveness properties `EventuallyAbsorbed`, `ExpiryCleanup`,
`ShutdownCompletes`, `RequestsAnswered`, `SecretAccepted` and `Ends`: the prover handles neither
fairness nor `ENABLED`. The three runs that show a disagreement are counterexamples and need no
proof. What the matchers compute is proved about their definition by iterations, which stands for
the loops of the code.

## 5. Not modelled

- In `MsgStore`: failures to encode or decode a message, a poisoned mutex, the few
  instructions between reading the clock and taking the lock, ids past 2^48 and node ids past
  2^16, `PROFILE_SECS`, `count`. An exit that drops a blocking task which has begun.
- In `UserDirectory`: malformed requests (answered with 400 before any effect),
  `list_users` and `cluster_status` (they change nothing), a login cancelled by its client, the
  salt that makes two hashes of one password differ, the API token on the POSTs.
- In `Delivery`: a client that connects while its previous connection is alive (takeover, kick
  timeout), a remote kick whose answer is lost, proposals that fail after all retries, shared
  subscriptions, retained messages, expiry, what happens to a message after it was handed to a
  session (queue, in-flight window, acknowledgements), crashes of a node.
- In `LoadGen`: latencies, `docker stats`, CSV and SVG output, the 32 permits that limit how many
  tasks connect at a time; `auto_subscribe`, which is off in the shipped configurations.
- Configuration parsing and the fuzz targets: no state of the broker. The raft plugin's elections,
  snapshots and the retry loop of `main` that joins the cluster: vendored, and nothing of the
  broker runs before it ends.

## 6. Plan

Done so far: `MsgStore` with its abstract log, `UserDirectory`, `ApiToken`, the access rules,
`Delivery` as the composition, `LoadGen`; proofs of the safety properties of all of them and of the
refinement.

1. Action properties worth a theorem: what a replicated change or a catch-up may never do to a row,
   and which steps may take a subscription away from a session.
2. An abstract specification of the user directory for one node, and its refinement.
3. If reached: the takeover of a live connection, and the in-flight window of the vendored session
   as configured by `main`.
