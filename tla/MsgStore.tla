------------------------------ MODULE MsgStore ------------------------------
(***************************************************************************)
(* The persistent message store of one broker process: RedbMessageStore    *)
(* (src/src/msgstore.rs) and the part of main.rs that flushes it.          *)
(*                                                                         *)
(* A publish takes an id from the counter, is forwarded, and is then sent  *)
(* on an unbounded channel to a writer task that puts it into the          *)
(* mutex-protected memory state.  Subscribers read with get, which marks   *)
(* what it handed out.  A periodic task, and the shutdown path, write the  *)
(* memory state back to the redb file: the dirty and removed sets are      *)
(* drained under the mutex and committed later, by a blocking task, in one *)
(* transaction.  The process may be killed between any two steps.          *)
(*                                                                         *)
(* Each critical section of the mutex is one action.                       *)
(***************************************************************************)
EXTENDS Integers, Sequences, FiniteSets, FiniteSetsExt

CONSTANTS
    NodeIds,    \* values cluster.node_id may have (all below 2^16)
    Topics,     \* topic names
    Filters,    \* what a topic filter selects: subsets of Topics
    Clients,    \* client ids
    Sizes,      \* values of approx_size
    Ttls,       \* message expiry intervals
    MaxMsgs,    \* MSG_MAX_MSGS, 0 = unbounded
    MaxBytes,   \* MSG_MAX_BYTES, 0 = unbounded
    FlushSecs,  \* MSG_FLUSH_SECS, 0 = never flush
    MaxIds,     \* bound on the message counter, at most 2^48: the mask never wraps
    MaxTime,    \* bound on the clock
    MaxFails,   \* bound on failed transactions
    MaxStarts   \* bound on process starts

ASSUME SetAssumption ==
    /\ Filters \subseteq SUBSET Topics
    /\ Sizes \subseteq Nat
    /\ Ttls \subseteq Nat

\* node_id is compared with id >> 48 as an integer
ASSUME BoundAssumption ==
    /\ NodeIds \subseteq Nat /\ IsFiniteSet(NodeIds)
    /\ {MaxMsgs, MaxBytes, FlushSecs, MaxIds, MaxTime, MaxFails, MaxStarts} \subseteq Nat

VARIABLES
    phase,      \* "run", "stopping" (signal seen), "stopped" (clean exit) or "killed"
    now,        \* wall clock
    node,       \* node_id of this process
    counter,    \* next_msg_id's AtomicU64
    pending,    \* ids handed to publishes that have not called store yet
    chan,       \* the unbounded channel to the writer task
    mem,        \* the MemState behind the mutex
    flight,     \* what each flusher drained and has not committed yet
    disk,       \* the MESSAGES table
    starts,     \* process starts so far
    fails,      \* failed transactions so far
    \* what follows only records history; no action reads it
    handed,     \* <<client, id>> pairs that get returned and that memory or disk should know of
    rehanded,   \* pairs get returned a second time
    lost,       \* ids whose last write-back failed
    skipped,    \* rows open found expired and did not load
    due         \* ids in memory, and ids in the channel, when the shutdown signal came

vars == <<phase, now, node, counter, pending, chan, mem, flight, disk, starts, fails,
          handed, rehanded, lost, skipped, due>>
histVars == <<handed, rehanded, lost, skipped, due>>

-----------------------------------------------------------------------------
(* Data. *)

\* (node_id << 48) | counter: the pair orders and compares as the integer does
Keys == NodeIds \X (0 .. MaxIds - 1)

StoredMsg == [topic : Topics, size : Sizes, expiry : 0 .. MaxTime, delivered : SUBSET Clients]

\* HashMap<u64, StoredMsg>, and the rows of the table
MsgMap == UNION {[S -> StoredMsg] : S \in SUBSET Keys}

NoMsgs == [k \in {} |-> {}]

MemState == [msgs : MsgMap, order : Seq(Keys), byTopic : [Topics -> SUBSET Keys],
             bytes : Nat, dirty : SUBSET Keys, removed : SUBSET Keys]

EmptyMem == [msgs |-> NoMsgs, order |-> << >>, byTopic |-> [t \in Topics |-> {}],
             bytes |-> 0, dirty |-> {}, removed |-> {}]

Flushers == {"periodic", "shutdown"}

Flight == [state : {"idle", "commit", "done"}, batch : MsgMap, removed : SUBSET Keys]

NothingDue == [stored |-> {}, queued |-> {}]

IdleFlight == [state |-> "idle", batch |-> NoMsgs, removed |-> {}]

Up == phase \in {"run", "stopping"}

SaturatingSub(a, b) == IF a - b \in Nat THEN a - b ELSE 0

BytesOf(msgs) == SumFunction([k \in DOMAIN msgs |-> msgs[k].size])

-----------------------------------------------------------------------------
(* MemState: the operations done under the mutex.  Definitions named Bug... are seeded *)
(* faults, put in place of the definition after them to show that a property notices.   *)

OverCap(m) ==
    \/ MaxMsgs > 0 /\ Cardinality(DOMAIN m.msgs) > MaxMsgs
    \/ MaxBytes > 0 /\ m.bytes > MaxBytes

Expired(m, id, t) == id \in DOMAIN m.msgs => m.msgs[id].expiry <= t

BugKeepsTopicEntry(m, n) ==
    LET popped == {m.order[i] : i \in 1 .. n} \cap DOMAIN m.msgs
    IN  [m EXCEPT !.msgs    = Restrict(m.msgs, DOMAIN m.msgs \ popped),
                  !.order   = SubSeq(m.order, n + 1, Len(m.order)),
                  !.bytes   = SaturatingSub(m.bytes, BytesOf(Restrict(m.msgs, popped))),
                  !.dirty   = @ \ popped,
                  !.removed = @ \cup popped]

BugKeepsBytes(m, n) ==
    LET popped == {m.order[i] : i \in 1 .. n} \cap DOMAIN m.msgs
    IN  [m EXCEPT !.msgs    = Restrict(m.msgs, DOMAIN m.msgs \ popped),
                  !.order   = SubSeq(m.order, n + 1, Len(m.order)),
                  !.byTopic = [t \in Topics |-> @[t] \ popped],
                  !.dirty   = @ \ popped,
                  !.removed = @ \cup popped]

BugForgetsRow(m, n) ==
    LET popped == {m.order[i] : i \in 1 .. n} \cap DOMAIN m.msgs
    IN  [m EXCEPT !.msgs    = Restrict(m.msgs, DOMAIN m.msgs \ popped),
                  !.order   = SubSeq(m.order, n + 1, Len(m.order)),
                  !.byTopic = [t \in Topics |-> @[t] \ popped],
                  !.bytes   = SaturatingSub(m.bytes, BytesOf(Restrict(m.msgs, popped))),
                  !.dirty   = @ \ popped]

\* the memory state after the loop of evict has popped n ids
PopFront(m, n) ==
    LET popped == {m.order[i] : i \in 1 .. n} \cap DOMAIN m.msgs
        kept   == DOMAIN m.msgs \ popped
    IN  [msgs    |-> Restrict(m.msgs, kept),
         order   |-> SubSeq(m.order, n + 1, Len(m.order)),
         byTopic |-> [t \in Topics |-> m.byTopic[t] \ {k \in popped : m.msgs[k].topic = t}],
         bytes   |-> SaturatingSub(m.bytes, BytesOf(Restrict(m.msgs, popped))),
         dirty   |-> m.dirty \ popped,
         removed |-> m.removed \cup popped]

BugDropsBeforeExpiry(m, t, n) ==
    \/ n = Len(m.order)
    \/ ~ OverCap(PopFront(m, n)) /\ ~ Expired(m, m.order[n + 1], t + 1)

BugOnlyExpired(m, t, n) == n = Len(m.order) \/ ~ Expired(m, m.order[n + 1], t)

\* the loop leaves at the first front that is neither expired nor over the cap
EvictStops(m, t, n) ==
    \/ n = Len(m.order)
    \/ ~ OverCap(PopFront(m, n)) /\ ~ Expired(m, m.order[n + 1], t)

Evict(m, t) == PopFront(m, Min({n \in 0 .. Len(m.order) : EvictStops(m, t, n)}))

\* the writer task's critical section, before its evict
Insert(m, key, msg) ==
    LET known == key \in DOMAIN m.msgs
        freed == IF known THEN m.msgs[key].size ELSE 0
    IN  [msgs    |-> [k \in DOMAIN m.msgs \cup {key} |-> IF k = key THEN msg ELSE m.msgs[k]],
         order   |-> IF known THEN m.order ELSE Append(m.order, key),
         byTopic |-> [m.byTopic EXCEPT ![msg.topic] = @ \cup {key}],
         bytes   |-> SaturatingSub(m.bytes, freed) + msg.size,
         dirty   |-> m.dirty \cup {key},
         removed |-> m.removed \ {key}]

\* the ids get returns to client c for filter f
Selected(m, c, f, t) ==
    {k \in DOMAIN m.msgs \cap (UNION {m.byTopic[topic] : topic \in f}) :
        ~ Expired(m, k, t) /\ c \notin m.msgs[k].delivered}

BugMarkNotDirty(m, c, ids) ==
    [m EXCEPT !.msgs  = [k \in DOMAIN m.msgs |->
                            IF k \in ids THEN [m.msgs[k] EXCEPT !.delivered = @ \cup {c}]
                                         ELSE m.msgs[k]]]

BugNoMark(m, c, ids) == [m EXCEPT !.dirty = @ \cup ids]

\* get records that ids were handed to client c
Mark(m, c, ids) ==
    [m EXCEPT !.msgs  = [k \in DOMAIN m.msgs |->
                            IF k \in ids THEN [m.msgs[k] EXCEPT !.delivered = @ \cup {c}]
                                         ELSE m.msgs[k]],
              !.dirty = @ \cup ids]

-----------------------------------------------------------------------------
(* Publishing. *)

\* next_msg_id: a publish takes its id before it is forwarded
NextMsgId ==
    /\ Up
    /\ counter < MaxIds
    /\ counter' = counter + 1
    /\ pending' = pending \cup {<<node, counter>>}
    /\ UNCHANGED <<phase, now, node, chan, mem, flight, disk, starts, fails, histVars>>

\* store, after the forward: publishes may reach it in any order.  The list of
\* clients that were already served is not used.  Bound: expiry_at <= MaxTime.
Store(key, topic, size, ttl) ==
    /\ Up
    /\ key \in pending
    /\ now + ttl <= MaxTime
    /\ pending' = pending \ {key}
    /\ chan' = Append(chan, [key |-> key,
                             msg |-> [topic |-> topic, size |-> size, expiry |-> now + ttl,
                                      delivered |-> {}]])
    /\ UNCHANGED <<phase, now, node, counter, mem, flight, disk, starts, fails, histVars>>

BugLeavesExpired ==
    /\ Up
    /\ chan # << >>
    /\ Head(chan).msg.expiry > now
    /\ chan' = Tail(chan)
    /\ mem' = Evict(Insert(mem, Head(chan).key, Head(chan).msg), now)
    /\ UNCHANGED <<phase, now, node, counter, pending, flight, disk, starts, fails, histVars>>

\* the writer task receives one message
WriterRecv ==
    /\ Up
    /\ chan # << >>
    /\ chan' = Tail(chan)
    /\ mem' = Evict(Insert(mem, Head(chan).key, Head(chan).msg), now)
    /\ UNCHANGED <<phase, now, node, counter, pending, flight, disk, starts, fails, histVars>>

-----------------------------------------------------------------------------
(* Reading. *)

\* get on behalf of client c, called by a local subscribe or for a peer
Get(c, f) ==
    LET m   == Evict(mem, now)
        ids == Selected(m, c, f, now)
    IN  /\ Up
        /\ mem' = Mark(m, c, ids)
        /\ handed' = handed \cup ({c} \X ids)
        /\ rehanded' = rehanded \cup (({c} \X ids) \cap handed)
        /\ UNCHANGED <<phase, now, node, counter, pending, chan, flight, disk, starts, fails,
                       lost, skipped, due>>

-----------------------------------------------------------------------------
(* Write-back. *)

BugFlushersOverlap(f) == FlushSecs > 0 /\ flight[f].state = "idle"

\* the periodic flusher runs while the process does; the shutdown path flushes once
MayFlush(f) ==
    /\ FlushSecs > 0
    /\ flight[f].state = "idle"
    /\ f = "periodic" \/ phase = "stopping"

BugFlushesForever(f) == IdleFlight

\* what a flusher goes back to when its call of flush returns
Returned(f) == [IdleFlight EXCEPT !.state = IF f = "shutdown" THEN "done" ELSE "idle"]

\* flush, up to the unlock: evict, then drain dirty and removed
FlushBegin(f) ==
    LET m == Evict(mem, now)
        b == Restrict(m.msgs, m.dirty \cap DOMAIN m.msgs)
    IN  /\ Up
        /\ MayFlush(f)
        /\ mem' = [m EXCEPT !.dirty = {}, !.removed = {}]
        /\ flight' = [flight EXCEPT ![f] =
                        IF DOMAIN b = {} /\ m.removed = {} THEN Returned(f)
                        ELSE [state |-> "commit", batch |-> b, removed |-> m.removed]]
        /\ UNCHANGED <<phase, now, node, counter, pending, chan, disk, starts, fails, histVars>>

\* the table after a transaction that deletes ids and then writes batch
Committed(table, ids, batch) ==
    [k \in (DOMAIN table \ ids) \cup DOMAIN batch |->
        IF k \in DOMAIN batch THEN batch[k] ELSE table[k]]

\* the blocking task commits; redb admits one write transaction at a time
FlushCommit(f) ==
    /\ Up
    /\ flight[f].state = "commit"
    /\ disk' = Committed(disk, flight[f].removed, flight[f].batch)
    /\ flight' = [flight EXCEPT ![f] = Returned(f)]
    /\ lost' = lost \ (DOMAIN flight[f].batch \cup flight[f].removed)
    /\ UNCHANGED <<phase, now, node, counter, pending, chan, mem, starts, fails,
                   handed, rehanded, skipped, due>>

\* the transaction fails: flush logs it, and what was drained is forgotten
FlushFail(f) ==
    /\ Up
    /\ flight[f].state = "commit"
    /\ fails < MaxFails
    /\ fails' = fails + 1
    /\ flight' = [flight EXCEPT ![f] = Returned(f)]
    /\ lost' = lost \cup DOMAIN flight[f].batch \cup flight[f].removed
    /\ UNCHANGED <<phase, now, node, counter, pending, chan, mem, disk, starts,
                   handed, rehanded, skipped, due>>

-----------------------------------------------------------------------------
(* The process. *)

Tick ==
    /\ now < MaxTime
    /\ now' = now + 1
    /\ UNCHANGED <<phase, node, counter, pending, chan, mem, flight, disk, starts, fails,
                   histVars>>

\* SIGTERM or SIGINT: main leaves server.run; the other tasks keep running
ShutdownSignal ==
    /\ phase = "run"
    /\ phase' = "stopping"
    /\ due' = [stored |-> DOMAIN mem.msgs, queued |-> {chan[i].key : i \in DOMAIN chan}]
    /\ UNCHANGED <<now, node, counter, pending, chan, mem, flight, disk, starts, fails,
                   handed, rehanded, lost, skipped>>

BugExitsAtOnce ==
    /\ phase = "stopping"
    /\ phase' = "stopped"
    /\ UNCHANGED <<now, node, counter, pending, chan, mem, flight, disk, starts, fails,
                   histVars>>

\* main returns.  A periodic flush whose blocking task has not started is dropped.
Exit ==
    /\ phase = "stopping"
    /\ FlushSecs > 0 => flight["shutdown"].state = "done"
    /\ phase' = "stopped"
    /\ UNCHANGED <<now, node, counter, pending, chan, mem, flight, disk, starts, fails,
                   histVars>>

\* the process is killed: memory is gone, redb keeps what was committed
Crash ==
    /\ Up
    /\ phase' = "killed"
    /\ counter' = 0
    /\ pending' = {}
    /\ chan' = << >>
    /\ mem' = EmptyMem
    /\ flight' = [f \in Flushers |-> IdleFlight]
    /\ handed' = {} /\ rehanded' = {}
    /\ lost' = {} /\ skipped' = {} /\ due' = NothingDue
    /\ UNCHANGED <<now, node, disk, starts, fails>>

BugLoadsExpired(t) == DOMAIN disk

\* rows that open loads
Loaded(t) == {k \in DOMAIN disk : disk[k].expiry > t}

\* sort_unstable on (expiry_at, id)
Before(j, k) ==
    \/ disk[j].expiry < disk[k].expiry
    \/ disk[j].expiry = disk[k].expiry /\ j[1] < k[1]
    \/ disk[j].expiry = disk[k].expiry /\ j[1] = k[1] /\ j[2] < k[2]

IsOpenOrder(s, ids) ==
    /\ \A i, j \in DOMAIN s : i < j => Before(s[i], s[j])
    /\ ids = {s[i] : i \in DOMAIN s}

BugReusesLast(n) ==
    LET own == {k[2] : k \in {j \in DOMAIN disk : j[1] = n}}
    IN  IF own = {} THEN 0 ELSE Max(own)

BugSkipsOne(n) ==
    LET own == {k[2] + 2 : k \in {j \in DOMAIN disk : j[1] = n}}
    IN  IF own = {} THEN 0 ELSE Max(own)

\* the counter continues after the largest own id in the table
FirstFree(n) ==
    LET own == {k[2] + 1 : k \in {j \in DOMAIN disk : j[1] = n}}
    IN  IF own = {} THEN 0 ELSE Max(own)

\* open, in a new process whose configuration says node_id = n
Open(n) ==
    LET ids == Loaded(now)
    IN  /\ phase \in {"stopped", "killed"}
        /\ starts < MaxStarts
        /\ starts' = starts + 1
        /\ phase' = "run"
        /\ node' = n
        /\ counter' = FirstFree(n)
        /\ pending' = {}
        /\ chan' = << >>
        /\ \E s \in [1 .. Cardinality(ids) -> ids] :
              /\ IsOpenOrder(s, ids)
              /\ mem' = [msgs    |-> Restrict(disk, ids),
                         order   |-> s,
                         byTopic |-> [t \in Topics |-> {k \in ids : disk[k].topic = t}],
                         bytes   |-> BytesOf(Restrict(disk, ids)),
                         dirty   |-> {},
                         removed |-> {}]
        /\ flight' = [f \in Flushers |-> IdleFlight]
        /\ handed' = UNION {disk[k].delivered \X {k} : k \in DOMAIN disk}
        /\ rehanded' = {}
        /\ lost' = {}
        /\ skipped' = DOMAIN disk \ ids
        /\ due' = NothingDue
        /\ UNCHANGED <<now, disk, fails>>

-----------------------------------------------------------------------------
(* The specification. *)

\* the first open, of an empty table
Init ==
    /\ phase = "run"
    /\ now = 0
    /\ node \in NodeIds
    /\ counter = 0
    /\ pending = {}
    /\ chan = << >>
    /\ mem = EmptyMem
    /\ flight = [f \in Flushers |-> IdleFlight]
    /\ disk = NoMsgs
    /\ starts = 1
    /\ fails = 0
    /\ handed = {} /\ rehanded = {}
    /\ lost = {} /\ skipped = {} /\ due = NothingDue

Next ==
    \/ NextMsgId
    \/ \E key \in pending, topic \in Topics, size \in Sizes, ttl \in Ttls :
          Store(key, topic, size, ttl)
    \/ WriterRecv
    \/ \E c \in Clients, f \in Filters : Get(c, f)
    \/ \E f \in Flushers : FlushBegin(f) \/ FlushCommit(f) \/ FlushFail(f)
    \/ Tick
    \/ ShutdownSignal
    \/ Exit
    \/ Crash
    \/ \E n \in NodeIds : Open(n)

Spec == Init /\ [][Next]_vars

\* The runtime polls the writer task and the flusher's timer while the process
\* lives, blocking tasks run to their end, main goes on once its flush returned,
\* and the clock advances.
Fairness ==
    /\ WF_vars(WriterRecv)
    /\ \A f \in Flushers : WF_vars(FlushBegin(f)) /\ WF_vars(FlushCommit(f) \/ FlushFail(f))
    /\ WF_vars(Exit)
    /\ WF_vars(Tick)

FairSpec == Spec /\ Fairness
-----------------------------------------------------------------------------
(* Properties. *)

ChanKeys == {chan[i].key : i \in DOMAIN chan}

FlightKeys(f) == DOMAIN flight[f].batch \cup flight[f].removed

\* Every variable stays in its type; in particular bytes never goes below zero
\* and no id leaves the space next_msg_id allocates from.
TypeOK ==
    /\ phase \in {"run", "stopping", "stopped", "killed"}
    /\ now \in 0 .. MaxTime
    /\ node \in NodeIds
    /\ counter \in 0 .. MaxIds
    /\ pending \subseteq Keys
    /\ chan \in Seq([key : Keys, msg : StoredMsg])
    /\ mem \in MemState
    /\ flight \in [Flushers -> Flight]
    /\ disk \in MsgMap
    /\ starts \in Nat
    /\ fails \in Nat
    /\ handed \subseteq Clients \X Keys
    /\ rehanded \subseteq Clients \X Keys
    /\ lost \subseteq Keys
    /\ skipped \subseteq Keys
    /\ due \in [stored : SUBSET Keys, queued : SUBSET Keys]

\* order lists exactly the stored ids, each once
OrderIndex(m) ==
    /\ {m.order[i] : i \in DOMAIN m.order} = DOMAIN m.msgs
    /\ \A i, j \in DOMAIN m.order : m.order[i] = m.order[j] => i = j

\* by_topic finds exactly the stored ids of a topic
TopicIndex(m) == \A t \in Topics : m.byTopic[t] = {k \in DOMAIN m.msgs : m.msgs[k].topic = t}

\* what is to be written exists, what is to be deleted does not
WriteSets(m) == m.dirty \subseteq DOMAIN m.msgs /\ m.removed \cap DOMAIN m.msgs = {}

\* The indexes that evict, the writer task and get keep in step with msgs agree
\* with it after every critical section: a message missing from by_topic would
\* never be handed out, one missing from order never evicted.
IndexConsistent == OrderIndex(mem) /\ TopicIndex(mem) /\ WriteSets(mem)

\* The byte counter that the cap is enforced with is the sum of the sizes, across
\* inserts, evictions and a reload from disk.
BytesExact == mem.bytes = BytesOf(mem.msgs)

UsedKeys ==
    DOMAIN mem.msgs \cup mem.removed \cup DOMAIN disk \cup UNION {FlightKeys(f) : f \in Flushers}

\* The id next_msg_id returns next is used by no publish in progress, queued or
\* stored message, scheduled deletion, batch or row, also after a restart recovered
\* the counter from the table; and a message still on its way to the writer task
\* shares its id with nothing else.
FreshIds ==
    Up => /\ \A k \in pending \cup ChanKeys \cup UsedKeys : k[1] = node => k[2] < counter
          /\ pending \cap ChanKeys = {}
          /\ (pending \cup ChanKeys) \cap UsedKeys = {}
          /\ \A i, j \in DOMAIN chan : chan[i].key = chan[j].key => i = j

\* While the process runs, a stored message is on its way to the table (dirty or
\* drained by the flusher) or the row equals it, unless its last write failed:
\* draining dirty before the commit loses no update made in between.
WriteBackCoherent ==
    phase = "run" =>
        \A k \in DOMAIN mem.msgs :
            \/ k \in mem.dirty
            \/ k \in DOMAIN flight["periodic"].batch
            \/ k \in lost
            \/ k \in DOMAIN disk /\ disk[k] = mem.msgs[k]

\* While the process runs, a row whose message is gone from memory is about to be
\* deleted, unless the deletion failed or open skipped the row as expired: an
\* eviction that falls between a drain and its commit is not forgotten.
RemovalsScheduled ==
    phase = "run" =>
        \A k \in DOMAIN disk \ DOMAIN mem.msgs :
            k \in mem.removed \cup flight["periodic"].removed \cup lost \cup skipped

\* get hands a message to a client at most once per process, and never again once
\* the mark is in the table the process was started from.
AtMostOnceGet == rehanded = {}

\* The commit of a running process never takes a delivery mark back from a row.
DurableMarks ==
    [][phase' = "run" =>
          \A k \in DOMAIN disk \cap DOMAIN disk' : disk[k].delivered \subseteq disk'[k].delivered]_vars

\* Whatever changes the memory state of a running store leaves it within both
\* caps (only open may load more than they allow).
CapsEnforced == [][Up /\ Up' /\ mem' # mem => ~ OverCap(mem')]_vars

\* A message leaves memory only when it has expired or when the store, with the
\* message being inserted, exceeds a cap; nothing else drops it.
NoEarlyDrop ==
    [][Up /\ Up' =>
        \A k \in DOMAIN mem.msgs \ DOMAIN mem'.msgs :
            \/ mem.msgs[k].expiry <= now
            \/ OverCap(mem)
            \/ chan # << >> /\ OverCap(Insert(mem, Head(chan).key, Head(chan).msg))]_vars

\* After a clean exit every message that had reached memory when the signal came,
\* and was not dropped since, is in the table, unless a transaction failed or the
\* periodic flusher still held it.
StopKeepsAbsorbed ==
    phase = "stopped" /\ FlushSecs > 0 =>
        \A k \in due.stored \cap DOMAIN mem.msgs :
            \/ k \in DOMAIN disk
            \/ k \in lost \cup DOMAIN flight["periodic"].batch

\* Every message sent to the writer task is taken from the channel while the
\* process lives.
EventuallyAbsorbed == \A k \in Keys : k \in ChanKeys ~> (k \notin ChanKeys \/ ~ Up)

\* The row of an expired message is eventually deleted while the process lives.
ExpiryCleanup ==
    \A k \in Keys :
        (k \in DOMAIN disk /\ disk[k].expiry <= now) ~> (k \notin DOMAIN disk \/ ~ Up)

\* A shutdown signal ends the process: the last flush cannot hang behind the
\* periodic one.
ShutdownCompletes == phase = "stopping" ~> ~ Up

\* After a clean exit every message accepted before the signal, and not dropped
\* since, is in the table, unless a transaction failed.
ShutdownKeepsAccepted ==
    phase = "stopped" /\ FlushSecs > 0 =>
        \A k \in (due.stored \cup due.queued) \cap (DOMAIN mem.msgs \cup ChanKeys) :
             k \in DOMAIN disk \cup lost
=============================================================================
