-------------------------- MODULE WriteBackProofs --------------------------
(***************************************************************************)
(* Theorems about the write-back of MsgStore, for every value of the       *)
(* constants: a drain and the commit that follows lose no update and no    *)
(* deletion made in between, a clean stop keeps what it should, and the    *)
(* store implements MessageLog, which is what this store gives the broker  *)
(* and less than the trait asks of it.                                     *)
(***************************************************************************)
EXTENDS MsgStoreLog, MsgStoreProofs, TLAPS

-----------------------------------------------------------------------------
(* The inductive invariant, on top of StoreInv. *)

\* A flusher holds something only between its drain and its commit, the shutdown flusher
\* nothing before the signal, and none deletes the row of a message in memory.
FlightOk ==
    /\ \A f \in Flushers :
          /\ flight[f].state # "commit" => DOMAIN flight[f].batch = {} /\ flight[f].removed = {}
          /\ flight[f].removed \cap DOMAIN mem.msgs = {}
    /\ phase = "run" => flight["shutdown"].state = "idle"

\* two copies of a message differ at most in their marks
SameContent(a, b) ==
    \A k \in DOMAIN a \cap DOMAIN b : a[k].topic = b[k].topic /\ a[k].expiry = b[k].expiry

\* The copies of a message in memory, in the batches and in the table agree.
CopiesAgree ==
    /\ SameContent(mem.msgs, disk)
    /\ \A f \in Flushers :
          /\ SameContent(mem.msgs, flight[f].batch) /\ SameContent(disk, flight[f].batch)
          /\ \A g \in Flushers : SameContent(flight[f].batch, flight[g].batch)

\* every mark of this map stands for a message that get handed out
Real(msgs) == \A k \in DOMAIN msgs : \A c \in msgs[k].delivered : <<c, k>> \in handed

\* Marks are of real deliveries; a message comes without any.
MarksReal ==
    Up => /\ \A i \in DOMAIN chan : chan[i].msg.delivered = {}
          /\ Real(mem.msgs)
          /\ \A f \in Flushers : Real(flight[f].batch)

Batch == flight["periodic"].batch

\* What the running process drained and did not commit yet: what changed since is dirty
\* again, and what was dropped since is to be deleted.
BatchFollowed ==
    phase = "run" => \A k \in DOMAIN Batch :
        IF k \in DOMAIN mem.msgs THEN k \in mem.dirty \/ Batch[k] = mem.msgs[k]
                                 ELSE k \in mem.removed

\* table, batch, memory: none has a mark that a later one lacks
Grows(a, b) == \A k \in DOMAIN a \cap DOMAIN b : a[k].delivered \subseteq b[k].delivered

MarksGrow ==
    phase = "run" => Grows(disk, Batch) /\ Grows(disk, mem.msgs) /\ Grows(Batch, mem.msgs)

\* A message that was in memory when the signal came is in the table or on its way there;
\* dirty counts only until the shutdown flusher has drained it.
Absorbed ==
    phase \in {"stopping", "stopped"} =>
        \A k \in due.stored \cap DOMAIN mem.msgs :
            \/ k \in DOMAIN disk \/ k \in lost
            \/ \E f \in Flushers : k \in DOMAIN flight[f].batch
            \/ k \in mem.dirty /\ flight["shutdown"].state = "idle"

\* No message that arrives after the signal has the id of one that was in memory then.
DueKnown ==
    phase = "stopping" =>
        /\ due.stored \cap (pending \cup ChanKeys) = {}
        /\ \A k \in due.stored : k[1] = node => k[2] < counter

\* main does not return before its flush did
StoppedAfterFlush == phase = "stopped" /\ FlushSecs > 0 => flight["shutdown"].state = "done"

WriteBackInv ==
    /\ FlightOk /\ CopiesAgree /\ MarksReal /\ BatchFollowed /\ MarksGrow
    /\ WriteBackCoherent /\ RemovalsScheduled /\ Absorbed /\ DueKnown /\ StoppedAfterFlush

-----------------------------------------------------------------------------
(* What the steps that change the memory state do to it. *)

\* evict keeps the dirty ids it does not drop.
LEMMA EvictDirty ==
    ASSUME NEW m, MemOK(m), NEW t
    PROVE  Evict(m, t).dirty = m.dirty \cap DOMAIN Evict(m, t).msgs
<1>1. m \in MemState /\ m.dirty \subseteq DOMAIN m.msgs
  BY DEF MemOK, WriteSets
<1>2. PICK n \in 0 .. Len(m.order) : Evict(m, t) = PopFront(m, n)
  BY <1>1, EvictPops
<1>. DEFINE popped == {m.order[i] : i \in 1 .. n} \cap DOMAIN m.msgs
<1>3. Evict(m, t).dirty = m.dirty \ popped /\ DOMAIN Evict(m, t).msgs = DOMAIN m.msgs \ popped
  BY <1>2 DEF PopFront, Restrict
<1>4. QED  BY <1>1, <1>3

\* The writer task adds one message under a new id; evict may drop it at once.
LEMMA RecvEffect ==
    ASSUME StoreInv, WriterRecv, NEW key, key = Head(chan).key
    PROVE  /\ key \in Keys /\ key \notin UsedKeys /\ Head(chan).msg \in StoredMsg
           /\ DOMAIN mem'.msgs \subseteq DOMAIN mem.msgs \cup {key}
           /\ mem'.removed = mem.removed \cup ((DOMAIN mem.msgs \cup {key}) \ DOMAIN mem'.msgs)
           /\ key \in DOMAIN mem'.msgs => mem'.msgs[key] = Head(chan).msg /\ key \in mem'.dirty
           /\ \A k \in DOMAIN mem.msgs \cap DOMAIN mem'.msgs :
                 k # key /\ mem'.msgs[k] = mem.msgs[k] /\ (k \in mem.dirty => k \in mem'.dirty)
<1>. DEFINE m == Insert(mem, key, Head(chan).msg)
<1>1. TypeOK /\ MemOK(mem) /\ FreshIds
  BY MemInv DEF StoreInv
<1>2. Up /\ chan # << >> /\ chan' = Tail(chan) /\ ChanDistinct /\ mem' = Evict(m, now)
  BY <1>1 DEF WriterRecv, FreshIds, ChanDistinct
<1>3. key \in Keys /\ Head(chan).msg \in StoredMsg /\ key \in ChanKeys
  BY <1>1, <1>2, ChanTail
<1>4. key \notin UsedKeys
  BY <1>1, <1>2, <1>3 DEF FreshIds
<1>5. key \notin DOMAIN mem.msgs /\ key \notin mem.removed
  BY <1>4 DEF UsedKeys
<1>6. /\ MemOK(m) /\ DOMAIN m.msgs = DOMAIN mem.msgs \cup {key}
      /\ \A k \in DOMAIN mem.msgs : m.msgs[k] = mem.msgs[k]
  BY <1>1, <1>3, <1>5, InsertOK
<1>7. m.msgs[key] = Head(chan).msg /\ m.dirty = mem.dirty \cup {key} /\ m.removed = mem.removed \ {key}
  BY DEF Insert
<1>. HIDE DEF m
<1>8. /\ DOMAIN mem'.msgs \subseteq DOMAIN m.msgs
      /\ \A k \in DOMAIN mem'.msgs : mem'.msgs[k] = m.msgs[k]
      /\ mem'.removed = m.removed \cup (DOMAIN m.msgs \ DOMAIN mem'.msgs)
      /\ mem'.dirty = m.dirty \cap DOMAIN mem'.msgs
  BY <1>2, <1>6, EvictOK, EvictDirty
<1>9. QED  BY <1>3, <1>4, <1>5, <1>6, <1>7, <1>8

\* get drops what evict drops and marks what it hands out: every message of the filter
\* that has not expired and does not carry the client's mark.
LEMMA GetEffect ==
    ASSUME StoreInv, NEW c \in Clients, NEW f \in Filters, Get(c, f),
           NEW ids, ids = Selected(Evict(mem, now), c, f, now)
    PROVE  /\ DOMAIN mem'.msgs \subseteq DOMAIN mem.msgs
           /\ mem'.removed = mem.removed \cup (DOMAIN mem.msgs \ DOMAIN mem'.msgs)
           /\ ids = {k \in DOMAIN mem'.msgs : /\ mem.msgs[k].topic \in f /\ ~ (mem.msgs[k].expiry <= now)
                                              /\ c \notin mem.msgs[k].delivered}
           /\ \A k \in DOMAIN mem'.msgs :
                 /\ k \in mem.dirty \cup ids => k \in mem'.dirty
                 /\ mem'.msgs[k].topic = mem.msgs[k].topic /\ mem'.msgs[k].expiry = mem.msgs[k].expiry
                 /\ IF k \in ids THEN mem'.msgs[k].delivered = mem.msgs[k].delivered \cup {c}
                                 ELSE mem'.msgs[k] = mem.msgs[k]
<1>. DEFINE m == Evict(mem, now)
<1>1. TypeOK /\ MemOK(mem)
  BY MemInv DEF StoreInv
<1>2. /\ MemOK(m) /\ DOMAIN m.msgs \subseteq DOMAIN mem.msgs
      /\ \A k \in DOMAIN m.msgs : m.msgs[k] = mem.msgs[k]
      /\ m.removed = mem.removed \cup (DOMAIN mem.msgs \ DOMAIN m.msgs)
      /\ m.dirty = mem.dirty \cap DOMAIN m.msgs
  BY <1>1, EvictOK, EvictDirty
<1>3. mem' = Mark(m, c, ids) /\ ids = Selected(m, c, f, now)
  BY DEF Get
<1>. HIDE DEF m
<1>4. m \in MemState /\ TopicIndex(m) /\ m.msgs \in [DOMAIN m.msgs -> StoredMsg]
  BY <1>2, MsgMapElim DEF MemOK, MemState
<1>5. ids \in SUBSET DOMAIN m.msgs
  BY <1>3, <1>4, SelectedType
<1>6. DOMAIN mem'.msgs = DOMAIN m.msgs /\ mem'.removed = m.removed
  BY <1>2, <1>3, <1>5, MarkOK
<1>7. /\ mem'.dirty = m.dirty \cup ids
      /\ mem'.msgs = [k \in DOMAIN m.msgs |->
                         IF k \in ids THEN [m.msgs[k] EXCEPT !.delivered = @ \cup {c}] ELSE m.msgs[k]]
  BY <1>3, <1>4 DEF Mark, MemState
<1>8. ASSUME NEW k \in DOMAIN m.msgs
      PROVE  /\ mem'.msgs[k].topic = m.msgs[k].topic /\ mem'.msgs[k].expiry = m.msgs[k].expiry
             /\ IF k \in ids THEN mem'.msgs[k].delivered = m.msgs[k].delivered \cup {c}
                             ELSE mem'.msgs[k] = m.msgs[k]
  <2>1. m.msgs[k] \in StoredMsg
    BY <1>4
  <2>2. QED  BY <1>7, <2>1 DEF StoredMsg
<1>9. ids = {k \in DOMAIN m.msgs : /\ m.msgs[k].topic \in f /\ ~ (m.msgs[k].expiry <= now)
                                   /\ c \notin m.msgs[k].delivered}
  <2>1. f \subseteq Topics
    BY SetAssumption
  <2>2. \A k \in DOMAIN m.msgs : k \in UNION {m.byTopic[topic] : topic \in f} <=> m.msgs[k].topic \in f
    BY <1>4, <2>1 DEF TopicIndex
  <2>3. QED  BY <1>3, <2>2 DEF Selected, Expired
<1>10. QED  BY <1>2, <1>5, <1>6, <1>7, <1>8, <1>9

\* A drain takes over the dirty messages and the deletions, those of this evict included.
LEMMA DrainEffect ==
    ASSUME StoreInv, FlightOk, NEW f \in Flushers, FlushBegin(f)
    PROVE  /\ DOMAIN mem'.msgs \subseteq DOMAIN mem.msgs
           /\ \A k \in DOMAIN mem'.msgs : mem'.msgs[k] = mem.msgs[k]
           /\ mem'.dirty = {} /\ mem'.removed = {}
           /\ flight[f].state = "idle" /\ DOMAIN flight[f].batch = {} /\ flight[f].removed = {}
           /\ DOMAIN flight'[f].batch = mem.dirty \cap DOMAIN mem'.msgs
           /\ \A k \in DOMAIN flight'[f].batch : flight'[f].batch[k] = mem.msgs[k]
           /\ flight'[f].removed = mem.removed \cup (DOMAIN mem.msgs \ DOMAIN mem'.msgs)
           /\ flight'[f].state # "commit" => DOMAIN flight'[f].batch = {} /\ flight'[f].removed = {}
           /\ flight'[f].state = "idle" => f = "periodic"
           /\ \A g \in Flushers : g # f => flight'[g] = flight[g]
<1>. DEFINE m == Evict(mem, now)
            b == Restrict(m.msgs, m.dirty \cap DOMAIN m.msgs)
<1>1. TypeOK /\ MemOK(mem)
  BY MemInv DEF StoreInv
<1>2. /\ MemOK(m) /\ DOMAIN m.msgs \subseteq DOMAIN mem.msgs
      /\ \A k \in DOMAIN m.msgs : m.msgs[k] = mem.msgs[k]
      /\ m.removed = mem.removed \cup (DOMAIN mem.msgs \ DOMAIN m.msgs)
      /\ m.dirty = mem.dirty \cap DOMAIN m.msgs
  BY <1>1, EvictOK, EvictDirty
<1>3. /\ mem' = [m EXCEPT !.dirty = {}, !.removed = {}]
      /\ flight' = [flight EXCEPT ![f] =
                       IF DOMAIN b = {} /\ m.removed = {} THEN Returned(f)
                       ELSE [state |-> "commit", batch |-> b, removed |-> m.removed]]
      /\ flight[f].state = "idle"
  BY DEF FlushBegin, MayFlush
<1>. HIDE DEF m
<1>4. DOMAIN b = mem.dirty \cap DOMAIN m.msgs /\ \A k \in DOMAIN b : b[k] = mem.msgs[k]
  BY <1>2 DEF Restrict
<1>. HIDE DEF b
<1>5. mem'.msgs = m.msgs /\ mem'.removed = {}
  BY <1>2, <1>3, DrainOK
<1>6. mem'.dirty = {}
  BY <1>2, <1>3 DEF MemOK, MemState
<1>7. DOMAIN flight[f].batch = {} /\ flight[f].removed = {}
  BY <1>3 DEF FlightOk
<1>8. \A g \in Flushers : g # f => flight'[g] = flight[g]
  BY <1>1, <1>3 DEF TypeOK
<1>9. flight'[f] = IF DOMAIN b = {} /\ m.removed = {} THEN Returned(f)
                   ELSE [state |-> "commit", batch |-> b, removed |-> m.removed]
  BY <1>1, <1>3 DEF TypeOK
<1>10. /\ Returned(f).batch = NoMsgs /\ DOMAIN NoMsgs = {} /\ Returned(f).removed = {}
       /\ Returned(f).state # "commit" /\ (Returned(f).state = "idle" => f = "periodic")
  BY EmptyTypes DEF Returned, IdleFlight, Flushers
<1>11. CASE DOMAIN b = {} /\ m.removed = {}
  BY <1>2, <1>3, <1>4, <1>5, <1>6, <1>7, <1>8, <1>9, <1>10, <1>11
<1>12. CASE ~ (DOMAIN b = {} /\ m.removed = {})
  BY <1>2, <1>3, <1>4, <1>5, <1>6, <1>7, <1>8, <1>9, <1>12
<1>13. QED  BY <1>11, <1>12

\* A transaction that ends leaves its flusher with nothing; a commit is in the table.
LEMMA ReturnEffect ==
    ASSUME TypeOK, NEW f \in Flushers, FlushCommit(f) \/ FlushFail(f)
    PROVE  /\ flight[f].state = "commit" /\ Up /\ UNCHANGED <<phase, now, chan, mem, handed, skipped, due>>
           /\ flight'[f].state # "commit" /\ (flight'[f].state = "idle" => f = "periodic")
           /\ DOMAIN flight'[f].batch = {} /\ flight'[f].removed = {}
           /\ \A g \in Flushers : g # f => flight'[g] = flight[g]
           /\ FlushCommit(f) =>
                 /\ DOMAIN disk' = (DOMAIN disk \ flight[f].removed) \cup DOMAIN flight[f].batch
                 /\ \A k \in DOMAIN disk' :
                       disk'[k] = IF k \in DOMAIN flight[f].batch THEN flight[f].batch[k] ELSE disk[k]
                 /\ lost' = lost \ (DOMAIN flight[f].batch \cup flight[f].removed)
           /\ FlushFail(f) =>
                 disk' = disk /\ lost' = lost \cup DOMAIN flight[f].batch \cup flight[f].removed
<1>1. /\ flight[f].state = "commit" /\ Up /\ UNCHANGED <<phase, now, chan, mem, handed, skipped, due>>
      /\ flight' = [flight EXCEPT ![f] = Returned(f)]
  BY DEF FlushCommit, FlushFail
<1>2. flight'[f] = Returned(f) /\ \A g \in Flushers : g # f => flight'[g] = flight[g]
  BY <1>1 DEF TypeOK
<1>3. /\ Returned(f).batch = NoMsgs /\ DOMAIN NoMsgs = {} /\ Returned(f).removed = {}
      /\ Returned(f).state # "commit" /\ (Returned(f).state = "idle" => f = "periodic")
  BY EmptyTypes DEF Returned, IdleFlight, Flushers
<1>4. FlushCommit(f) =>
         /\ DOMAIN disk' = (DOMAIN disk \ flight[f].removed) \cup DOMAIN flight[f].batch
         /\ \A k \in DOMAIN disk' :
               disk'[k] = IF k \in DOMAIN flight[f].batch THEN flight[f].batch[k] ELSE disk[k]
         /\ lost' = lost \ (DOMAIN flight[f].batch \cup flight[f].removed)
  BY DEF FlushCommit, Committed
<1>5. FlushFail(f) =>
         disk' = disk /\ lost' = lost \cup DOMAIN flight[f].batch \cup flight[f].removed
  BY DEF FlushFail
<1>6. QED  BY <1>1, <1>2, <1>3, <1>4, <1>5

\* A crash leaves nothing in memory, a start what the table holds and has not expired;
\* after neither is anything drained.
LEMMA RestartEffect ==
    ASSUME TypeOK, Crash \/ \E n \in NodeIds : Open(n)
    PROVE  /\ disk' = disk /\ DOMAIN mem'.msgs \subseteq DOMAIN disk
           /\ \A k \in DOMAIN mem'.msgs : mem'.msgs[k] = disk[k]
           /\ \A f \in Flushers : /\ flight'[f].state = "idle" /\ DOMAIN flight'[f].batch = {}
                                  /\ flight'[f].removed = {}
           /\ due' = NothingDue /\ phase' \in {"run", "killed"}
           /\ phase' = "run" => /\ DOMAIN mem'.msgs = Loaded(now) /\ chan' = << >>
                                /\ skipped' = DOMAIN disk \ DOMAIN mem'.msgs
                                /\ handed' = UNION {disk[k].delivered \X {k} : k \in DOMAIN disk}
<1>1. DOMAIN NoMsgs = {}
  BY EmptyTypes
<1>2. \A f \in Flushers : flight'[f] = IdleFlight
  BY DEF Crash, Open
<1>3. CASE Crash
  BY <1>1, <1>2, <1>3 DEF Crash, EmptyMem, IdleFlight
<1>4. ASSUME NEW n \in NodeIds, Open(n)
      PROVE  /\ DOMAIN mem'.msgs \subseteq DOMAIN disk /\ DOMAIN mem'.msgs = Loaded(now)
             /\ \A k \in DOMAIN mem'.msgs : mem'.msgs[k] = disk[k]
             /\ skipped' = DOMAIN disk \ DOMAIN mem'.msgs
  <2>1. mem'.msgs = Restrict(disk, Loaded(now))
    BY <1>4, OpenMem
  <2>2. Loaded(now) \subseteq DOMAIN disk
    BY DEF Loaded
  <2>3. QED  BY <1>4, <2>1, <2>2 DEF Restrict, Open
<1>5. ASSUME NEW n \in NodeIds, Open(n)
      PROVE  /\ disk' = disk /\ due' = NothingDue /\ phase' = "run" /\ chan' = << >>
             /\ handed' = UNION {disk[k].delivered \X {k} : k \in DOMAIN disk}
  BY <1>5 DEF Open
<1>6. QED  BY <1>1, <1>2, <1>3, <1>4, <1>5 DEF IdleFlight

\* the steps that leave memory, batches and table alone
Quiet ==
    /\ UNCHANGED <<mem, flight, disk, handed, lost, skipped>>
    /\ \/ phase' = phase /\ due' = due
       \/ phase = "run" /\ phase' = "stopping" /\ due'.stored = DOMAIN mem.msgs
       \/ /\ phase = "stopping" /\ phase' = "stopped" /\ due' = due
          /\ FlushSecs > 0 => flight["shutdown"].state = "done"

\* Every step is of one of these kinds.
LEMMA StepKinds ==
    ASSUME [Next]_vars
    PROVE  \/ WriterRecv
           \/ \E c \in Clients, f \in Filters : Get(c, f)
           \/ \E f \in Flushers : FlushBegin(f)
           \/ \E f \in Flushers : FlushCommit(f) \/ FlushFail(f)
           \/ Crash \/ \E n \in NodeIds : Open(n)
           \/ Quiet
<1>1. NextMsgId \/ Tick \/ UNCHANGED vars => Quiet
  BY DEF NextMsgId, Tick, vars, histVars, Quiet
<1>2. ASSUME NEW key, NEW topic, NEW size, NEW ttl, Store(key, topic, size, ttl) PROVE Quiet
  BY <1>2 DEF Store, histVars, Quiet
<1>3. ShutdownSignal \/ Exit => Quiet
  BY DEF ShutdownSignal, Exit, histVars, Quiet
<1>4. QED  BY <1>1, <1>2, <1>3 DEF Next

-----------------------------------------------------------------------------
(* The parts of the invariant are kept. *)

\* Every step keeps FlightOk.
LEMMA FlightOkKept == ASSUME StoreInv, FlightOk, [Next]_vars PROVE FlightOk'
<1>1. TypeOK /\ MemOK(mem) /\ WriteSets(mem)
  BY MemInv DEF StoreInv, IndexConsistent
<1>2. CASE WriterRecv
  <2>1. flight' = flight /\ phase' = phase
    BY <1>2 DEF WriterRecv
  <2>2. PICK key : key = Head(chan).key
    OBVIOUS
  <2>3. key \notin UsedKeys /\ DOMAIN mem'.msgs \subseteq DOMAIN mem.msgs \cup {key}
    BY <1>2, <2>2, RecvEffect
  <2>4. \A f \in Flushers : key \notin flight[f].removed
    BY <2>3 DEF UsedKeys, FlightKeys
  <2>5. QED  BY <2>1, <2>3, <2>4 DEF FlightOk
<1>3. ASSUME NEW c \in Clients, NEW f \in Filters, Get(c, f) PROVE FlightOk'
  <2>1. flight' = flight /\ phase' = phase
    BY <1>3 DEF Get
  <2>2. DOMAIN mem'.msgs \subseteq DOMAIN mem.msgs
    BY <1>3, GetEffect
  <2>3. QED  BY <2>1, <2>2 DEF FlightOk
<1>4. ASSUME NEW f \in Flushers, FlushBegin(f) PROVE FlightOk'
  <2>1. phase' = phase /\ (f = "periodic" \/ phase = "stopping")
    BY <1>4 DEF FlushBegin, MayFlush
  <2>2. flight'[f].removed \cap DOMAIN mem'.msgs = {}
    BY <1>1, <1>4, DrainEffect DEF WriteSets
  <2>3. \A g \in Flushers : /\ flight'[g].state # "commit" =>
                                 DOMAIN flight'[g].batch = {} /\ flight'[g].removed = {}
                            /\ flight'[g].removed \cap DOMAIN mem'.msgs = {}
    BY <1>4, <2>2, DrainEffect DEF FlightOk
  <2>4. phase' = "run" => flight'["shutdown"].state = "idle"
    BY <1>4, <2>1, DrainEffect DEF FlightOk, Flushers
  <2>5. QED  BY <2>3, <2>4 DEF FlightOk
<1>5. ASSUME NEW f \in Flushers, FlushCommit(f) \/ FlushFail(f) PROVE FlightOk'
  BY <1>1, <1>5, ReturnEffect DEF FlightOk, Flushers
<1>6. CASE Crash \/ \E n \in NodeIds : Open(n)
  BY <1>1, <1>6, RestartEffect DEF FlightOk, Flushers
<1>7. CASE Quiet
  BY <1>7 DEF FlightOk, Quiet
<1>8. QED  BY <1>2, <1>3, <1>4, <1>5, <1>6, <1>7, StepKinds

\* Every step keeps CopiesAgree.
LEMMA CopiesAgreeKept ==
    ASSUME StoreInv, FlightOk, CopiesAgree, [Next]_vars
    PROVE  CopiesAgree'
<1>1. TypeOK
  BY DEF StoreInv
<1>2. CASE WriterRecv
  <2>1. flight' = flight /\ disk' = disk
    BY <1>2 DEF WriterRecv
  <2>2. PICK key : key = Head(chan).key
    OBVIOUS
  <2>3. /\ key \notin DOMAIN disk /\ \A f \in Flushers : key \notin DOMAIN flight[f].batch
        /\ DOMAIN mem'.msgs \subseteq DOMAIN mem.msgs \cup {key}
        /\ \A k \in DOMAIN mem'.msgs : k # key => mem'.msgs[k] = mem.msgs[k]
    BY <1>2, <2>2, RecvEffect DEF UsedKeys, FlightKeys
  <2>4. QED  BY <2>1, <2>3 DEF CopiesAgree, SameContent
<1>3. ASSUME NEW c \in Clients, NEW f \in Filters, Get(c, f) PROVE CopiesAgree'
  <2>1. flight' = flight /\ disk' = disk
    BY <1>3 DEF Get
  <2>2. /\ DOMAIN mem'.msgs \subseteq DOMAIN mem.msgs
        /\ \A k \in DOMAIN mem'.msgs : /\ mem'.msgs[k].topic = mem.msgs[k].topic
                                       /\ mem'.msgs[k].expiry = mem.msgs[k].expiry
    BY <1>3, GetEffect
  <2>3. QED  BY <2>1, <2>2 DEF CopiesAgree, SameContent
<1>4. ASSUME NEW f \in Flushers, FlushBegin(f) PROVE CopiesAgree'
  <2>1. disk' = disk
    BY <1>4 DEF FlushBegin
  <2>2. /\ DOMAIN mem'.msgs \subseteq DOMAIN mem.msgs
        /\ \A k \in DOMAIN mem'.msgs : mem'.msgs[k] = mem.msgs[k]
        /\ DOMAIN flight'[f].batch \subseteq DOMAIN mem.msgs
        /\ \A k \in DOMAIN flight'[f].batch : flight'[f].batch[k] = mem.msgs[k]
        /\ \A g \in Flushers : g # f => flight'[g] = flight[g]
    BY <1>4, DrainEffect
  <2>3. QED  BY <2>1, <2>2 DEF CopiesAgree, SameContent
<1>5. ASSUME NEW f \in Flushers, FlushCommit(f) \/ FlushFail(f) PROVE CopiesAgree'
  <2>1. \A k \in DOMAIN disk' : \/ k \in DOMAIN disk /\ disk'[k] = disk[k]
                                \/ k \in DOMAIN flight[f].batch /\ disk'[k] = flight[f].batch[k]
    BY <1>1, <1>5, ReturnEffect
  <2>2. /\ mem' = mem /\ DOMAIN flight'[f].batch = {}
        /\ \A g \in Flushers : g # f => flight'[g] = flight[g]
    BY <1>1, <1>5, ReturnEffect
  <2>3. QED  BY <2>1, <2>2 DEF CopiesAgree, SameContent
<1>6. CASE Crash \/ \E n \in NodeIds : Open(n)
  BY <1>1, <1>6, RestartEffect DEF CopiesAgree, SameContent
<1>7. CASE Quiet
  BY <1>7 DEF CopiesAgree, Quiet
<1>8. QED  BY <1>2, <1>3, <1>4, <1>5, <1>6, <1>7, StepKinds

\* A message on its way to the writer task carries no mark.
LEMMA ChanUnmarked ==
    ASSUME TypeOK, [Next]_vars, \A i \in DOMAIN chan : chan[i].msg.delivered = {}
    PROVE  \A i \in DOMAIN chan' : chan'[i].msg.delivered = {}
<1>1. chan \in Seq([key : Keys, msg : StoredMsg])
  BY DEF TypeOK
<1>2. CASE WriterRecv
  <2>1. chan # << >> /\ chan' = Tail(chan)
    BY <1>2 DEF WriterRecv
  <2>2. Len(chan) \in Nat /\ DOMAIN chan = 1 .. Len(chan)
    BY <1>1, LenProperties
  <2>3. /\ DOMAIN chan' = 1 .. Len(chan) - 1
        /\ \A i \in DOMAIN chan' : i + 1 \in DOMAIN chan /\ chan'[i] = chan[i + 1]
    BY <1>1, <2>1, <2>2, HeadTailProperties
  <2>4. QED  BY <2>3
<1>3. ASSUME NEW key \in pending, NEW topic \in Topics, NEW size \in Sizes, NEW ttl \in Ttls,
             Store(key, topic, size, ttl)
      PROVE  \A i \in DOMAIN chan' : chan'[i].msg.delivered = {}
  <2>. DEFINE e == [key |-> key,
                    msg |-> [topic |-> topic, size |-> size, expiry |-> now + ttl, delivered |-> {}]]
  <2>1. chan' = Append(chan, e) /\ e.msg.delivered = {}
    BY <1>3 DEF Store
  <2>. HIDE DEF e
  <2>2. \A i \in DOMAIN chan' : (i \in DOMAIN chan /\ chan'[i] = chan[i]) \/ chan'[i] = e
    BY <1>1, <2>1
  <2>3. QED  BY <2>1, <2>2
<1>4. CASE chan' = << >>
  BY <1>4
<1>5. CASE chan' = chan
  BY <1>5
<1>6. \/ WriterRecv \/ chan' = << >> \/ chan' = chan
      \/ \E key \in pending, topic \in Topics, size \in Sizes, ttl \in Ttls : Store(key, topic, size, ttl)
  BY DEF Next, NextMsgId, Get, FlushBegin, FlushCommit, FlushFail, Tick, ShutdownSignal, Exit,
         Crash,
         Open, vars
<1>7. QED  BY <1>2, <1>3, <1>4, <1>5, <1>6

\* Every step keeps MarksReal: get records what it marks, a start what the rows carry.
LEMMA MarksRealKept ==
    ASSUME StoreInv, FlightOk, MarksReal, [Next]_vars
    PROVE  MarksReal'
<1>1. TypeOK
  BY DEF StoreInv
<1>2. Up => \A i \in DOMAIN chan' : chan'[i].msg.delivered = {}
  BY <1>1, ChanUnmarked DEF MarksReal
<1>3. CASE WriterRecv
  <2>1. Up /\ UNCHANGED <<flight, handed>>
    BY <1>3 DEF WriterRecv, histVars
  <2>2. PICK key : key = Head(chan).key
    OBVIOUS
  <2>3. Head(chan).msg.delivered = {}
    BY <1>1, <1>3, <2>1 DEF MarksReal, WriterRecv, TypeOK
  <2>4. \A k \in DOMAIN mem'.msgs : \/ mem'.msgs[k] = Head(chan).msg
                                    \/ k \in DOMAIN mem.msgs /\ mem'.msgs[k] = mem.msgs[k]
    BY <1>3, <2>2, RecvEffect
  <2>5. Real(mem.msgs)'
    BY <2>1, <2>3, <2>4 DEF MarksReal, Real
  <2>6. QED  BY <1>2, <2>1, <2>5 DEF MarksReal, Real
<1>4. ASSUME NEW c \in Clients, NEW f \in Filters, Get(c, f) PROVE MarksReal'
  <2>1. PICK ids : ids = Selected(Evict(mem, now), c, f, now)
    OBVIOUS
  <2>2. Up /\ flight' = flight /\ handed' = handed \cup ({c} \X ids)
    BY <1>4, <2>1 DEF Get
  <2>3. \A k \in DOMAIN mem'.msgs :
           /\ k \in DOMAIN mem.msgs
           /\ IF k \in ids THEN mem'.msgs[k].delivered = mem.msgs[k].delivered \cup {c}
                           ELSE mem'.msgs[k] = mem.msgs[k]
    BY <1>4, <2>1, GetEffect
  <2>4. Real(mem.msgs)'
    BY <2>2, <2>3 DEF MarksReal, Real
  <2>5. QED  BY <1>2, <2>2, <2>4 DEF MarksReal, Real
<1>5. ASSUME NEW f \in Flushers, FlushBegin(f) PROVE MarksReal'
  <2>1. Up /\ handed' = handed
    BY <1>5 DEF FlushBegin, histVars
  <2>2. /\ DOMAIN mem'.msgs \subseteq DOMAIN mem.msgs
        /\ \A k \in DOMAIN mem'.msgs : mem'.msgs[k] = mem.msgs[k]
        /\ DOMAIN flight'[f].batch \subseteq DOMAIN mem.msgs
        /\ \A k \in DOMAIN flight'[f].batch : flight'[f].batch[k] = mem.msgs[k]
        /\ \A g \in Flushers : g # f => flight'[g] = flight[g]
    BY <1>5, DrainEffect
  <2>3. QED  BY <1>2, <2>1, <2>2 DEF MarksReal, Real
<1>6. ASSUME NEW f \in Flushers, FlushCommit(f) \/ FlushFail(f) PROVE MarksReal'
  BY <1>1, <1>2, <1>6, ReturnEffect DEF MarksReal, Real
<1>7. CASE Crash \/ \E n \in NodeIds : Open(n)
  <2>1. SUFFICES ASSUME Up' PROVE MarksReal'
    BY DEF MarksReal
  <2>2. phase' = "run"
    BY <1>1, <1>7, <2>1, RestartEffect DEF Up
  <2>3. /\ chan' = << >> /\ \A f \in Flushers : DOMAIN flight'[f].batch = {}
        /\ handed' = UNION {disk[k].delivered \X {k} : k \in DOMAIN disk}
        /\ \A k \in DOMAIN mem'.msgs : k \in DOMAIN disk /\ mem'.msgs[k] = disk[k]
    BY <1>1, <1>7, <2>2, RestartEffect
  <2>4. QED  BY <2>3 DEF MarksReal, Real
<1>8. CASE Quiet
  BY <1>2, <1>8 DEF MarksReal, Real, Quiet, Up
<1>9. QED  BY <1>3, <1>4, <1>5, <1>6, <1>7, <1>8, StepKinds

\* Every step keeps BatchFollowed.
LEMMA BatchFollowedKept ==
    ASSUME StoreInv, FlightOk, BatchFollowed, [Next]_vars
    PROVE  BatchFollowed'
<1>. SUFFICES ASSUME phase' = "run" PROVE BatchFollowed'
  BY DEF BatchFollowed
<1>1. TypeOK /\ "periodic" \in Flushers
  BY DEF StoreInv, Flushers
<1>2. CASE WriterRecv
  <2>1. UNCHANGED <<flight, phase>>
    BY <1>2 DEF WriterRecv
  <2>2. PICK key : key = Head(chan).key
    OBVIOUS
  <2>3. key \notin DOMAIN Batch /\ key \notin DOMAIN mem.msgs
    BY <1>1, <1>2, <2>2, RecvEffect DEF UsedKeys, FlightKeys, Batch
  <2>4. /\ DOMAIN mem'.msgs \subseteq DOMAIN mem.msgs \cup {key}
        /\ \A k \in DOMAIN mem.msgs \ DOMAIN mem'.msgs : k \in mem'.removed
        /\ mem.removed \subseteq mem'.removed
        /\ \A k \in DOMAIN mem.msgs \cap DOMAIN mem'.msgs :
              mem'.msgs[k] = mem.msgs[k] /\ (k \in mem.dirty => k \in mem'.dirty)
    BY <1>2, <2>2, RecvEffect
  <2>5. QED  BY <2>1, <2>3, <2>4 DEF BatchFollowed, Batch
<1>3. ASSUME NEW c \in Clients, NEW f \in Filters, Get(c, f) PROVE BatchFollowed'
  <2>1. UNCHANGED <<flight, phase>>
    BY <1>3 DEF Get
  <2>2. /\ DOMAIN mem'.msgs \subseteq DOMAIN mem.msgs
        /\ \A k \in DOMAIN mem.msgs \ DOMAIN mem'.msgs : k \in mem'.removed
        /\ mem.removed \subseteq mem'.removed
        /\ \A k \in DOMAIN mem'.msgs : /\ k \in mem.dirty => k \in mem'.dirty
                                       /\ k \in mem'.dirty \/ mem'.msgs[k] = mem.msgs[k]
    BY <1>3, GetEffect
  <2>3. QED  BY <2>1, <2>2 DEF BatchFollowed, Batch
<1>4. ASSUME NEW f \in Flushers, FlushBegin(f) PROVE BatchFollowed'
  <2>1. f = "periodic"
    BY <1>4 DEF FlushBegin, MayFlush
  <2>2. /\ DOMAIN flight'[f].batch \subseteq DOMAIN mem'.msgs
        /\ \A k \in DOMAIN flight'[f].batch : flight'[f].batch[k] = mem'.msgs[k]
    BY <1>4, DrainEffect
  <2>3. QED  BY <2>1, <2>2 DEF BatchFollowed, Batch
<1>5. ASSUME NEW f \in Flushers, FlushCommit(f) \/ FlushFail(f) PROVE BatchFollowed'
  BY <1>1, <1>5, ReturnEffect DEF BatchFollowed, Batch
<1>6. CASE Crash \/ \E n \in NodeIds : Open(n)
  BY <1>1, <1>6, RestartEffect DEF BatchFollowed, Batch
<1>7. CASE Quiet
  BY <1>7 DEF BatchFollowed, Batch, Quiet
<1>8. QED  BY <1>2, <1>3, <1>4, <1>5, <1>6, <1>7, StepKinds

\* Every step keeps MarksGrow.
LEMMA MarksGrowKept ==
    ASSUME StoreInv, FlightOk, BatchFollowed, MarksGrow, [Next]_vars
    PROVE  MarksGrow'
<1>. SUFFICES ASSUME phase' = "run" PROVE MarksGrow'
  BY DEF MarksGrow
<1>1. TypeOK /\ "periodic" \in Flushers
  BY DEF StoreInv, Flushers
<1>2. CASE WriterRecv
  <2>1. UNCHANGED <<flight, phase, disk>>
    BY <1>2 DEF WriterRecv
  <2>2. PICK key : key = Head(chan).key
    OBVIOUS
  <2>3. key \notin DOMAIN Batch /\ key \notin DOMAIN disk
    BY <1>1, <1>2, <2>2, RecvEffect DEF UsedKeys, FlightKeys, Batch
  <2>4. /\ DOMAIN mem'.msgs \subseteq DOMAIN mem.msgs \cup {key}
        /\ \A k \in DOMAIN mem.msgs \cap DOMAIN mem'.msgs : mem'.msgs[k] = mem.msgs[k]
    BY <1>2, <2>2, RecvEffect
  <2>5. QED  BY <2>1, <2>3, <2>4 DEF MarksGrow, Grows, Batch
<1>3. ASSUME NEW c \in Clients, NEW f \in Filters, Get(c, f) PROVE MarksGrow'
  <2>1. UNCHANGED <<flight, phase, disk>>
    BY <1>3 DEF Get
  <2>2. /\ DOMAIN mem'.msgs \subseteq DOMAIN mem.msgs
        /\ \A k \in DOMAIN mem'.msgs : mem.msgs[k].delivered \subseteq mem'.msgs[k].delivered
    BY <1>3, GetEffect
  <2>3. QED  BY <2>1, <2>2 DEF MarksGrow, Grows, Batch
<1>4. ASSUME NEW f \in Flushers, FlushBegin(f) PROVE MarksGrow'
  <2>1. f = "periodic" /\ UNCHANGED <<phase, disk>>
    BY <1>4 DEF FlushBegin, MayFlush
  <2>2. /\ DOMAIN mem'.msgs \subseteq DOMAIN mem.msgs
        /\ \A k \in DOMAIN mem'.msgs : mem'.msgs[k] = mem.msgs[k]
        /\ DOMAIN flight'[f].batch \subseteq DOMAIN mem.msgs
        /\ \A k \in DOMAIN flight'[f].batch : flight'[f].batch[k] = mem.msgs[k]
    BY <1>4, DrainEffect
  <2>3. QED  BY <2>1, <2>2 DEF MarksGrow, Grows, Batch
<1>5. ASSUME NEW f \in Flushers, FlushCommit(f) \/ FlushFail(f) PROVE MarksGrow'
  <2>1. phase = "run" /\ flight[f].state = "commit" /\ mem' = mem
    BY <1>1, <1>5, ReturnEffect
  <2>2. f = "periodic"
    BY <2>1 DEF FlightOk, Flushers
  <2>3. \A k \in DOMAIN disk' : \/ k \in DOMAIN disk /\ disk'[k] = disk[k]
                                \/ k \in DOMAIN flight[f].batch /\ disk'[k] = flight[f].batch[k]
    BY <1>1, <1>5, ReturnEffect
  <2>4. DOMAIN flight'[f].batch = {}
    BY <1>1, <1>5, ReturnEffect
  <2>5. QED  BY <2>1, <2>2, <2>3, <2>4 DEF MarksGrow, Grows, Batch
<1>6. CASE Crash \/ \E n \in NodeIds : Open(n)
  BY <1>1, <1>6, RestartEffect DEF MarksGrow, Grows, Batch
<1>7. CASE Quiet
  BY <1>7 DEF MarksGrow, Batch, Quiet
<1>8. QED  BY <1>2, <1>3, <1>4, <1>5, <1>6, <1>7, StepKinds

\* Every step keeps WriteBackCoherent: a commit writes what memory holds, or what changed
\* since is dirty again.
LEMMA WriteBackKept ==
    ASSUME StoreInv, FlightOk, BatchFollowed, WriteBackCoherent, [Next]_vars
    PROVE  WriteBackCoherent'
<1>. SUFFICES ASSUME phase' = "run" PROVE WriteBackCoherent'
  BY DEF WriteBackCoherent
<1>1. TypeOK /\ "periodic" \in Flushers
  BY DEF StoreInv, Flushers
<1>2. CASE WriterRecv
  <2>1. UNCHANGED <<flight, phase, disk, lost>>
    BY <1>2 DEF WriterRecv, histVars
  <2>2. PICK key : key = Head(chan).key
    OBVIOUS
  <2>3. \A k \in DOMAIN mem'.msgs :
           \/ k \in mem'.dirty
           \/ k \in DOMAIN mem.msgs /\ mem'.msgs[k] = mem.msgs[k] /\ k \notin mem.dirty
    BY <1>2, <2>2, RecvEffect
  <2>4. QED  BY <2>1, <2>3 DEF WriteBackCoherent
<1>3. ASSUME NEW c \in Clients, NEW f \in Filters, Get(c, f) PROVE WriteBackCoherent'
  <2>1. UNCHANGED <<flight, phase, disk, lost>>
    BY <1>3 DEF Get
  <2>2. \A k \in DOMAIN mem'.msgs :
           \/ k \in mem'.dirty
           \/ k \in DOMAIN mem.msgs /\ mem'.msgs[k] = mem.msgs[k] /\ k \notin mem.dirty
    BY <1>3, GetEffect
  <2>3. QED  BY <2>1, <2>2 DEF WriteBackCoherent
<1>4. ASSUME NEW f \in Flushers, FlushBegin(f) PROVE WriteBackCoherent'
  <2>1. f = "periodic" /\ UNCHANGED <<phase, disk, lost>>
    BY <1>4 DEF FlushBegin, MayFlush, histVars
  <2>2. /\ DOMAIN mem'.msgs \subseteq DOMAIN mem.msgs
        /\ \A k \in DOMAIN mem'.msgs : mem'.msgs[k] = mem.msgs[k]
        /\ DOMAIN flight[f].batch = {} /\ DOMAIN flight'[f].batch = mem.dirty \cap DOMAIN mem'.msgs
    BY <1>4, DrainEffect
  <2>3. QED  BY <2>1, <2>2 DEF WriteBackCoherent
<1>5. ASSUME NEW f \in Flushers, FlushCommit(f) \/ FlushFail(f) PROVE WriteBackCoherent'
  <2>1. phase = "run" /\ flight[f].state = "commit" /\ mem' = mem
    BY <1>1, <1>5, ReturnEffect
  <2>2. f = "periodic" /\ flight[f].removed \cap DOMAIN mem.msgs = {}
    BY <2>1 DEF FlightOk, Flushers
  <2>3. CASE FlushCommit(f)
    <3>1. /\ DOMAIN disk' = (DOMAIN disk \ flight[f].removed) \cup DOMAIN flight[f].batch
          /\ \A k \in DOMAIN disk' :
                disk'[k] = IF k \in DOMAIN flight[f].batch THEN flight[f].batch[k] ELSE disk[k]
          /\ lost' = lost \ (DOMAIN flight[f].batch \cup flight[f].removed)
      BY <1>1, <2>3, ReturnEffect
    <3>2. \A k \in DOMAIN mem.msgs \cap DOMAIN flight[f].batch :
             k \in mem.dirty \/ flight[f].batch[k] = mem.msgs[k]
      BY <2>1, <2>2 DEF BatchFollowed, Batch
    <3>3. ASSUME NEW k \in DOMAIN mem.msgs
          PROVE  k \in mem.dirty \/ k \in lost' \/ (k \in DOMAIN disk' /\ disk'[k] = mem.msgs[k])
      <4>1. CASE k \in DOMAIN flight[f].batch
        BY <3>1, <3>2, <4>1
      <4>2. CASE k \notin DOMAIN flight[f].batch
        BY <2>1, <2>2, <3>1, <4>2 DEF WriteBackCoherent
      <4>3. QED  BY <4>1, <4>2
    <3>4. QED  BY <2>1, <3>3 DEF WriteBackCoherent
  <2>4. CASE FlushFail(f)
    <3>1. disk' = disk /\ lost' = lost \cup DOMAIN flight[f].batch \cup flight[f].removed
      BY <1>1, <2>4, ReturnEffect
    <3>2. QED  BY <2>1, <2>2, <3>1 DEF WriteBackCoherent
  <2>5. QED  BY <1>5, <2>3, <2>4
<1>6. CASE Crash \/ \E n \in NodeIds : Open(n)
  BY <1>1, <1>6, RestartEffect DEF WriteBackCoherent
<1>7. CASE Quiet
  BY <1>7 DEF WriteBackCoherent, Quiet
<1>8. QED  BY <1>2, <1>3, <1>4, <1>5, <1>6, <1>7, StepKinds

\* Every step keeps RemovalsScheduled: what is dropped after it was drained is to be
\* deleted when the commit has written it.
LEMMA RemovalsKept ==
    ASSUME StoreInv, FlightOk, BatchFollowed, RemovalsScheduled, [Next]_vars
    PROVE  RemovalsScheduled'
<1>. SUFFICES ASSUME phase' = "run" PROVE RemovalsScheduled'
  BY DEF RemovalsScheduled
<1>1. TypeOK /\ "periodic" \in Flushers
  BY DEF StoreInv, Flushers
<1>2. CASE WriterRecv
  <2>1. UNCHANGED <<flight, phase, disk, lost, skipped>>
    BY <1>2 DEF WriterRecv, histVars
  <2>2. PICK key : key = Head(chan).key
    OBVIOUS
  <2>3. mem'.removed = mem.removed \cup ((DOMAIN mem.msgs \cup {key}) \ DOMAIN mem'.msgs)
    BY <1>2, <2>2, RecvEffect
  <2>4. QED  BY <2>1, <2>3 DEF RemovalsScheduled
<1>3. ASSUME NEW c \in Clients, NEW f \in Filters, Get(c, f) PROVE RemovalsScheduled'
  <2>1. UNCHANGED <<flight, phase, disk, lost, skipped>>
    BY <1>3 DEF Get
  <2>2. mem'.removed = mem.removed \cup (DOMAIN mem.msgs \ DOMAIN mem'.msgs)
    BY <1>3, GetEffect
  <2>3. QED  BY <2>1, <2>2 DEF RemovalsScheduled
<1>4. ASSUME NEW f \in Flushers, FlushBegin(f) PROVE RemovalsScheduled'
  <2>1. f = "periodic" /\ UNCHANGED <<phase, disk, lost, skipped>>
    BY <1>4 DEF FlushBegin, MayFlush, histVars
  <2>2. /\ flight[f].removed = {}
        /\ flight'[f].removed = mem.removed \cup (DOMAIN mem.msgs \ DOMAIN mem'.msgs)
    BY <1>4, DrainEffect
  <2>3. QED  BY <2>1, <2>2 DEF RemovalsScheduled
<1>5. ASSUME NEW f \in Flushers, FlushCommit(f) \/ FlushFail(f) PROVE RemovalsScheduled'
  <2>1. phase = "run" /\ flight[f].state = "commit" /\ mem' = mem /\ skipped' = skipped
    BY <1>1, <1>5, ReturnEffect
  <2>2. f = "periodic"
    BY <2>1 DEF FlightOk, Flushers
  <2>3. CASE FlushCommit(f)
    <3>1. /\ DOMAIN disk' = (DOMAIN disk \ flight[f].removed) \cup DOMAIN flight[f].batch
          /\ lost' = lost \ (DOMAIN flight[f].batch \cup flight[f].removed)
      BY <1>1, <2>3, ReturnEffect
    <3>2. \A k \in DOMAIN flight[f].batch \ DOMAIN mem.msgs : k \in mem.removed
      BY <2>1, <2>2 DEF BatchFollowed, Batch
    <3>3. QED  BY <2>1, <2>2, <3>1, <3>2 DEF RemovalsScheduled
  <2>4. CASE FlushFail(f)
    <3>1. disk' = disk /\ lost' = lost \cup DOMAIN flight[f].batch \cup flight[f].removed
      BY <1>1, <2>4, ReturnEffect
    <3>2. QED  BY <2>1, <2>2, <3>1 DEF RemovalsScheduled
  <2>5. QED  BY <1>5, <2>3, <2>4
<1>6. CASE Crash \/ \E n \in NodeIds : Open(n)
  BY <1>1, <1>6, RestartEffect DEF RemovalsScheduled
<1>7. CASE Quiet
  BY <1>7 DEF RemovalsScheduled, Quiet
<1>8. QED  BY <1>2, <1>3, <1>4, <1>5, <1>6, <1>7, StepKinds

\* Every step keeps DueKnown: ids are allocated in order.
LEMMA DueKnownKept ==
    ASSUME StoreInv, DueKnown, [Next]_vars
    PROVE  DueKnown'
<1>. SUFFICES ASSUME phase' = "stopping" PROVE DueKnown'
  BY DEF DueKnown
<1>1. TypeOK /\ FreshIds /\ counter \in Nat
  BY BoundAssumption DEF StoreInv, TypeOK
<1>2. CASE NextMsgId
  <2>1. UNCHANGED <<phase, node, chan, due>> /\ counter' = counter + 1 /\ pending' = pending \cup {<<node, counter>>}
    BY <1>2 DEF NextMsgId, histVars
  <2>2. ChanKeys' = ChanKeys
    BY <2>1 DEF ChanKeys
  <2>3. due.stored \subseteq Keys
    BY <1>1 DEF TypeOK
  <2>4. \A k \in due.stored : k[2] \in Nat
    BY <2>3, BoundAssumption DEF Keys
  <2>5. <<node, counter>> \notin due.stored
    BY <1>1, <2>1 DEF DueKnown
  <2>6. QED  BY <1>1, <2>1, <2>2, <2>4, <2>5 DEF DueKnown
<1>3. ASSUME NEW key \in pending, NEW topic \in Topics, NEW size \in Sizes, NEW ttl \in Ttls,
             Store(key, topic, size, ttl)
      PROVE  DueKnown'
  <2>. DEFINE msg == [topic |-> topic, size |-> size, expiry |-> now + ttl, delivered |-> {}]
  <2>1. /\ UNCHANGED <<phase, node, counter, due>> /\ pending' = pending \ {key}
        /\ chan' = Append(chan, [key |-> key, msg |-> msg])
    BY <1>3 DEF Store, histVars
  <2>. HIDE DEF msg
  <2>2. \A i \in DOMAIN chan' : (i \in DOMAIN chan /\ chan'[i] = chan[i]) \/ chan'[i].key = key
    BY <1>1, <2>1 DEF TypeOK
  <2>3. pending' \cup ChanKeys' \subseteq pending \cup ChanKeys
    BY <2>1, <2>2 DEF ChanKeys
  <2>4. QED  BY <2>1, <2>3 DEF DueKnown
<1>4. CASE WriterRecv
  <2>1. UNCHANGED <<phase, node, counter, pending, due>> /\ chan # << >> /\ chan' = Tail(chan) /\ ChanDistinct
    BY <1>1, <1>4 DEF WriterRecv, histVars, FreshIds, ChanDistinct
  <2>2. ChanKeys' \subseteq ChanKeys
    BY <1>1, <2>1, ChanTail
  <2>3. QED  BY <2>1, <2>2 DEF DueKnown
<1>5. CASE ShutdownSignal
  <2>1. /\ UNCHANGED <<node, counter, pending, chan>> /\ phase = "run" /\ due'.stored = DOMAIN mem.msgs
    BY <1>5 DEF ShutdownSignal
  <2>2. ChanKeys' = ChanKeys
    BY <2>1 DEF ChanKeys
  <2>3. DOMAIN mem.msgs \subseteq UsedKeys
    BY DEF UsedKeys
  <2>4. QED  BY <1>1, <2>1, <2>2, <2>3 DEF DueKnown, FreshIds, Up
<1>6. CASE UNCHANGED <<phase, node, counter, pending, chan, due>>
  BY <1>6 DEF DueKnown, ChanKeys
<1>7. \/ NextMsgId \/ WriterRecv \/ ShutdownSignal
      \/ \E key \in pending, topic \in Topics, size \in Sizes, ttl \in Ttls : Store(key, topic, size, ttl)
      \/ UNCHANGED <<phase, node, counter, pending, chan, due>>
  BY DEF Next, Get, FlushBegin, FlushCommit, FlushFail, Tick, Exit, Crash, Open, vars, histVars
<1>8. QED  BY <1>2, <1>3, <1>4, <1>5, <1>6, <1>7

\* Every step keeps Absorbed.
LEMMA AbsorbedKept ==
    ASSUME StoreInv, FlightOk, WriteBackCoherent, DueKnown, Absorbed, StoppedAfterFlush, [Next]_vars
    PROVE  Absorbed' /\ StoppedAfterFlush'
<1>. DEFINE Safe(k) == \/ k \in DOMAIN disk \/ k \in lost
                       \/ \E f \in Flushers : k \in DOMAIN flight[f].batch
                       \/ k \in mem.dirty /\ flight["shutdown"].state = "idle"
<1>1. TypeOK /\ FreshIds /\ "periodic" \in Flushers /\ "shutdown" \in Flushers
  BY DEF StoreInv, Flushers
<1>2. CASE WriterRecv
  <2>1. Up /\ UNCHANGED <<flight, phase, disk, lost, due>>
    BY <1>2 DEF WriterRecv, histVars
  <2>2. PICK key : key = Head(chan).key
    OBVIOUS
  <2>3. key \in ChanKeys
    BY <1>1, <1>2, <2>1, <2>2, ChanTail DEF WriterRecv, FreshIds, ChanDistinct
  <2>4. \A k \in DOMAIN mem'.msgs : \/ k = key
                                    \/ k \in DOMAIN mem.msgs /\ (k \in mem.dirty => k \in mem'.dirty)
    BY <1>2, <2>2, RecvEffect
  <2>5. phase = "stopping" => key \notin due.stored
    BY <2>3 DEF DueKnown
  <2>6. Absorbed'
    BY <2>1, <2>4, <2>5 DEF Absorbed, Up
  <2>7. QED  BY <2>1, <2>6 DEF StoppedAfterFlush, Up
<1>3. ASSUME NEW c \in Clients, NEW f \in Filters, Get(c, f)
      PROVE  Absorbed' /\ StoppedAfterFlush'
  <2>1. Up /\ UNCHANGED <<flight, phase, disk, lost, due>>
    BY <1>3 DEF Get
  <2>2. \A k \in DOMAIN mem'.msgs : k \in DOMAIN mem.msgs /\ (k \in mem.dirty => k \in mem'.dirty)
    BY <1>3, GetEffect
  <2>3. QED  BY <2>1, <2>2 DEF Absorbed, StoppedAfterFlush, Up
<1>4. ASSUME NEW f \in Flushers, FlushBegin(f) PROVE Absorbed' /\ StoppedAfterFlush'
  <2>1. Up /\ UNCHANGED <<phase, disk, lost, due>>
    BY <1>4 DEF FlushBegin, histVars
  <2>2. /\ DOMAIN mem'.msgs \subseteq DOMAIN mem.msgs
        /\ DOMAIN flight[f].batch = {} /\ DOMAIN flight'[f].batch = mem.dirty \cap DOMAIN mem'.msgs
        /\ \A g \in Flushers : g # f => flight'[g] = flight[g]
    BY <1>4, DrainEffect
  <2>3. ASSUME NEW k \in due.stored \cap DOMAIN mem'.msgs, phase = "stopping"
        PROVE  k \in DOMAIN disk \/ k \in lost \/ \E g \in Flushers : k \in DOMAIN flight'[g].batch
    <3>1. Safe(k)
      BY <2>2, <2>3 DEF Absorbed
    <3>2. CASE k \in mem.dirty
      BY <2>2, <3>2
    <3>3. CASE \E g \in Flushers : k \in DOMAIN flight[g].batch
      <4>1. PICK g \in Flushers : k \in DOMAIN flight[g].batch
        BY <3>3
      <4>2. QED  BY <2>2, <4>1
    <3>4. QED  BY <3>1, <3>2, <3>3
  <2>4. QED  BY <2>1, <2>3 DEF Absorbed, StoppedAfterFlush, Up
<1>5. ASSUME NEW f \in Flushers, FlushCommit(f) \/ FlushFail(f)
      PROVE  Absorbed' /\ StoppedAfterFlush'
  <2>1. flight[f].state = "commit" /\ Up /\ UNCHANGED <<phase, mem, due>>
    BY <1>1, <1>5, ReturnEffect
  <2>2. flight[f].removed \cap DOMAIN mem.msgs = {}
    BY DEF FlightOk
  <2>3. \A g \in Flushers : g # f => flight'[g] = flight[g]
    BY <1>1, <1>5, ReturnEffect
  <2>4. \A k \in DOMAIN flight[f].batch : k \in DOMAIN disk' \/ k \in lost'
    BY <1>1, <1>5, ReturnEffect
  <2>5. \A k \in DOMAIN mem.msgs : k \in DOMAIN disk \/ k \in lost => k \in DOMAIN disk' \/ k \in lost'
    BY <1>1, <1>5, <2>2, ReturnEffect
  <2>6. ASSUME NEW k \in due.stored \cap DOMAIN mem'.msgs, phase = "stopping" PROVE Safe(k)'
    <3>1. Safe(k) /\ k \in DOMAIN mem.msgs
      BY <2>1, <2>6 DEF Absorbed
    <3>2. CASE \E g \in Flushers : k \in DOMAIN flight[g].batch
      <4>1. PICK g \in Flushers : k \in DOMAIN flight[g].batch
        BY <3>2
      <4>2. QED  BY <2>3, <2>4, <4>1
    <3>3. CASE k \in mem.dirty /\ flight["shutdown"].state = "idle"
      <4>1. flight'["shutdown"] = flight["shutdown"]
        BY <1>1, <2>1, <2>3, <3>3
      <4>2. QED  BY <2>1, <3>3, <4>1
    <3>4. QED  BY <2>5, <3>1, <3>2, <3>3
  <2>7. QED  BY <2>1, <2>6 DEF Absorbed, StoppedAfterFlush, Up
<1>6. CASE Crash \/ \E n \in NodeIds : Open(n)
  BY <1>1, <1>6, RestartEffect DEF Absorbed, StoppedAfterFlush
<1>7. CASE Quiet
  <2>1. UNCHANGED <<mem, flight, disk, lost>>
    BY <1>7 DEF Quiet
  <2>2. CASE phase' = phase /\ due' = due
    BY <2>1, <2>2 DEF Absorbed, StoppedAfterFlush
  <2>3. CASE phase = "run" /\ phase' = "stopping" /\ due'.stored = DOMAIN mem.msgs
    <3>1. flight["shutdown"].state = "idle"
      BY <2>3 DEF FlightOk
    <3>2. \A k \in DOMAIN mem.msgs : Safe(k)
      BY <1>1, <2>3, <3>1 DEF WriteBackCoherent
    <3>3. QED  BY <2>1, <2>3, <3>2 DEF Absorbed, StoppedAfterFlush
  <2>4. CASE /\ phase = "stopping" /\ phase' = "stopped" /\ due' = due
             /\ FlushSecs > 0 => flight["shutdown"].state = "done"
    BY <2>1, <2>4 DEF Absorbed, StoppedAfterFlush
  <2>5. QED  BY <1>7, <2>2, <2>3, <2>4 DEF Quiet
<1>8. QED  BY <1>2, <1>3, <1>4, <1>5, <1>6, <1>7, StepKinds

-----------------------------------------------------------------------------
(* The invariant, and what it gives. *)

\* The invariant holds at the first open.
LEMMA WriteBackInit == Init => WriteBackInv
<1>. SUFFICES ASSUME Init PROVE WriteBackInv
  OBVIOUS
<1>1. DOMAIN NoMsgs = {}
  BY EmptyTypes
<1>2. /\ phase = "run" /\ chan = << >> /\ DOMAIN mem.msgs = {} /\ DOMAIN disk = {}
      /\ \A f \in Flushers : /\ flight[f].state = "idle" /\ DOMAIN flight[f].batch = {}
                             /\ flight[f].removed = {}
  BY <1>1 DEF Init, EmptyMem, IdleFlight
<1>3. FlightOk
  BY <1>2 DEF FlightOk, Flushers
<1>4. CopiesAgree
  BY <1>2 DEF CopiesAgree, SameContent
<1>5. MarksReal
  BY <1>2 DEF MarksReal, Real
<1>6. BatchFollowed /\ MarksGrow
  BY <1>2 DEF BatchFollowed, MarksGrow, Grows, Batch, Flushers
<1>7. WriteBackCoherent /\ RemovalsScheduled
  BY <1>2 DEF WriteBackCoherent, RemovalsScheduled
<1>8. Absorbed /\ DueKnown /\ StoppedAfterFlush
  BY <1>2 DEF Absorbed, DueKnown, StoppedAfterFlush
<1>9. QED  BY <1>3, <1>4, <1>5, <1>6, <1>7, <1>8 DEF WriteBackInv

\* Every step keeps the invariant.
LEMMA WriteBackStep ==
    ASSUME StoreInv, WriteBackInv, [Next]_vars
    PROVE  WriteBackInv'
BY FlightOkKept, CopiesAgreeKept, MarksRealKept, BatchFollowedKept, MarksGrowKept,
   WriteBackKept,
   RemovalsKept, DueKnownKept, AbsorbedKept
   DEF WriteBackInv

\* The inductive invariant of the write-back: the copies of a message in memory, in a
\* batch and in the table agree, and what each of them lacks is on its way.
THEOREM WriteBackInvariant == Spec => []WriteBackInv
<1>1. StoreInv /\ WriteBackInv /\ [Next]_vars => WriteBackInv'
  BY WriteBackStep
<1>2. QED  BY <1>1, WriteBackInit, StoreInvariant, PTL DEF Spec

\* flush drains dirty before its commit, and still every stored message is on its way to
\* the table or there, unless its last write failed.
THEOREM WriteBackCorrect == Spec => []WriteBackCoherent
BY WriteBackInvariant, PTL DEF WriteBackInv

\* Every row whose message was dropped is about to be deleted, also when evict dropped it
\* between a drain and its commit.
THEOREM RemovalsCorrect == Spec => []RemovalsScheduled
BY WriteBackInvariant, PTL DEF WriteBackInv

\* After a clean exit what was in memory at the signal is in the table, but for failed
\* transactions and for what the periodic flusher held.
THEOREM StopCorrect == Spec => []StopKeepsAbsorbed
<1>1. WriteBackInv => StopKeepsAbsorbed
  <2>. SUFFICES ASSUME WriteBackInv, phase = "stopped", FlushSecs > 0,
                       NEW k \in due.stored \cap DOMAIN mem.msgs
                PROVE  k \in DOMAIN disk \/ k \in lost \cup DOMAIN flight["periodic"].batch
    BY DEF StopKeepsAbsorbed
  <2>1. flight["shutdown"].state = "done"
    BY DEF WriteBackInv, StoppedAfterFlush
  <2>2. DOMAIN flight["shutdown"].batch = {}
    BY <2>1 DEF WriteBackInv, FlightOk, Flushers
  <2>3. QED  BY <2>1, <2>2 DEF WriteBackInv, Absorbed, Flushers
<1>2. QED  BY <1>1, WriteBackInvariant, PTL

\* A commit never takes a delivery mark back from a row: what was drained is at least as
\* new as the table, because the periodic flusher has one transaction at a time.
THEOREM MarksDurable == Spec => DurableMarks
<1>. DEFINE P == phase' = "run" =>
                    \A k \in DOMAIN disk \cap DOMAIN disk' : disk[k].delivered \subseteq disk'[k].delivered
<1>1. StoreInv /\ WriteBackInv /\ [Next]_vars => [P]_vars
  <2>. SUFFICES ASSUME StoreInv, WriteBackInv, Next, phase' = "run"
                PROVE  \A k \in DOMAIN disk \cap DOMAIN disk' : disk[k].delivered \subseteq disk'[k].delivered
    OBVIOUS
  <2>1. TypeOK
    BY DEF StoreInv
  <2>2. ASSUME NEW f \in Flushers, FlushCommit(f)
        PROVE  \A k \in DOMAIN disk \cap DOMAIN disk' : disk[k].delivered \subseteq disk'[k].delivered
    <3>1. phase = "run" /\ flight[f].state = "commit"
      BY <2>1, <2>2, ReturnEffect
    <3>2. f = "periodic"
      BY <3>1 DEF WriteBackInv, FlightOk, Flushers
    <3>3. \A k \in DOMAIN disk' :
             disk'[k] = IF k \in DOMAIN flight[f].batch THEN flight[f].batch[k] ELSE disk[k]
      BY <2>1, <2>2, ReturnEffect
    <3>4. QED  BY <3>1, <3>2, <3>3 DEF WriteBackInv, MarksGrow, Grows, Batch
  <2>3. (\A f \in Flushers : ~ FlushCommit(f)) => disk' = disk
    BY DEF Next, NextMsgId, Store, WriterRecv, Get, FlushBegin, FlushFail, Tick, ShutdownSignal,
           Exit,
           Crash, Open
  <2>4. QED  BY <2>2, <2>3
<1>2. QED  BY <1>1, StoreInvariant, WriteBackInvariant, PTL DEF Spec, DurableMarks

-----------------------------------------------------------------------------
(* The refinement: every step of the store is a step of MessageLog. *)

\* Whatever copy of a message is chosen, its content is the same.
LEMMA CopyContent ==
    ASSUME NEW S, \A a, b \in S : SameContent(a, b), NEW a \in S, NEW k \in DOMAIN a
    PROVE  Content(CHOOSE msg \in {m[k] : m \in {n \in S : k \in DOMAIN n}} : TRUE) = Content(a[k])
<1>. DEFINE T == {m[k] : m \in {n \in S : k \in DOMAIN n}}
<1>1. a[k] \in T
  OBVIOUS
<1>2. (CHOOSE msg \in T : TRUE) \in T
  BY <1>1
<1>3. PICK b \in S : k \in DOMAIN b /\ (CHOOSE msg \in T : TRUE) = b[k]
  BY <1>2
<1>4. a[k].topic = b[k].topic /\ a[k].expiry = b[k].expiry
  BY <1>3 DEF SameContent
<1>5. QED  BY <1>3, <1>4 DEF Content

\* the maps a message may be kept in
Maps == {mem.msgs, disk} \cup {flight[f].batch : f \in Flushers}

\* The book has an entry for each kept message, and it is the content of every copy.
LEMMA BookContent ==
    ASSUME CopiesAgree
    PROVE  /\ DOMAIN Book = KeptIds
           /\ \A m \in Maps : \A k \in DOMAIN m : k \in KeptIds /\ Book[k] = Content(m[k])
           /\ \A k \in KeptIds : \E m \in Maps : k \in DOMAIN m
<1>1. \A a, b \in Maps : SameContent(a, b)
  BY DEF CopiesAgree, SameContent, Maps
<1>2. \A k \in KeptIds : Copies(k) = {m[k] : m \in {n \in Maps : k \in DOMAIN n}}
  BY DEF Copies, Maps
<1>3. /\ \A k \in KeptIds : \E m \in Maps : k \in DOMAIN m
      /\ \A m \in Maps : DOMAIN m \subseteq KeptIds
  BY DEF KeptIds, Maps
<1>4. ASSUME NEW m \in Maps, NEW k \in DOMAIN m PROVE Book[k] = Content(m[k])
  <2>1. k \in KeptIds
    BY <1>3
  <2>2. Content(CHOOSE msg \in {x[k] : x \in {n \in Maps : k \in DOMAIN n}} : TRUE) = Content(m[k])
    BY <1>1, CopyContent
  <2>3. QED  BY <1>2, <2>1, <2>2 DEF Book
<1>5. QED  BY <1>3, <1>4 DEF Book

\* The same after a step.
LEMMA BookContentNext ==
    ASSUME CopiesAgree'
    PROVE  /\ DOMAIN Book' = KeptIds'
           /\ \A m \in Maps' : \A k \in DOMAIN m : k \in KeptIds' /\ Book'[k] = Content(m[k])
           /\ \A k \in KeptIds' : \E m \in Maps' : k \in DOMAIN m
<1>1. \A a, b \in Maps' : SameContent(a, b)
  BY DEF CopiesAgree, SameContent, Maps
<1>2. \A k \in KeptIds' : Copies(k)' = {m[k] : m \in {n \in Maps' : k \in DOMAIN n}}
  BY DEF Copies, Maps
<1>3. /\ \A k \in KeptIds' : \E m \in Maps' : k \in DOMAIN m
      /\ \A m \in Maps' : DOMAIN m \subseteq KeptIds'
  BY DEF KeptIds, Maps
<1>4. ASSUME NEW m \in Maps', NEW k \in DOMAIN m PROVE Book'[k] = Content(m[k])
  <2>1. k \in KeptIds'
    BY <1>3
  <2>2. Content(CHOOSE msg \in {x[k] : x \in {n \in Maps' : k \in DOMAIN n}} : TRUE) = Content(m[k])
    BY <1>1, CopyContent
  <2>3. QED  BY <1>2, <2>1, <2>2 DEF Book
<1>5. QED  BY <1>3, <1>4 DEF Book

\* A copy that exists after a step has the content of one before, unless its id is new.
LEMMA BookKept ==
    ASSUME CopiesAgree, CopiesAgree', NEW new,
           \A m \in Maps' : \A k \in DOMAIN m \ new :
              \E o \in Maps : /\ k \in DOMAIN o
                             /\ m[k].topic = o[k].topic /\ m[k].expiry = o[k].expiry
    PROVE  /\ DOMAIN Book' \subseteq DOMAIN Book \cup new
           /\ \A k \in DOMAIN Book' \ new : Book'[k] = Book[k]
<1>1. ASSUME NEW k \in DOMAIN Book' \ new PROVE k \in DOMAIN Book /\ Book'[k] = Book[k]
  <2>1. PICK m \in Maps' : k \in DOMAIN m
    BY BookContentNext
  <2>2. PICK o \in Maps : k \in DOMAIN o /\ m[k].topic = o[k].topic /\ m[k].expiry = o[k].expiry
    BY <2>1
  <2>3. Book'[k] = Content(m[k]) /\ Book[k] = Content(o[k]) /\ k \in DOMAIN Book
    BY <2>1, <2>2, BookContent, BookContentNext
  <2>4. QED  BY <2>2, <2>3 DEF Content
<1>2. QED  BY <1>1

\* A running store drops a message only when it has expired, or because of a cap.
LEMMA DropsOK ==
    ASSUME StoreInv, Next, Up, Up', NEW k \in DOMAIN mem.msgs \ DOMAIN mem'.msgs
    PROVE  MaxMsgs > 0 \/ MaxBytes > 0 \/ mem.msgs[k].expiry <= now
<1>1. PICK m : /\ MemOK(m)
               /\ DOMAIN mem'.msgs = DOMAIN Evict(m, now).msgs
               /\ \/ m = mem
                  \/ /\ DOMAIN mem.msgs \subseteq DOMAIN m.msgs
                     /\ \A x \in DOMAIN mem.msgs : m.msgs[x] = mem.msgs[x]
  BY StepEvicts
<1>2. k \in DOMAIN m.msgs \ DOMAIN Evict(m, now).msgs /\ m.msgs[k] = mem.msgs[k]
  BY <1>1
<1>3. m.msgs[k].expiry <= now \/ OverCap(m)
  BY <1>1, <1>2, EvictDrops
<1>4. QED  BY <1>2, <1>3 DEF OverCap

\* Available and saved messages have an entry.
LEMMA BookCovers == Avail' \cup DOMAIN Saved' \subseteq DOMAIN Book'
BY DEF Avail, Saved, Book, KeptIds

\* Of an available message the book has the topic and the expiry in memory.
LEMMA BookOfAvail ==
    ASSUME CopiesAgree, NEW k \in DOMAIN mem.msgs
    PROVE  k \in DOMAIN Book /\ Book[k].topic = mem.msgs[k].topic /\ Book[k].expiry = mem.msgs[k].expiry
<1>1. mem.msgs \in Maps
  BY DEF Maps
<1>2. k \in DOMAIN Book /\ Book[k] = Content(mem.msgs[k])
  BY <1>1, BookContent
<1>3. QED  BY <1>2 DEF Content

\* What a step of a running store drops, MessageLog allows it to drop.
LEMMA DropsMapped ==
    ASSUME StoreInv, CopiesAgree, Next, Up, Up'
    PROVE  Log!DropsAllowed
<1>1. ASSUME NEW k \in Avail \ Avail'
      PROVE  (MaxMsgs > 0 \/ MaxBytes > 0) \/ Book[k].expiry <= now
  <2>1. k \in DOMAIN mem.msgs \ DOMAIN mem'.msgs
    BY <1>1 DEF Avail
  <2>2. QED  BY <2>1, DropsOK, BookOfAvail
<1>2. QED  BY <1>1 DEF Log!DropsAllowed, Log!MayDrop

\* The writer task's step is Accept, or Drop when evict drops the new message at once.
LEMMA RecvMapped ==
    ASSUME StoreInv, WriteBackInv, WriteBackInv', Next, WriterRecv
    PROVE  Log!LogNext
<1>1. Up /\ Up' /\ UNCHANGED <<now, flight, disk, handed>>
  BY DEF WriterRecv, histVars, Up
<1>2. PICK key : key = Head(chan).key
  OBVIOUS
<1>3. CopiesAgree /\ CopiesAgree'
  BY DEF WriteBackInv
<1>4. /\ key \notin UsedKeys /\ DOMAIN mem'.msgs \subseteq DOMAIN mem.msgs \cup {key}
      /\ \A k \in DOMAIN mem.msgs \cap DOMAIN mem'.msgs : mem'.msgs[k] = mem.msgs[k]
  BY <1>2, RecvEffect
<1>5. key \notin KeptIds
  BY <1>4 DEF UsedKeys, FlightKeys, KeptIds
<1>6. key \notin DOMAIN Book /\ (key \in DOMAIN Book' <=> key \in DOMAIN mem'.msgs)
  BY <1>1, <1>5 DEF Book, KeptIds
<1>7. \A m \in Maps' : \A k \in DOMAIN m \ {key} :
         \E o \in Maps : k \in DOMAIN o /\ m[k].topic = o[k].topic /\ m[k].expiry = o[k].expiry
  BY <1>1, <1>4 DEF Maps
<1>8. /\ DOMAIN Book' \subseteq DOMAIN Book \cup {key}
      /\ \A k \in DOMAIN Book' \ {key} : Book'[k] = Book[k]
  BY <1>3, <1>7, BookKept
<1>9. Log!Faithful
  BY <1>6, <1>8, BookCovers DEF Log!Faithful
<1>10. UNCHANGED <<now, Served, Saved>> /\ Avail' \subseteq Avail \cup {key}
  BY <1>1, <1>4 DEF Served, Saved, Avail
<1>11. Log!DropsAllowed
  BY <1>1, <1>3, DropsMapped
<1>12. CASE key \in DOMAIN Book'
  <2>1. Log!Accept
    BY <1>1, <1>6, <1>8, <1>10, <1>11, <1>12 DEF Log!Accept
  <2>2. QED  BY <1>9, <2>1 DEF Log!LogNext
<1>13. CASE key \notin DOMAIN Book'
  <2>1. Avail' \subseteq Avail
    BY <1>1, <1>6, <1>10, <1>13 DEF Avail
  <2>2. Log!Drop
    BY <1>1, <1>8, <1>10, <1>11, <1>13, <2>1 DEF Log!Drop, Log!NothingNew
  <2>3. QED  BY <1>9, <2>2 DEF Log!LogNext
<1>14. QED  BY <1>12, <1>13

\* A step whose copies all come from copies before it adds nothing and alters nothing.
LEMMA NothingAdded ==
    ASSUME WriteBackInv, WriteBackInv',
           \A m \in Maps' : \A k \in DOMAIN m :
              \E o \in Maps : k \in DOMAIN o /\ m[k].topic = o[k].topic /\ m[k].expiry = o[k].expiry
    PROVE  Log!Faithful /\ Log!NothingNew
<1>1. CopiesAgree /\ CopiesAgree'
  BY DEF WriteBackInv
<1>2. DOMAIN Book' \subseteq DOMAIN Book \cup {} /\ \A k \in DOMAIN Book' \ {} : Book'[k] = Book[k]
  BY <1>1, BookKept
<1>3. QED  BY <1>2, BookCovers DEF Log!Faithful, Log!NothingNew

\* get is Hand: what it does not return, of what it could, the client was served before.
LEMMA GetMapped ==
    ASSUME StoreInv, WriteBackInv, WriteBackInv', Next, NEW c \in Clients, NEW f \in Filters, Get(c, f)
    PROVE  Log!LogNext
<1>1. PICK ids : ids = Selected(Evict(mem, now), c, f, now)
  OBVIOUS
<1>2. Up /\ Up' /\ UNCHANGED <<now, flight, disk>> /\ handed' = handed \cup ({c} \X ids)
  BY <1>1 DEF Get, Up
<1>3. CopiesAgree /\ TypeOK
  BY DEF WriteBackInv, StoreInv
<1>4. /\ DOMAIN mem'.msgs \subseteq DOMAIN mem.msgs
      /\ ids = {k \in DOMAIN mem'.msgs : /\ mem.msgs[k].topic \in f /\ ~ (mem.msgs[k].expiry <= now)
                                         /\ c \notin mem.msgs[k].delivered}
      /\ \A k \in DOMAIN mem'.msgs : /\ mem'.msgs[k].topic = mem.msgs[k].topic
                                     /\ mem'.msgs[k].expiry = mem.msgs[k].expiry
  BY <1>1, GetEffect
<1>5. \A m \in Maps' : \A k \in DOMAIN m :
         \E o \in Maps : k \in DOMAIN o /\ m[k].topic = o[k].topic /\ m[k].expiry = o[k].expiry
  BY <1>2, <1>4 DEF Maps
<1>6. Log!Faithful /\ Log!NothingNew
  BY <1>5, NothingAdded
<1>7. UNCHANGED <<now, Saved>> /\ Avail' \subseteq Avail /\ Avail' = DOMAIN mem'.msgs
  BY <1>2, <1>4 DEF Saved, Avail
<1>8. Log!DropsAllowed
  BY <1>2, <1>3, DropsMapped
<1>9. \A k \in DOMAIN mem.msgs : mem.msgs[k].expiry \in Int /\ now \in Int
  BY <1>3, MsgMapElim, BoundAssumption DEF TypeOK, MemState, StoredMsg
<1>10. ASSUME NEW k \in DOMAIN mem'.msgs
       PROVE  /\ k \in ids => Book[k].topic \in f /\ Book[k].expiry > now
              /\ Book[k].topic \in f /\ Book[k].expiry > now => k \in ids \/ <<c, k>> \in handed
  <2>1. k \in DOMAIN mem.msgs /\ Book[k].topic = mem.msgs[k].topic /\ Book[k].expiry = mem.msgs[k].expiry
    BY <1>3, <1>4, BookOfAvail
  <2>2. c \in mem.msgs[k].delivered => <<c, k>> \in handed
    BY <1>2, <2>1 DEF WriteBackInv, MarksReal, Real
  <2>3. QED  BY <1>4, <1>9, <2>1, <2>2
<1>11. handed' = handed \cup ({c} \X {k \in Avail' : Book[k].topic \in f /\ Book[k].expiry > now})
  BY <1>2, <1>4, <1>7, <1>10
<1>12. Served' = Served \cup ({c} \X {k \in Avail' : Book[k].topic \in f /\ Book[k].expiry > now})
  BY <1>2, <1>11 DEF Served
<1>13. Log!Hand(c, f)
  BY <1>2, <1>6, <1>7, <1>8, <1>12 DEF Log!Hand
<1>14. QED  BY <1>6, <1>13 DEF Log!LogNext

\* A drain is Drop: evict may have dropped messages.
LEMMA DrainMapped ==
    ASSUME StoreInv, WriteBackInv, WriteBackInv', Next, NEW f \in Flushers, FlushBegin(f)
    PROVE  Log!LogNext
<1>1. Up /\ Up' /\ UNCHANGED <<now, disk, handed>>
  BY DEF FlushBegin, histVars, Up
<1>2. CopiesAgree /\ FlightOk
  BY DEF WriteBackInv
<1>3. /\ DOMAIN mem'.msgs \subseteq DOMAIN mem.msgs
      /\ \A k \in DOMAIN mem'.msgs : mem'.msgs[k] = mem.msgs[k]
      /\ DOMAIN flight'[f].batch \subseteq DOMAIN mem.msgs
      /\ \A k \in DOMAIN flight'[f].batch : flight'[f].batch[k] = mem.msgs[k]
      /\ \A g \in Flushers : g # f => flight'[g] = flight[g]
  BY <1>2, DrainEffect
<1>4. \A m \in Maps' : \A k \in DOMAIN m :
         \E o \in Maps : k \in DOMAIN o /\ m[k].topic = o[k].topic /\ m[k].expiry = o[k].expiry
  BY <1>1, <1>3 DEF Maps
<1>5. Log!Faithful /\ Log!NothingNew
  BY <1>4, NothingAdded
<1>6. UNCHANGED <<now, Served, Saved>> /\ Avail' \subseteq Avail
  BY <1>1, <1>3 DEF Served, Saved, Avail
<1>7. Log!Drop
  BY <1>1, <1>2, <1>5, <1>6, DropsMapped DEF Log!Drop
<1>8. QED  BY <1>5, <1>7 DEF Log!LogNext

\* A transaction that ends is Save, or Drop when it failed.
LEMMA ReturnMapped ==
    ASSUME StoreInv, WriteBackInv, WriteBackInv', NEW f \in Flushers, FlushCommit(f) \/ FlushFail(f)
    PROVE  Log!LogNext
<1>1. TypeOK
  BY DEF StoreInv
<1>2. Up /\ Up' /\ UNCHANGED <<now, mem, handed>>
  BY <1>1, ReturnEffect DEF Up
<1>3. /\ \A k \in DOMAIN disk' : \/ k \in DOMAIN disk /\ disk'[k] = disk[k]
                                 \/ k \in DOMAIN flight[f].batch /\ disk'[k] = flight[f].batch[k]
      /\ DOMAIN flight'[f].batch = {}
      /\ \A g \in Flushers : g # f => flight'[g] = flight[g]
  BY <1>1, ReturnEffect
<1>4. \A m \in Maps' : \A k \in DOMAIN m :
         \E o \in Maps : k \in DOMAIN o /\ m[k].topic = o[k].topic /\ m[k].expiry = o[k].expiry
  BY <1>2, <1>3 DEF Maps
<1>5. Log!Faithful /\ Log!NothingNew
  BY <1>4, NothingAdded
<1>6. UNCHANGED <<now, Avail, Served>>
  BY <1>2 DEF Served, Avail
<1>7. CASE FlushFail(f)
  <2>1. Saved' = Saved
    BY <1>1, <1>7, ReturnEffect DEF Saved
  <2>2. Log!Drop
    BY <1>2, <1>5, <1>6, <2>1 DEF Log!Drop, Log!DropsAllowed
  <2>3. QED  BY <1>5, <2>2 DEF Log!LogNext
<1>8. CASE FlushCommit(f)
  <2>1. \A k \in DOMAIN Saved \ DOMAIN Saved' : k \notin Avail
    <3>1. DOMAIN disk \ DOMAIN disk' \subseteq flight[f].removed
      BY <1>1, <1>8, ReturnEffect
    <3>2. flight[f].removed \cap DOMAIN mem.msgs = {}
      BY DEF WriteBackInv, FlightOk
    <3>3. QED  BY <3>1, <3>2 DEF Saved, Avail
  <2>2. ASSUME NEW k \in DOMAIN Saved'
        PROVE  (k \in DOMAIN Saved /\ Saved'[k] = Saved[k]) \/ Saved'[k] \subseteq Log!Marked(k)
    <3>1. CASE k \in DOMAIN disk /\ disk'[k] = disk[k]
      BY <2>2, <3>1 DEF Saved
    <3>2. CASE k \in DOMAIN flight[f].batch /\ disk'[k] = flight[f].batch[k]
      <4>1. flight[f].batch[k] \in StoredMsg
        BY <1>1, <3>2, MsgMapElim DEF TypeOK, Flight
      <4>2. disk'[k].delivered \subseteq Clients
        BY <3>2, <4>1 DEF StoredMsg
      <4>3. \A c \in disk'[k].delivered : <<c, k>> \in handed
        BY <1>2, <3>2 DEF WriteBackInv, MarksReal, Real
      <4>4. QED  BY <1>2, <2>2, <4>2, <4>3 DEF Saved, Served, Log!Marked
    <3>3. QED  BY <1>3, <2>2, <3>1, <3>2 DEF Saved
  <2>3. Log!Save
    BY <1>2, <1>5, <1>6, <2>1, <2>2 DEF Log!Save
  <2>4. QED  BY <1>5, <2>3 DEF Log!LogNext
<1>9. QED  BY <1>7, <1>8

\* A crash or an exit is Stop.
LEMMA StopMapped ==
    ASSUME StoreInv, WriteBackInv, WriteBackInv', Crash \/ Exit
    PROVE  Log!LogNext
<1>1. TypeOK
  BY DEF StoreInv
<1>2. Up /\ ~ Up' /\ UNCHANGED <<now, disk>>
  BY DEF Crash, Exit, Up
<1>3. \A m \in Maps' : \A k \in DOMAIN m :
         \E o \in Maps : k \in DOMAIN o /\ m[k].topic = o[k].topic /\ m[k].expiry = o[k].expiry
  <2>1. CASE Exit
    BY <2>1 DEF Exit, Maps
  <2>2. CASE Crash
    BY <1>1, <2>2, RestartEffect DEF Maps
  <2>3. QED  BY <2>1, <2>2
<1>4. Log!Faithful /\ Log!NothingNew
  BY <1>3, NothingAdded
<1>5. Avail' = {} /\ Served' = {} /\ Saved' = Saved
  BY <1>2 DEF Avail, Served, Saved
<1>6. Log!Stop
  BY <1>2, <1>4, <1>5 DEF Log!Stop
<1>7. QED  BY <1>4, <1>6 DEF Log!LogNext

\* open is Start.
LEMMA OpenMapped ==
    ASSUME StoreInv, WriteBackInv, WriteBackInv', NEW n \in NodeIds, Open(n)
    PROVE  Log!LogNext
<1>1. TypeOK /\ CopiesAgree
  BY DEF StoreInv, WriteBackInv
<1>2. ~ Up /\ Up' /\ UNCHANGED <<now, disk>> /\ phase' = "run"
  BY DEF Open, Up
<1>3. /\ DOMAIN mem'.msgs = Loaded(now) /\ DOMAIN mem'.msgs \subseteq DOMAIN disk
      /\ \A k \in DOMAIN mem'.msgs : mem'.msgs[k] = disk[k]
      /\ \A f \in Flushers : DOMAIN flight'[f].batch = {}
      /\ handed' = UNION {disk[k].delivered \X {k} : k \in DOMAIN disk}
  BY <1>1, <1>2, RestartEffect
<1>4. \A m \in Maps' : \A k \in DOMAIN m :
         \E o \in Maps : k \in DOMAIN o /\ m[k].topic = o[k].topic /\ m[k].expiry = o[k].expiry
  BY <1>2, <1>3 DEF Maps
<1>5. Log!Faithful /\ Log!NothingNew
  BY <1>4, NothingAdded
<1>6. ASSUME NEW k \in DOMAIN disk PROVE Book[k].expiry = disk[k].expiry
  <2>1. disk \in Maps
    BY DEF Maps
  <2>2. Book[k] = Content(disk[k])
    BY <1>1, <2>1, BookContent
  <2>3. QED  BY <2>2 DEF Content
<1>7. Avail' = {k \in DOMAIN Saved : Book[k].expiry > now}
  BY <1>2, <1>3, <1>6 DEF Avail, Saved, Loaded
<1>8. Served' = {p \in Clients \X DOMAIN Saved : p[1] \in Saved[p[2]]}
  <2>1. \A k \in DOMAIN disk : disk[k].delivered \subseteq Clients
    BY <1>1, MsgMapElim DEF TypeOK, StoredMsg
  <2>2. QED  BY <1>2, <1>3, <2>1 DEF Served, Saved
<1>9. Log!Start
  BY <1>2, <1>5, <1>7, <1>8 DEF Log!Start, Saved
<1>10. QED  BY <1>5, <1>9 DEF Log!LogNext

\* The clock ticks for both; what touches no copy and no mark changes nothing there.
LEMMA OtherMapped ==
    ASSUME StoreInv, UNCHANGED <<mem, flight, disk, handed>>, Up' = Up,
           now' = now \/ now' > now
    PROVE  [Log!LogNext]_(Log!logVars)
<1>1. UNCHANGED <<Up, Book, Avail, Served, Saved>>
  BY DEF Book, KeptIds, Copies, Avail, Served, Saved
<1>2. Log!Faithful
  BY <1>1, BookCovers DEF Log!Faithful
<1>3. CASE now' = now
  BY <1>1, <1>3 DEF Log!logVars
<1>4. CASE now' > now
  BY <1>1, <1>2, <1>4 DEF Log!LogNext, Log!Tick
<1>5. QED  BY <1>3, <1>4

\* Every step of the store is a step of MessageLog, or changes nothing there.
LEMMA StepMapped ==
    ASSUME StoreInv, WriteBackInv, WriteBackInv', [Next]_vars
    PROVE  [Log!LogNext]_(Log!logVars)
<1>1. CASE WriterRecv
  BY <1>1, RecvMapped DEF Next
<1>2. ASSUME NEW c \in Clients, NEW f \in Filters, Get(c, f) PROVE Log!LogNext
  BY <1>2, GetMapped DEF Next
<1>3. ASSUME NEW f \in Flushers, FlushBegin(f) PROVE Log!LogNext
  BY <1>3, DrainMapped DEF Next
<1>4. ASSUME NEW f \in Flushers, FlushCommit(f) \/ FlushFail(f) PROVE Log!LogNext
  BY <1>4, ReturnMapped
<1>5. CASE Crash \/ Exit
  BY <1>5, StopMapped
<1>6. ASSUME NEW n \in NodeIds, Open(n) PROVE Log!LogNext
  BY <1>6, OpenMapped
<1>7. now \in Int
  BY DEF StoreInv, TypeOK
<1>8. CASE NextMsgId \/ Tick \/ ShutdownSignal \/ UNCHANGED vars
  <2>1. /\ UNCHANGED <<mem, flight, disk, handed>> /\ Up' = Up
        /\ now' = now \/ now' > now
    BY <1>7, <1>8 DEF NextMsgId, Tick, ShutdownSignal, vars, histVars, Up
  <2>2. QED  BY <2>1, OtherMapped
<1>9. ASSUME NEW key, NEW topic, NEW size, NEW ttl, Store(key, topic, size, ttl)
      PROVE  [Log!LogNext]_(Log!logVars)
  <2>1. UNCHANGED <<mem, flight, disk, handed>> /\ Up' = Up /\ now' = now
    BY <1>9 DEF Store, histVars, Up
  <2>2. QED  BY <2>1, OtherMapped
<1>10. QED  BY <1>1, <1>2, <1>3, <1>4, <1>5, <1>6, <1>8, <1>9 DEF Next

\* The store starts as MessageLog does.
LEMMA InitMapped == Init => Log!LogInit
<1>. SUFFICES ASSUME Init PROVE Log!LogInit
  OBVIOUS
<1>1. DOMAIN NoMsgs = {}
  BY EmptyTypes
<1>2. /\ Up = TRUE /\ handed = {} /\ DOMAIN mem.msgs = {} /\ DOMAIN disk = {}
      /\ \A f \in Flushers : DOMAIN flight[f].batch = {}
  BY <1>1 DEF Init, Up, EmptyMem, IdleFlight
<1>3. KeptIds = {}
  BY <1>2 DEF KeptIds
<1>4. Book = [k \in {} |-> {}]
  BY <1>3 DEF Book
<1>5. Saved = [k \in {} |-> {}]
  BY <1>2 DEF Saved
<1>6. QED  BY <1>2, <1>4, <1>5 DEF Log!LogInit, Log!NoEntry, Avail, Served

\* RedbMessageStore gives what MessageLog says, over any number of crashes, restarts and
\* failed transactions: get hands out every available message once, none is altered, and
\* what a restart brings back was saved.  It is not all that the trait asks for: the clients
\* that store is told have been served already (message.rs:67) are ignored (msgstore.rs:273),
\* and MessageLog accepts a message as served to nobody.
THEOREM StoreImplementsLog == Spec => ImplementsLog
<1>1. StoreInv /\ WriteBackInv /\ WriteBackInv' /\ [Next]_vars => [Log!LogNext]_(Log!logVars)
  BY StepMapped
<1>2. QED
  BY <1>1, InitMapped, StoreInvariant, WriteBackInvariant, PTL
  DEF Spec, ImplementsLog, Log!LogSpec
=============================================================================
