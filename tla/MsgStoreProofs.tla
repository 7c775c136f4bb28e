--------------------------- MODULE MsgStoreProofs ---------------------------
(***************************************************************************)
(* Theorems about MsgStore, for every value of its constants.              *)
(***************************************************************************)
EXTENDS MsgStore, SumLemmas, SequenceTheorems

-----------------------------------------------------------------------------
(* The operations under the mutex keep the types. *)

\* The message maps are the functions from some ids to messages.
LEMMA MsgMapElim ==
    ASSUME NEW f \in MsgMap
    PROVE  DOMAIN f \subseteq Keys /\ f \in [DOMAIN f -> StoredMsg]
BY DEF MsgMap

\* A function from some ids to messages is a message map.
LEMMA MsgMapIntro ==
    ASSUME NEW S \in SUBSET Keys, NEW f \in [S -> StoredMsg]
    PROVE  f \in MsgMap
BY DEF MsgMap

\* Popping ids from the front of order leaves a well-formed memory state.
LEMMA PopFrontType ==
    ASSUME NEW m \in MemState, NEW n \in 0 .. Len(m.order)
    PROVE  PopFront(m, n) \in MemState
<1> DEFINE popped == {m.order[i] : i \in 1 .. n} \cap DOMAIN m.msgs
           kept   == DOMAIN m.msgs \ popped
<1>1. /\ m.msgs \in MsgMap /\ m.order \in Seq(Keys) /\ m.byTopic \in [Topics -> SUBSET Keys]
      /\ m.bytes \in Nat /\ m.dirty \subseteq Keys /\ m.removed \subseteq Keys
  BY DEF MemState
<1>2. Restrict(m.msgs, kept) \in MsgMap /\ popped \subseteq Keys
  <2>1. DOMAIN m.msgs \subseteq Keys /\ m.msgs \in [DOMAIN m.msgs -> StoredMsg]
    BY <1>1, MsgMapElim
  <2>2. Restrict(m.msgs, kept) \in [kept -> StoredMsg]
    BY <2>1 DEF Restrict
  <2>3. kept \in SUBSET Keys
    BY <2>1
  <2> HIDE DEF kept
  <2> QED BY <2>1, <2>2, <2>3, MsgMapIntro
<1>3. SubSeq(m.order, n + 1, Len(m.order)) \in Seq(Keys)
  BY <1>1, LenProperties, SubSeqProperties
<1>4. [t \in Topics |-> m.byTopic[t] \ {k \in popped : m.msgs[k].topic = t}] \in [Topics -> SUBSET Keys]
  BY <1>1
<1>5. SaturatingSub(m.bytes, BytesOf(Restrict(m.msgs, popped))) \in Nat
  BY DEF SaturatingSub
<1>6. m.dirty \ popped \subseteq Keys /\ m.removed \cup popped \subseteq Keys
  BY <1>1, <1>2
<1> HIDE DEF popped
<1> QED
  BY <1>2, <1>3, <1>4, <1>5, <1>6 DEF PopFront, MemState, popped

\* evict pops a definite number of ids, the least one at which its loop stops.
LEMMA EvictPops ==
    ASSUME NEW m \in MemState, NEW t
    PROVE  \E n \in 0 .. Len(m.order) :
              /\ EvictStops(m, t, n)
              /\ \A i \in 0 .. n - 1 : ~ EvictStops(m, t, i)
              /\ Evict(m, t) = PopFront(m, n)
<1> DEFINE S == {n \in 0 .. Len(m.order) : EvictStops(m, t, n)}
<1>1. Len(m.order) \in Nat
  BY LenProperties DEF MemState
<1>2. Len(m.order) \in S
  BY <1>1 DEF EvictStops
<1>3. S \in SUBSET Nat /\ S # {}
  BY <1>1, <1>2
<1>4. Min(S) \in S /\ \A k \in S : Min(S) <= k
  <2> HIDE DEF S
  <2> QED BY <1>3, MinIsMember
<1>5. \A i \in 0 .. Min(S) - 1 : i \notin S
  <2> HIDE DEF S
  <2>1. ASSUME NEW a \in Nat, \A k \in S : a <= k, NEW i \in 0 .. a - 1 PROVE i \notin S
    BY <2>1
  <2>2. Min(S) \in Nat
    BY <1>3, <1>4
  <2> QED BY <1>4, <2>1, <2>2
<1>6. \A i \in 0 .. Min(S) - 1 : ~ EvictStops(m, t, i)
  BY <1>1, <1>4, <1>5
<1> QED
  BY <1>4, <1>6 DEF Evict

\* evict leaves a well-formed memory state.
LEMMA EvictType ==
    ASSUME NEW m \in MemState, NEW t
    PROVE  Evict(m, t) \in MemState
BY EvictPops, PopFrontType

\* The writer task's insert leaves a well-formed memory state.
LEMMA InsertType ==
    ASSUME NEW m \in MemState, NEW key \in Keys, NEW msg \in StoredMsg
    PROVE  Insert(m, key, msg) \in MemState
<1>1. /\ m.msgs \in MsgMap /\ m.order \in Seq(Keys) /\ m.byTopic \in [Topics -> SUBSET Keys]
      /\ m.bytes \in Nat /\ m.dirty \subseteq Keys /\ m.removed \subseteq Keys
  BY DEF MemState
<1>2. [k \in DOMAIN m.msgs \cup {key} |-> IF k = key THEN msg ELSE m.msgs[k]] \in MsgMap
  <2>1. DOMAIN m.msgs \subseteq Keys /\ m.msgs \in [DOMAIN m.msgs -> StoredMsg]
    BY <1>1, MsgMapElim
  <2>2. DOMAIN m.msgs \cup {key} \in SUBSET Keys
    BY <2>1
  <2>3. [k \in DOMAIN m.msgs \cup {key} |-> IF k = key THEN msg ELSE m.msgs[k]]
          \in [DOMAIN m.msgs \cup {key} -> StoredMsg]
    BY <2>1
  <2> QED BY <2>2, <2>3, MsgMapIntro
<1>3. Append(m.order, key) \in Seq(Keys)
  BY <1>1, AppendProperties
<1>4. msg.topic \in Topics /\ msg.size \in Nat
  BY SetAssumption DEF StoredMsg
<1>5. [m.byTopic EXCEPT ![msg.topic] = @ \cup {key}] \in [Topics -> SUBSET Keys]
  BY <1>1, <1>4
<1>6. \A b : SaturatingSub(m.bytes, b) + msg.size \in Nat
  BY <1>4 DEF SaturatingSub
<1> QED
  BY <1>1, <1>2, <1>3, <1>5, <1>6 DEF Insert, MemState

\* Marking deliveries leaves a well-formed memory state.
LEMMA MarkType ==
    ASSUME NEW m \in MemState, NEW c \in Clients, NEW ids \in SUBSET Keys
    PROVE  Mark(m, c, ids) \in MemState
<1>1. m.msgs \in MsgMap /\ m.dirty \subseteq Keys
  BY DEF MemState
<1>2. \A k \in DOMAIN m.msgs : m.msgs[k] \in StoredMsg
  BY <1>1 DEF MsgMap
<1>3. \A k \in DOMAIN m.msgs : [m.msgs[k] EXCEPT !.delivered = @ \cup {c}] \in StoredMsg
  BY <1>2 DEF StoredMsg
<1>4. [k \in DOMAIN m.msgs |-> IF k \in ids THEN [m.msgs[k] EXCEPT !.delivered = @ \cup {c}]
                                            ELSE m.msgs[k]] \in MsgMap
  BY <1>1, <1>2, <1>3 DEF MsgMap
<1> QED
  BY <1>1, <1>4 DEF Mark, MemState

\* get hands out ids of stored messages only.
LEMMA SelectedType ==
    ASSUME NEW m \in MemState, NEW c, NEW f, NEW t
    PROVE  Selected(m, c, f, t) \subseteq DOMAIN m.msgs /\ DOMAIN m.msgs \subseteq Keys
BY MsgMapElim DEF Selected, MemState

\* There are finitely many ids, so every message map is finite.
LEMMA KeysFinite ==
    /\ IsFiniteSet(Keys)
    /\ \A S \in SUBSET Keys : IsFiniteSet(S) /\ Cardinality(S) \in Nat
<1>1. IsFiniteSet(0 .. MaxIds - 1)
  BY FS_Interval, BoundAssumption
<1>2. IsFiniteSet(Keys)
  BY <1>1, FS_Product, BoundAssumption DEF Keys
<1> QED
  BY <1>2, FS_Subset, FS_CardinalityType

\* The byte count of a message map is a natural number.
LEMMA BytesType ==
    ASSUME NEW f \in MsgMap
    PROVE  /\ [k \in DOMAIN f |-> f[k].size] \in [DOMAIN f -> Nat]
           /\ IsFiniteSet(DOMAIN f)
           /\ BytesOf(f) \in Nat
<1>1. DOMAIN f \subseteq Keys /\ f \in [DOMAIN f -> StoredMsg]
  BY MsgMapElim
<1>2. \A k \in DOMAIN f : f[k].size \in Nat
  BY <1>1, SetAssumption DEF StoredMsg
<1>3. IsFiniteSet(DOMAIN f)
  BY <1>1, KeysFinite
<1> QED
  BY <1>2, <1>3, SumIsNat DEF BytesOf

\* A transaction leaves a well-formed table.
LEMMA CommittedType ==
    ASSUME NEW table \in MsgMap, NEW ids, NEW batch \in MsgMap
    PROVE  /\ Committed(table, ids, batch) \in MsgMap
           /\ DOMAIN Committed(table, ids, batch) = (DOMAIN table \ ids) \cup DOMAIN batch
<1>1. /\ DOMAIN table \subseteq Keys /\ table \in [DOMAIN table -> StoredMsg]
      /\ DOMAIN batch \subseteq Keys /\ batch \in [DOMAIN batch -> StoredMsg]
  BY MsgMapElim
<1>2. (DOMAIN table \ ids) \cup DOMAIN batch \in SUBSET Keys
  BY <1>1
<1>3. Committed(table, ids, batch) \in [(DOMAIN table \ ids) \cup DOMAIN batch -> StoredMsg]
  BY <1>1 DEF Committed
<1> QED
  BY <1>2, <1>3, MsgMapIntro

\* The rows open keeps are a well-formed map of ids.
LEMMA RestrictType ==
    ASSUME NEW f \in MsgMap, NEW S \in SUBSET DOMAIN f
    PROVE  Restrict(f, S) \in MsgMap /\ DOMAIN Restrict(f, S) = S
<1>1. DOMAIN f \subseteq Keys /\ f \in [DOMAIN f -> StoredMsg]
  BY MsgMapElim
<1>2. Restrict(f, S) \in [S -> StoredMsg] /\ S \in SUBSET Keys
  BY <1>1 DEF Restrict
<1> QED
  BY <1>2, MsgMapIntro

\* An empty map and an idle flusher are well formed.
LEMMA EmptyTypes ==
    /\ NoMsgs \in MsgMap /\ DOMAIN NoMsgs = {}
    /\ EmptyMem \in MemState
    /\ \A f \in Flushers : Returned(f) \in Flight
    /\ IdleFlight \in Flight
<1>1. NoMsgs \in MsgMap /\ DOMAIN NoMsgs = {}
  <2>1. NoMsgs \in [{} -> StoredMsg]
    BY DEF NoMsgs
  <2> QED BY <2>1, MsgMapIntro
<1>2. EmptyMem \in MemState
  BY <1>1, EmptySeq DEF EmptyMem, MemState
<1> QED
  BY <1>1, <1>2 DEF Returned, IdleFlight, Flight

\* The counter open recovers stays in range and above every own row.
LEMMA FirstFreeType ==
    ASSUME disk \in MsgMap, NEW n \in NodeIds
    PROVE  /\ FirstFree(n) \in 0 .. MaxIds
           /\ \A k \in DOMAIN disk : k[1] = n => k[2] < FirstFree(n)
<1> DEFINE own == {k[2] + 1 : k \in {j \in DOMAIN disk : j[1] = n}}
<1>1. \A k \in DOMAIN disk : k[2] + 1 \in 1 .. MaxIds
  BY MsgMapElim, BoundAssumption DEF Keys
<1>2. own \in SUBSET Nat /\ \A x \in own : x \in 1 .. MaxIds
  BY <1>1
<1>3. MaxIds \in Nat /\ \A x \in own : x <= MaxIds
  BY <1>2, BoundAssumption
<1>4. CASE own = {}
  BY <1>3, <1>4 DEF FirstFree
<1>5. CASE own # {}
  <2>1. FirstFree(n) = Max(own)
    BY <1>5 DEF FirstFree
  <2>2. Max(own) \in own /\ \A x \in own : x <= Max(own)
    <3> HIDE DEF own
    <3> QED BY <1>2, <1>3, <1>5, MaxIsMember
  <2>3. FirstFree(n) \in 0 .. MaxIds
    <3>1. Max(own) \in 1 .. MaxIds
      <4> HIDE DEF own
      <4> QED BY <1>2, <2>2
    <3> QED BY <1>3, <2>1, <3>1
  <2>4. ASSUME NEW k \in DOMAIN disk, k[1] = n PROVE k[2] < FirstFree(n)
    <3>1. k[2] + 1 \in own
      BY <2>4
    <3>2. k[2] + 1 <= FirstFree(n) /\ k[2] \in Int
      BY <1>1, <2>1, <2>2, <3>1, MsgMapElim DEF Keys
    <3> QED BY <2>3, <3>2
  <2> QED BY <2>3, <2>4
<1> QED
  BY <1>4, <1>5

-----------------------------------------------------------------------------
(* Type correctness. *)

\* The first open produces well-typed state.
LEMMA TypeInit == Init => TypeOK
BY EmptyTypes, EmptySeq, BoundAssumption DEF Init, TypeOK, NothingDue

\* Loading rows from a table produces a well-formed memory state.
LEMMA OpenType ==
    ASSUME TypeOK, NEW n \in NodeIds, Open(n)
    PROVE  TypeOK'
<1> DEFINE ids == Loaded(now)
<1>0. ids \in SUBSET DOMAIN disk /\ DOMAIN disk \subseteq Keys /\ disk \in [DOMAIN disk -> StoredMsg]
  BY MsgMapElim DEF TypeOK, Loaded
<1>1. PICK s \in [1 .. Cardinality(ids) -> ids] :
         mem' = [msgs    |-> Restrict(disk, ids),
                 order   |-> s,
                 byTopic |-> [t \in Topics |-> {k \in ids : disk[k].topic = t}],
                 bytes   |-> BytesOf(Restrict(disk, ids)),
                 dirty   |-> {},
                 removed |-> {}]
  BY DEF Open
<1> HIDE DEF ids
<1>2. s \in Seq(Keys)
  <2>1. Cardinality(ids) \in Nat
    BY <1>0, KeysFinite
  <2>2. s \in [1 .. Cardinality(ids) -> Keys]
    BY <1>0
  <2> QED BY <2>1, <2>2, SeqDef
<1>3. Restrict(disk, ids) \in MsgMap
  BY <1>0, RestrictType DEF TypeOK
<1>4. BytesOf(Restrict(disk, ids)) \in Nat
  BY <1>3, BytesType
<1>5. [t \in Topics |-> {k \in ids : disk[k].topic = t}] \in [Topics -> SUBSET Keys]
  BY <1>0
<1>6. mem' \in MemState
  BY <1>1, <1>2, <1>3, <1>4, <1>5 DEF MemState
<1>7. counter' \in 0 .. MaxIds
  BY FirstFreeType DEF Open, TypeOK
<1>8. handed' \subseteq Clients \X Keys
  <2>1. \A k \in DOMAIN disk : disk[k].delivered \subseteq Clients /\ k \in Keys
    BY <1>0 DEF StoredMsg
  <2> QED BY <2>1 DEF Open
<1>9. chan' \in Seq([key : Keys, msg : StoredMsg])
  BY EmptySeq DEF Open
<1>10. flight' \in [Flushers -> Flight]
  BY EmptyTypes DEF Open
<1>11. skipped' \subseteq Keys
  BY <1>0 DEF Open
<1> QED
  BY <1>6, <1>7, <1>8, <1>9, <1>10, <1>11 DEF Open, TypeOK, NothingDue

\* Every step of the store, its flushers and the process keeps the types.
LEMMA TypeStep ==
    ASSUME TypeOK, [Next]_vars
    PROVE  TypeOK'
<1>1. CASE NextMsgId
  <2>1. <<node, counter>> \in Keys /\ counter + 1 \in 0 .. MaxIds
    BY <1>1, BoundAssumption DEF NextMsgId, TypeOK, Keys
  <2> QED BY <1>1, <2>1 DEF NextMsgId, TypeOK, histVars
<1>2. ASSUME NEW key \in pending, NEW topic \in Topics, NEW size \in Sizes, NEW ttl \in Ttls,
             Store(key, topic, size, ttl)
      PROVE  TypeOK'
  <2> DEFINE msg == [topic |-> topic, size |-> size, expiry |-> now + ttl, delivered |-> {}]
  <2>1. now + ttl \in 0 .. MaxTime
    BY <1>2, SetAssumption, BoundAssumption DEF Store, TypeOK
  <2>2. msg \in StoredMsg /\ key \in Keys
    BY <2>1 DEF StoredMsg, TypeOK
  <2>3. chan' \in Seq([key : Keys, msg : StoredMsg])
    <3>1. chan' = Append(chan, [key |-> key, msg |-> msg])
      BY <1>2 DEF Store
    <3> HIDE DEF msg
    <3>2. [key |-> key, msg |-> msg] \in [key : Keys, msg : StoredMsg]
      BY <2>2
    <3> QED BY <3>1, <3>2, AppendProperties DEF TypeOK
  <2> QED BY <1>2, <2>2, <2>3 DEF Store, TypeOK, histVars
<1>3. CASE WriterRecv
  <2>1. Head(chan) \in [key : Keys, msg : StoredMsg] /\ Tail(chan) \in Seq([key : Keys, msg : StoredMsg])
    BY <1>3, HeadTailProperties DEF WriterRecv, TypeOK
  <2>2. mem' \in MemState
    BY <1>3, <2>1, InsertType, EvictType DEF WriterRecv, TypeOK
  <2> QED BY <1>3, <2>1, <2>2 DEF WriterRecv, TypeOK, histVars
<1>4. ASSUME NEW c \in Clients, NEW f \in Filters, Get(c, f)
      PROVE  TypeOK'
  <2> DEFINE m == Evict(mem, now)
             ids == Selected(m, c, f, now)
  <2>1. m \in MemState
    BY EvictType DEF TypeOK
  <2>2. ids \in SUBSET Keys
    <3> HIDE DEF m
    <3> QED BY <2>1, SelectedType
  <2>3. mem' \in MemState
    <3>1. mem' = Mark(m, c, ids)
      BY <1>4 DEF Get
    <3> HIDE DEF m, ids
    <3> QED BY <2>1, <2>2, <3>1, MarkType
  <2>4. handed' \subseteq Clients \X Keys /\ rehanded' \subseteq Clients \X Keys
    <3>1. handed' = handed \cup ({c} \X ids) /\ rehanded' = rehanded \cup (({c} \X ids) \cap handed)
      BY <1>4 DEF Get
    <3> HIDE DEF m, ids
    <3> QED BY <2>2, <3>1 DEF TypeOK
  <2> QED BY <1>4, <2>3, <2>4 DEF Get, TypeOK
<1>5. ASSUME NEW f \in Flushers, FlushBegin(f)
      PROVE  TypeOK'
  <2> DEFINE m == Evict(mem, now)
             b == Restrict(m.msgs, m.dirty \cap DOMAIN m.msgs)
  <2>1. m \in MemState
    BY EvictType DEF TypeOK
  <2>2. mem' = [m EXCEPT !.dirty = {}, !.removed = {}]
    BY <1>5 DEF FlushBegin
  <2>3. flight' = [flight EXCEPT ![f] =
                     IF DOMAIN b = {} /\ m.removed = {} THEN Returned(f)
                     ELSE [state |-> "commit", batch |-> b, removed |-> m.removed]]
    BY <1>5 DEF FlushBegin
  <2>4. UNCHANGED <<phase, now, node, counter, pending, chan, disk, starts, fails, histVars>>
    BY <1>5 DEF FlushBegin
  <2> HIDE DEF m
  <2>5. b \in MsgMap
    BY <2>1, RestrictType DEF MemState
  <2> HIDE DEF b
  <2>6. mem' \in MemState
    BY <2>1, <2>2 DEF MemState
  <2>7. [state |-> "commit", batch |-> b, removed |-> m.removed] \in Flight
    BY <2>1, <2>5 DEF Flight, MemState
  <2>8. flight' \in [Flushers -> Flight]
    BY <2>3, <2>7, EmptyTypes DEF TypeOK
  <2> QED BY <2>4, <2>6, <2>8 DEF TypeOK, histVars
<1>6. ASSUME NEW f \in Flushers, FlushCommit(f) \/ FlushFail(f)
      PROVE  TypeOK'
  <2>1. flight[f] \in Flight
    BY DEF TypeOK
  <2>2. flight[f].batch \in MsgMap /\ DOMAIN flight[f].batch \subseteq Keys
        /\ flight[f].removed \subseteq Keys
    BY <2>1, MsgMapElim DEF Flight
  <2>3. flight' \in [Flushers -> Flight]
    BY <1>6, EmptyTypes DEF FlushCommit, FlushFail, TypeOK
  <2>4. disk' \in MsgMap
    <3>1. Committed(disk, flight[f].removed, flight[f].batch) \in MsgMap
      BY <2>2, CommittedType DEF TypeOK
    <3> QED BY <1>6, <3>1 DEF FlushCommit, FlushFail, TypeOK
  <2>5. lost' \subseteq Keys /\ fails' \in Nat
    BY <1>6, <2>2 DEF FlushCommit, FlushFail, TypeOK
  <2> QED BY <1>6, <2>3, <2>4, <2>5 DEF FlushCommit, FlushFail, TypeOK
<1>7. CASE Tick
  BY <1>7, BoundAssumption DEF Tick, TypeOK, histVars
<1>8. CASE ShutdownSignal
  <2>1. DOMAIN mem.msgs \subseteq Keys
    BY MsgMapElim DEF TypeOK, MemState
  <2>2. {chan[i].key : i \in DOMAIN chan} \subseteq Keys
    <3>1. \A i \in DOMAIN chan : chan[i] \in [key : Keys, msg : StoredMsg]
      BY LenProperties, ElementOfSeq DEF TypeOK
    <3> QED BY <3>1
  <2> QED BY <1>8, <2>1, <2>2 DEF ShutdownSignal, TypeOK
<1>9. CASE Exit
  BY <1>9 DEF Exit, TypeOK, histVars
<1>10. CASE Crash
  BY <1>10, EmptyTypes, EmptySeq, BoundAssumption DEF Crash, TypeOK, NothingDue
<1>11. ASSUME NEW n \in NodeIds, Open(n) PROVE TypeOK'
  BY <1>11, OpenType
<1>12. CASE UNCHANGED vars
  BY <1>12 DEF vars, TypeOK
<1> QED
  BY <1>1, <1>2, <1>3, <1>4, <1>5, <1>6, <1>7, <1>8, <1>9, <1>10, <1>11, <1>12 DEF Next

\* The state of the store, its channel, its flushers and its table is well typed in every
\* reachable state; bytes never goes below zero and no id leaves the allocated range.
THEOREM TypeCorrect == Spec => []TypeOK
<1>1. TypeOK /\ [Next]_vars => TypeOK'
  BY TypeStep
<1> QED
  BY <1>1, TypeInit, PTL DEF Spec

-----------------------------------------------------------------------------
(* The operations under the mutex keep the indexes and the byte count. *)

\* what every critical section keeps
MemOK(m) == m \in MemState /\ OrderIndex(m) /\ TopicIndex(m) /\ WriteSets(m) /\ m.bytes = BytesOf(m.msgs)

\* The bytes of a part of a map and of the rest add up.
LEMMA BytesSplit ==
    ASSUME NEW f \in MsgMap, NEW T \in SUBSET DOMAIN f
    PROVE  /\ BytesOf(f) = BytesOf(Restrict(f, T)) + BytesOf(Restrict(f, DOMAIN f \ T))
           /\ BytesOf(Restrict(f, T)) \in Nat
           /\ BytesOf(Restrict(f, DOMAIN f \ T)) \in Nat
<1> DEFINE S == DOMAIN f
           sz == [k \in S |-> f[k].size]
<1>1. sz \in [S -> Nat] /\ IsFiniteSet(S)
  BY BytesType
<1>2. \A U \in SUBSET S : [k \in DOMAIN Restrict(f, U) |-> Restrict(f, U)[k].size] = Restrict(sz, U)
  BY DEF Restrict
<1>3. SumFunction(sz) = SumFunction(Restrict(sz, T)) + SumFunction(Restrict(sz, S \ T))
  <2> HIDE DEF sz
  <2> QED BY <1>1, SumSplits
<1>4. BytesOf(f) = SumFunction(sz)
  BY DEF BytesOf
<1>5. \A U \in SUBSET S : BytesOf(Restrict(f, U)) = SumFunction(Restrict(sz, U))
  <2> TAKE U \in SUBSET S
  <2> QED BY <1>2 DEF BytesOf
<1>6. \A U \in SUBSET S : BytesOf(Restrict(f, U)) \in Nat
  BY RestrictType, BytesType
<1> HIDE DEF sz
<1> QED
  BY <1>3, <1>4, <1>5, <1>6

\* Popping ids from the front of order keeps every index and the byte count.
LEMMA PopFrontOK ==
    ASSUME NEW m, MemOK(m), NEW n \in 0 .. Len(m.order)
    PROVE  /\ MemOK(PopFront(m, n))
           /\ DOMAIN PopFront(m, n).msgs = DOMAIN m.msgs \ {m.order[i] : i \in 1 .. n}
           /\ \A k \in DOMAIN PopFront(m, n).msgs : PopFront(m, n).msgs[k] = m.msgs[k]
           /\ PopFront(m, n).removed = m.removed \cup {m.order[i] : i \in 1 .. n}
<1> DEFINE p == PopFront(m, n)
           popped == {m.order[i] : i \in 1 .. n} \cap DOMAIN m.msgs
           kept == DOMAIN m.msgs \ popped
<1>0. /\ m \in MemState /\ OrderIndex(m) /\ TopicIndex(m) /\ WriteSets(m)
      /\ m.bytes = BytesOf(m.msgs)
  BY DEF MemOK
<1>1. m.msgs \in MsgMap /\ m.order \in Seq(Keys) /\ m.bytes \in Nat
  BY <1>0 DEF MemState
<1>2. Len(m.order) \in Nat /\ DOMAIN m.order = 1 .. Len(m.order)
  BY <1>1, LenProperties
<1>3. popped = {m.order[i] : i \in 1 .. n}
  BY <1>0, <1>2 DEF OrderIndex
<1>4. /\ p.msgs = Restrict(m.msgs, kept)
      /\ p.order = SubSeq(m.order, n + 1, Len(m.order))
      /\ p.byTopic = [t \in Topics |-> m.byTopic[t] \ {k \in popped : m.msgs[k].topic = t}]
      /\ p.bytes = SaturatingSub(m.bytes, BytesOf(Restrict(m.msgs, popped)))
      /\ p.dirty = m.dirty \ popped
      /\ p.removed = m.removed \cup popped
  BY DEF PopFront
<1>5. p \in MemState
  BY <1>0, PopFrontType
<1> HIDE DEF p
<1>6. DOMAIN p.msgs = kept /\ \A k \in kept : p.msgs[k] = m.msgs[k]
  BY <1>4 DEF Restrict
<1>7. /\ Len(p.order) = Len(m.order) - n
      /\ \A i \in 1 .. Len(m.order) - n : p.order[i] = m.order[i + n]
      /\ DOMAIN p.order = 1 .. Len(m.order) - n
  <2>1. /\ Len(p.order) = IF n + 1 <= Len(m.order) THEN Len(m.order) - (n + 1) + 1 ELSE 0
        /\ \A i \in 1 .. Len(m.order) - (n + 1) + 1 : p.order[i] = m.order[n + 1 + i - 1]
    BY <1>1, <1>2, <1>4, SubSeqProperties
  <2>2. DOMAIN p.order = 1 .. Len(p.order)
    BY <1>5, LenProperties DEF MemState
  <2> QED BY <1>2, <2>1, <2>2
<1>8. OrderIndex(p)
  <2>1. ASSUME NEW i \in DOMAIN p.order, NEW j \in DOMAIN p.order, p.order[i] = p.order[j]
        PROVE  i = j
    <3>1. /\ i \in 1 .. Len(m.order) - n /\ p.order[i] = m.order[i + n]
          /\ j \in 1 .. Len(m.order) - n /\ p.order[j] = m.order[j + n]
      BY <1>7
    <3>2. m.order[i + n] = m.order[j + n]
      BY <2>1, <3>1
    <3>3. i + n \in DOMAIN m.order /\ j + n \in DOMAIN m.order
      BY <1>2, <3>1
    <3>4. i + n = j + n
      BY <1>0, <3>2, <3>3, Zenon DEF OrderIndex
    <3> QED BY <1>2, <3>1, <3>4
  <2>2. ASSUME NEW i \in DOMAIN p.order PROVE p.order[i] \in kept
    <3>1. i + n \in DOMAIN m.order /\ p.order[i] = m.order[i + n]
      BY <1>2, <1>7
    <3>2. m.order[i + n] \in DOMAIN m.msgs
      BY <1>0, <3>1 DEF OrderIndex
    <3>3. \A j \in 1 .. n : m.order[j] # m.order[i + n]
      <4> SUFFICES ASSUME NEW j \in 1 .. n, m.order[j] = m.order[i + n] PROVE FALSE
        OBVIOUS
      <4>1. j \in DOMAIN m.order /\ j # i + n
        BY <1>2, <1>7
      <4> QED BY <1>0, <3>1, <4>1 DEF OrderIndex
    <3> QED BY <1>3, <3>1, <3>2, <3>3
  <2>3. ASSUME NEW k \in kept PROVE \E i \in DOMAIN p.order : p.order[i] = k
    <3>1. PICK j \in DOMAIN m.order : m.order[j] = k
      BY <1>0 DEF OrderIndex
    <3>2. j \notin 1 .. n
      BY <1>3, <3>1
    <3>3. j - n \in DOMAIN p.order /\ (j - n) + n = j
      BY <1>2, <1>7, <3>2
    <3> QED BY <1>7, <3>1, <3>3
  <2> QED BY <1>6, <2>1, <2>2, <2>3 DEF OrderIndex
<1>9. TopicIndex(p)
  <2> SUFFICES ASSUME NEW t \in Topics
               PROVE  p.byTopic[t] = {k \in DOMAIN p.msgs : p.msgs[k].topic = t}
    BY DEF TopicIndex
  <2>1. m.byTopic[t] = {k \in DOMAIN m.msgs : m.msgs[k].topic = t}
    BY <1>0 DEF TopicIndex
  <2>2. p.byTopic[t] = m.byTopic[t] \ {k \in popped : m.msgs[k].topic = t}
    BY <1>4
  <2>3. p.byTopic[t] = {k \in kept : m.msgs[k].topic = t}
    BY <2>1, <2>2
  <2> QED BY <1>6, <2>3
<1>10. WriteSets(p)
  BY <1>0, <1>4, <1>6 DEF WriteSets
<1>11. p.bytes = BytesOf(p.msgs)
  <2>1. /\ BytesOf(m.msgs) = BytesOf(Restrict(m.msgs, popped)) + BytesOf(Restrict(m.msgs, kept))
        /\ BytesOf(Restrict(m.msgs, popped)) \in Nat
        /\ BytesOf(Restrict(m.msgs, kept)) \in Nat
    BY <1>1, BytesSplit
  <2> QED BY <1>0, <1>4, <2>1 DEF SaturatingSub
<1>12. MemOK(p)
  BY <1>5, <1>8, <1>9, <1>10, <1>11 DEF MemOK
<1> HIDE DEF popped
<1> QED
  BY <1>3, <1>4, <1>6, <1>12 DEF p

\* evict keeps every index and the byte count, only drops messages, and schedules the
\* dropped ones for deletion.
LEMMA EvictOK ==
    ASSUME NEW m, MemOK(m), NEW t
    PROVE  /\ MemOK(Evict(m, t))
           /\ DOMAIN Evict(m, t).msgs \subseteq DOMAIN m.msgs
           /\ \A k \in DOMAIN Evict(m, t).msgs : Evict(m, t).msgs[k] = m.msgs[k]
           /\ Evict(m, t).removed = m.removed \cup (DOMAIN m.msgs \ DOMAIN Evict(m, t).msgs)
<1>1. m \in MemState /\ OrderIndex(m)
  BY DEF MemOK
<1>2. PICK n \in 0 .. Len(m.order) : Evict(m, t) = PopFront(m, n)
  BY <1>1, EvictPops
<1>3. {m.order[i] : i \in 1 .. n} \subseteq DOMAIN m.msgs
  BY <1>1, LenProperties DEF OrderIndex, MemState
<1> QED
  BY <1>2, <1>3, PopFrontOK

\* Inserting a message under a new id keeps every index and the byte count.
LEMMA InsertOK ==
    ASSUME NEW m, MemOK(m), NEW key \in Keys, NEW msg \in StoredMsg, key \notin DOMAIN m.msgs
    PROVE  /\ MemOK(Insert(m, key, msg))
           /\ DOMAIN Insert(m, key, msg).msgs = DOMAIN m.msgs \cup {key}
           /\ \A k \in DOMAIN m.msgs : Insert(m, key, msg).msgs[k] = m.msgs[k]
           /\ Insert(m, key, msg).msgs[key] = msg
           /\ Insert(m, key, msg).removed = m.removed \ {key}
<1> DEFINE p == Insert(m, key, msg)
<1>0. /\ m \in MemState /\ OrderIndex(m) /\ TopicIndex(m) /\ WriteSets(m)
      /\ m.bytes = BytesOf(m.msgs)
  BY DEF MemOK
<1>1. m.msgs \in MsgMap /\ m.order \in Seq(Keys) /\ m.bytes \in Nat /\ m.byTopic \in [Topics -> SUBSET Keys]
  BY <1>0 DEF MemState
<1>2. msg.topic \in Topics /\ msg.size \in Nat
  BY SetAssumption DEF StoredMsg
<1>3. /\ p.msgs = [k \in DOMAIN m.msgs \cup {key} |-> IF k = key THEN msg ELSE m.msgs[k]]
      /\ p.order = Append(m.order, key)
      /\ p.byTopic = [m.byTopic EXCEPT ![msg.topic] = @ \cup {key}]
      /\ p.bytes = m.bytes + msg.size
      /\ p.dirty = m.dirty \cup {key}
      /\ p.removed = m.removed \ {key}
  BY <1>1 DEF Insert, SaturatingSub
<1>4. p \in MemState
  BY <1>0, InsertType
<1> HIDE DEF p
<1>5. /\ DOMAIN p.msgs = DOMAIN m.msgs \cup {key}
      /\ \A k \in DOMAIN m.msgs : p.msgs[k] = m.msgs[k]
      /\ p.msgs[key] = msg
  BY <1>3
<1>6. OrderIndex(p)
  <2>1. /\ Len(m.order) \in Nat /\ DOMAIN m.order = 1 .. Len(m.order)
        /\ Len(p.order) = Len(m.order) + 1 /\ DOMAIN p.order = 1 .. Len(m.order) + 1
    BY <1>1, <1>3, <1>4, LenProperties, AppendProperties DEF MemState
  <2>2. p.order[Len(m.order) + 1] = key /\ \A i \in DOMAIN m.order : p.order[i] = m.order[i]
    BY <1>1, <1>3, <2>1, AppendProperties
  <2>3. \A i \in DOMAIN m.order : m.order[i] \in DOMAIN m.msgs /\ m.order[i] # key
    BY <1>0 DEF OrderIndex
  <2>4. \A i \in DOMAIN p.order : i \in DOMAIN m.order \/ i = Len(m.order) + 1
    BY <2>1
  <2>5. ASSUME NEW i \in DOMAIN p.order, NEW j \in DOMAIN p.order, p.order[i] = p.order[j]
        PROVE  i = j
    BY <1>0, <2>2, <2>3, <2>4, <2>5 DEF OrderIndex
  <2>6. \A i \in DOMAIN p.order : p.order[i] \in DOMAIN p.msgs
    BY <1>5, <2>2, <2>3, <2>4
  <2>7. ASSUME NEW k \in DOMAIN p.msgs PROVE \E i \in DOMAIN p.order : p.order[i] = k
    <3>1. CASE k = key
      BY <2>1, <2>2, <3>1
    <3>2. CASE k \in DOMAIN m.msgs
      <4>1. PICK j \in DOMAIN m.order : m.order[j] = k
        BY <1>0, <3>2 DEF OrderIndex
      <4>2. j \in DOMAIN p.order
        BY <2>1
      <4> QED BY <2>2, <4>1, <4>2
    <3> QED BY <1>5, <3>1, <3>2
  <2> QED BY <2>5, <2>6, <2>7 DEF OrderIndex
<1>7. TopicIndex(p)
  <2> SUFFICES ASSUME NEW t \in Topics
               PROVE  p.byTopic[t] = {k \in DOMAIN p.msgs : p.msgs[k].topic = t}
    BY DEF TopicIndex
  <2>1. m.byTopic[t] = {k \in DOMAIN m.msgs : m.msgs[k].topic = t}
    BY <1>0 DEF TopicIndex
  <2>2. p.byTopic[t] = IF t = msg.topic THEN m.byTopic[t] \cup {key} ELSE m.byTopic[t]
    BY <1>1, <1>3
  <2> QED BY <1>5, <2>1, <2>2
<1>8. WriteSets(p)
  BY <1>0, <1>3, <1>5 DEF WriteSets
<1>9. p.bytes = BytesOf(p.msgs)
  <2>1. p.msgs \in MsgMap
    BY <1>4 DEF MemState
  <2>2. BytesOf(p.msgs) = BytesOf(Restrict(p.msgs, {key})) + BytesOf(Restrict(p.msgs, DOMAIN p.msgs \ {key}))
    BY <1>5, <2>1, BytesSplit
  <2>3. Restrict(p.msgs, DOMAIN p.msgs \ {key}) = m.msgs
    <3>1. m.msgs = [k \in DOMAIN m.msgs |-> m.msgs[k]]
      BY <1>1, MsgMapElim
    <3>2. DOMAIN p.msgs \ {key} = DOMAIN m.msgs
      BY <1>5
    <3> QED BY <1>5, <3>1, <3>2 DEF Restrict
  <2>4. BytesOf(Restrict(p.msgs, {key})) = msg.size
    <3> DEFINE one == [k \in {key} |-> msg.size]
    <3>1. [k \in DOMAIN Restrict(p.msgs, {key}) |-> Restrict(p.msgs, {key})[k].size] = one
      BY <1>5 DEF Restrict
    <3>2. one \in [{key} -> Nat] /\ one[key] = msg.size
      BY <1>2
    <3>3. SumFunction(one) = msg.size
      <4> HIDE DEF one
      <4> QED BY <3>2, SumOfOne
    <3> HIDE DEF one
    <3> QED BY <3>1, <3>3 DEF BytesOf
  <2> QED BY <1>0, <1>1, <1>2, <1>3, <2>2, <2>3, <2>4
<1> QED
  BY <1>3, <1>4, <1>5, <1>6, <1>7, <1>8, <1>9 DEF MemOK, p

\* Marking stored messages as delivered keeps every index and the byte count.
LEMMA MarkOK ==
    ASSUME NEW m, MemOK(m), NEW c \in Clients, NEW ids \in SUBSET DOMAIN m.msgs
    PROVE  /\ MemOK(Mark(m, c, ids))
           /\ DOMAIN Mark(m, c, ids).msgs = DOMAIN m.msgs
           /\ \A k \in DOMAIN m.msgs :
                 /\ m.msgs[k].delivered \subseteq Mark(m, c, ids).msgs[k].delivered
                 /\ k \in ids => c \in Mark(m, c, ids).msgs[k].delivered
           /\ Mark(m, c, ids).removed = m.removed
           /\ Mark(m, c, ids).bytes = m.bytes
<1> DEFINE p == Mark(m, c, ids)
<1>0. /\ m \in MemState /\ OrderIndex(m) /\ TopicIndex(m) /\ WriteSets(m)
      /\ m.bytes = BytesOf(m.msgs)
  BY DEF MemOK
<1>1. m.msgs \in MsgMap /\ DOMAIN m.msgs \subseteq Keys /\ m.msgs \in [DOMAIN m.msgs -> StoredMsg]
  BY <1>0, MsgMapElim DEF MemState
<1>2. p \in MemState
  BY <1>0, <1>1, MarkType
<1>3. /\ p.msgs = [k \in DOMAIN m.msgs |->
                      IF k \in ids THEN [m.msgs[k] EXCEPT !.delivered = @ \cup {c}] ELSE m.msgs[k]]
      /\ p.order = m.order /\ p.byTopic = m.byTopic /\ p.bytes = m.bytes
      /\ p.dirty = m.dirty \cup ids /\ p.removed = m.removed
  BY <1>0 DEF Mark, MemState
<1> HIDE DEF p
<1>4. /\ DOMAIN p.msgs = DOMAIN m.msgs
      /\ \A k \in DOMAIN m.msgs : /\ p.msgs[k].topic = m.msgs[k].topic
                                  /\ p.msgs[k].size = m.msgs[k].size
                                  /\ m.msgs[k].delivered \subseteq p.msgs[k].delivered
                                  /\ k \in ids => c \in p.msgs[k].delivered
  BY <1>1, <1>3 DEF StoredMsg
<1>5. OrderIndex(p) /\ TopicIndex(p) /\ WriteSets(p)
  BY <1>0, <1>3, <1>4 DEF OrderIndex, TopicIndex, WriteSets
<1>6. p.bytes = BytesOf(p.msgs)
  <2>1. [k \in DOMAIN p.msgs |-> p.msgs[k].size] = [k \in DOMAIN m.msgs |-> m.msgs[k].size]
    BY <1>4
  <2> QED BY <1>0, <1>3, <2>1 DEF BytesOf
<1> QED
  BY <1>2, <1>3, <1>4, <1>5, <1>6 DEF MemOK, p

-----------------------------------------------------------------------------
(* The inductive invariant. *)

\* no id is sent twice
ChanDistinct == \A i, j \in DOMAIN chan : chan[i].key = chan[j].key => i = j

\* An id that get handed to a client is not on its way to the writer task, will not be
\* allocated again, and its message, if stored, carries the mark.
HandedMarked ==
    Up => \A c \in Clients, k \in Keys : <<c, k>> \in handed =>
              /\ k[1] = node => k[2] < counter
              /\ k \notin pending \cup ChanKeys
              /\ k \in DOMAIN mem.msgs => c \in mem.msgs[k].delivered

StoreInv ==
    TypeOK /\ IndexConsistent /\ BytesExact /\ FreshIds /\ HandedMarked /\ AtMostOnceGet

\* The invariant on mem is what the critical sections keep.
LEMMA MemInv == TypeOK => (IndexConsistent /\ BytesExact <=> MemOK(mem))
BY DEF TypeOK, IndexConsistent, BytesExact, MemOK

\* The first open produces consistent, empty state.
LEMMA StoreInit == Init => StoreInv
<1> SUFFICES ASSUME Init PROVE StoreInv
  OBVIOUS
<1>1. TypeOK
  BY TypeInit
<1>2. DOMAIN NoMsgs = {}
  BY EmptyTypes
<1>3. mem = EmptyMem /\ mem.msgs = NoMsgs /\ mem.order = << >> /\ mem.removed = {} /\ mem.dirty = {}
      /\ mem.bytes = 0 /\ mem.byTopic = [t \in Topics |-> {}]
  BY DEF Init, EmptyMem
<1>4. IndexConsistent
  BY <1>2, <1>3 DEF IndexConsistent, OrderIndex, TopicIndex, WriteSets
<1>5. BytesExact
  <2>1. [k \in DOMAIN NoMsgs |-> NoMsgs[k].size] \in [{} -> Nat]
    BY <1>2
  <2>2. BytesOf(NoMsgs) = 0
    BY <2>1, SumOfEmpty DEF BytesOf
  <2> QED BY <1>3, <2>2 DEF BytesExact
<1>6. FreshIds
  <2>1. pending = {} /\ ChanKeys = {} /\ DOMAIN chan = {} /\ DOMAIN disk = {}
    BY <1>2 DEF Init, ChanKeys
  <2>2. \A f \in Flushers : FlightKeys(f) = {}
    BY <1>2 DEF Init, FlightKeys, IdleFlight
  <2>3. UsedKeys = {}
    BY <1>2, <1>3, <2>1, <2>2 DEF UsedKeys
  <2> QED BY <2>1, <2>3 DEF FreshIds
<1> QED
  BY <1>1, <1>4, <1>5, <1>6 DEF StoreInv, HandedMarked, AtMostOnceGet, Init

\* What the writer task takes from the channel, and what it leaves there.
LEMMA ChanTail ==
    ASSUME TypeOK, ChanDistinct, chan # << >>, chan' = Tail(chan)
    PROVE  /\ Head(chan).key \in Keys /\ Head(chan).msg \in StoredMsg
           /\ ChanKeys' = ChanKeys \ {Head(chan).key}
           /\ Head(chan).key \in ChanKeys
           /\ ChanDistinct'
<1>1. /\ chan \in Seq([key : Keys, msg : StoredMsg]) /\ Len(chan) \in Nat \ {0}
      /\ DOMAIN chan = 1 .. Len(chan)
  BY LenProperties, EmptySeq DEF TypeOK
<1>2. Head(chan) = chan[1] /\ chan[1] \in [key : Keys, msg : StoredMsg]
  <2>1. 1 \in 1 .. Len(chan)
    BY <1>1
  <2>2. chan[1] \in [key : Keys, msg : StoredMsg]
    BY <1>1, <2>1, ElementOfSeq
  <2> QED BY <1>1, <2>2
<1>3. /\ DOMAIN chan' = 1 .. Len(chan) - 1
      /\ \A i \in 1 .. Len(chan) - 1 : chan'[i] = chan[i + 1]
  <2>1. Tail(chan) \in Seq([key : Keys, msg : StoredMsg]) /\ Len(Tail(chan)) = Len(chan) - 1
    BY <1>1, HeadTailProperties
  <2>2. DOMAIN Tail(chan) = 1 .. Len(chan) - 1
    BY <2>1, LenProperties
  <2>3. \A i \in 1 .. Len(chan) - 1 : Tail(chan)[i] = chan[i + 1]
    BY <1>1, <2>1
  <2> QED BY <2>2, <2>3
<1>4. ASSUME NEW k \in ChanKeys, k # chan[1].key PROVE k \in ChanKeys'
  <2>1. PICK i \in DOMAIN chan : chan[i].key = k
    BY DEF ChanKeys
  <2>2. i # 1
    BY <1>4, <2>1
  <2>3. i - 1 \in DOMAIN chan' /\ chan'[i - 1] = chan[i]
    BY <1>1, <1>3, <2>2
  <2> QED BY <2>1, <2>3 DEF ChanKeys
<1>5. ASSUME NEW i \in DOMAIN chan' PROVE chan'[i].key \in ChanKeys /\ chan'[i].key # chan[1].key
  <2>1. i + 1 \in DOMAIN chan /\ 1 \in DOMAIN chan /\ i + 1 # 1 /\ chan'[i] = chan[i + 1]
    BY <1>1, <1>3
  <2>2. chan[i + 1].key # chan[1].key
    BY <2>1, Zenon DEF ChanDistinct
  <2> QED BY <2>1, <2>2 DEF ChanKeys
<1>6. ChanKeys' = ChanKeys \ {chan[1].key}
  BY <1>4, <1>5 DEF ChanKeys
<1>7. ASSUME NEW i \in DOMAIN chan', NEW j \in DOMAIN chan', chan'[i].key = chan'[j].key PROVE i = j
  <2>1. /\ i + 1 \in DOMAIN chan /\ chan'[i] = chan[i + 1]
        /\ j + 1 \in DOMAIN chan /\ chan'[j] = chan[j + 1]
    BY <1>1, <1>3
  <2>2. i + 1 = j + 1
    BY <1>7, <2>1 DEF ChanDistinct
  <2> QED BY <1>3, <1>1, <2>2
<1>8. chan[1].key \in ChanKeys
  BY <1>1 DEF ChanKeys
<1> QED
  BY <1>2, <1>6, <1>7, <1>8 DEF ChanDistinct

\* store adds its id to the channel.
LEMMA ChanAppend ==
    ASSUME TypeOK, ChanDistinct, NEW key \in Keys, NEW msg \in StoredMsg, key \notin ChanKeys,
           chan' = Append(chan, [key |-> key, msg |-> msg])
    PROVE  ChanKeys' = ChanKeys \cup {key} /\ ChanDistinct'
<1> DEFINE e == [key |-> key, msg |-> msg]
<1>1. /\ chan \in Seq([key : Keys, msg : StoredMsg]) /\ Len(chan) \in Nat
      /\ DOMAIN chan = 1 .. Len(chan)
  BY LenProperties DEF TypeOK
<1>2. e \in [key : Keys, msg : StoredMsg] /\ e.key = key
  OBVIOUS
<1> HIDE DEF e
<1>3. /\ chan' = Append(chan, e)
      /\ DOMAIN chan' = 1 .. Len(chan) + 1
      /\ chan'[Len(chan) + 1] = e
      /\ \A i \in 1 .. Len(chan) : chan'[i] = chan[i]
  <2>1. chan' = Append(chan, e)
    BY DEF e
  <2>2. Append(chan, e) \in Seq([key : Keys, msg : StoredMsg]) /\ Len(Append(chan, e)) = Len(chan) + 1
        /\ Append(chan, e)[Len(chan) + 1] = e
        /\ \A i \in 1 .. Len(chan) : Append(chan, e)[i] = chan[i]
    BY <1>1, <1>2, AppendProperties
  <2>3. DOMAIN Append(chan, e) = 1 .. Len(chan) + 1
    BY <2>2, LenProperties
  <2> QED BY <2>1, <2>2, <2>3
<1>4. \A i \in DOMAIN chan' : i \in DOMAIN chan \/ i = Len(chan) + 1
  BY <1>1, <1>3
<1>5. \A i \in DOMAIN chan : i \in DOMAIN chan' /\ chan'[i] = chan[i] /\ chan[i].key # key
  BY <1>1, <1>3 DEF ChanKeys
<1>6. Len(chan) + 1 \in DOMAIN chan' /\ chan'[Len(chan) + 1].key = key
  BY <1>1, <1>2, <1>3
<1>7. ChanKeys' = ChanKeys \cup {key}
  BY <1>4, <1>5, <1>6 DEF ChanKeys
<1>8. ChanDistinct'
  BY <1>4, <1>5, <1>6 DEF ChanDistinct
<1> QED
  BY <1>7, <1>8

\* Draining dirty and removed keeps every index and the byte count.
LEMMA DrainOK ==
    ASSUME NEW m, MemOK(m)
    PROVE  /\ MemOK([m EXCEPT !.dirty = {}, !.removed = {}])
           /\ [m EXCEPT !.dirty = {}, !.removed = {}].msgs = m.msgs
           /\ [m EXCEPT !.dirty = {}, !.removed = {}].bytes = m.bytes
           /\ [m EXCEPT !.dirty = {}, !.removed = {}].removed = {}
<1> DEFINE p == [m EXCEPT !.dirty = {}, !.removed = {}]
<1>1. m \in MemState
  BY DEF MemOK
<1>2. /\ p \in MemState /\ p.msgs = m.msgs /\ p.order = m.order /\ p.byTopic = m.byTopic
      /\ p.bytes = m.bytes /\ p.dirty = {} /\ p.removed = {}
  BY <1>1 DEF MemState
<1> HIDE DEF p
<1>3. MemOK(p)
  BY <1>2 DEF MemOK, OrderIndex, TopicIndex, WriteSets
<1> QED
  BY <1>2, <1>3 DEF p

\* Loading rows from a table produces consistent indexes and byte count.
LEMMA OpenMem ==
    ASSUME TypeOK, NEW n \in NodeIds, Open(n)
    PROVE  MemOK(mem') /\ mem'.msgs = Restrict(disk, Loaded(now)) /\ mem'.removed = {}
<1> DEFINE ids == Loaded(now)
<1>0. ids \in SUBSET DOMAIN disk /\ DOMAIN disk \subseteq Keys /\ disk \in [DOMAIN disk -> StoredMsg]
  BY MsgMapElim DEF TypeOK, Loaded
<1>1. PICK s \in [1 .. Cardinality(ids) -> ids] :
         /\ IsOpenOrder(s, ids)
         /\ mem' = [msgs    |-> Restrict(disk, ids),
                    order   |-> s,
                    byTopic |-> [t \in Topics |-> {k \in ids : disk[k].topic = t}],
                    bytes   |-> BytesOf(Restrict(disk, ids)),
                    dirty   |-> {},
                    removed |-> {}]
  BY DEF Open
<1>2. mem' \in MemState
  BY OpenType DEF TypeOK
<1> HIDE DEF ids
<1>3. Cardinality(ids) \in Nat /\ DOMAIN s = 1 .. Cardinality(ids) /\ \A i \in DOMAIN s : s[i] \in ids
  BY <1>0, KeysFinite
<1>4. \A k \in ids : ~ Before(k, k)
  <2> SUFFICES ASSUME NEW k \in ids, Before(k, k) PROVE FALSE
    OBVIOUS
  <2>1. disk[k].expiry \in Int /\ k[1] \in Int /\ k[2] \in Int
    BY <1>0, BoundAssumption DEF StoredMsg, Keys
  <2> QED BY <2>1 DEF Before
<1>5. ASSUME NEW i \in DOMAIN s, NEW j \in DOMAIN s, s[i] = s[j] PROVE i = j
  <2>1. ~ (i < j) /\ ~ (j < i)
    BY <1>1, <1>3, <1>4, <1>5 DEF IsOpenOrder
  <2> QED BY <1>3, <2>1
<1>6. DOMAIN Restrict(disk, ids) = ids /\ \A k \in ids : Restrict(disk, ids)[k] = disk[k]
  BY <1>0 DEF Restrict
<1>7. OrderIndex(mem')
  BY <1>1, <1>5, <1>6 DEF OrderIndex, IsOpenOrder
<1>8. TopicIndex(mem') /\ WriteSets(mem') /\ mem'.bytes = BytesOf(mem'.msgs)
  BY <1>1, <1>6 DEF TopicIndex, WriteSets
<1> QED
  BY <1>1, <1>2, <1>7, <1>8 DEF MemOK, ids

\* Every critical section, and every restart, leaves consistent indexes and byte count.
LEMMA MemStep ==
    ASSUME StoreInv, [Next]_vars
    PROVE  MemOK(mem')
<1>0. TypeOK /\ MemOK(mem) /\ FreshIds
  BY MemInv DEF StoreInv
<1>1. CASE WriterRecv
  <2>1. Up /\ chan # << >> /\ chan' = Tail(chan) /\ ChanDistinct
        /\ mem' = Evict(Insert(mem, Head(chan).key, Head(chan).msg), now)
    BY <1>0, <1>1 DEF WriterRecv, FreshIds, ChanDistinct
  <2>2. Head(chan).key \in Keys /\ Head(chan).msg \in StoredMsg /\ Head(chan).key \in ChanKeys
    BY <1>0, <2>1, ChanTail
  <2>3. Head(chan).key \notin DOMAIN mem.msgs
    BY <1>0, <2>1, <2>2 DEF FreshIds, UsedKeys
  <2>4. MemOK(Insert(mem, Head(chan).key, Head(chan).msg))
    BY <1>0, <2>2, <2>3, InsertOK
  <2> QED BY <2>1, <2>4, EvictOK
<1>2. ASSUME NEW c \in Clients, NEW f \in Filters, Get(c, f) PROVE MemOK(mem')
  <2> DEFINE m == Evict(mem, now)
  <2>1. MemOK(m) /\ mem' = Mark(m, c, Selected(m, c, f, now))
    BY <1>0, <1>2, EvictOK DEF Get
  <2> HIDE DEF m
  <2>2. Selected(m, c, f, now) \in SUBSET DOMAIN m.msgs
    BY <2>1, SelectedType DEF MemOK
  <2> QED BY <2>1, <2>2, MarkOK
<1>3. ASSUME NEW f \in Flushers, FlushBegin(f) PROVE MemOK(mem')
  <2> DEFINE m == Evict(mem, now)
  <2>1. MemOK(m) /\ mem' = [m EXCEPT !.dirty = {}, !.removed = {}]
    BY <1>0, <1>3, EvictOK DEF FlushBegin
  <2> HIDE DEF m
  <2> QED BY <2>1, DrainOK
<1>4. CASE Crash
  <2>1. mem' = EmptyMem
    BY <1>4 DEF Crash
  <2>2. MemOK(EmptyMem)
    <3>1. EmptyMem \in MemState /\ DOMAIN NoMsgs = {} /\ EmptyMem.msgs = NoMsgs
      BY EmptyTypes DEF EmptyMem
    <3>2. [k \in DOMAIN NoMsgs |-> NoMsgs[k].size] \in [{} -> Nat]
      BY <3>1
    <3>3. BytesOf(NoMsgs) = 0
      BY <3>2, SumOfEmpty DEF BytesOf
    <3> QED BY <3>1, <3>3 DEF MemOK, OrderIndex, TopicIndex, WriteSets, EmptyMem
  <2> QED BY <2>1, <2>2
<1>5. ASSUME NEW n \in NodeIds, Open(n) PROVE MemOK(mem')
  BY <1>0, <1>5, OpenMem
<1>6. CASE UNCHANGED mem
  BY <1>0, <1>6
<1> QED
  BY <1>1, <1>2, <1>3, <1>4, <1>5, <1>6
     DEF Next, NextMsgId, Store, FlushCommit, FlushFail, Tick, ShutdownSignal, Exit, vars

\* A step that takes no id from the counter or the channel, and uses no new one, keeps
\* ids fresh.
LEMMA FreshShrinks ==
    ASSUME FreshIds, Up, UNCHANGED <<node, counter, pending, chan>>, UsedKeys' \subseteq UsedKeys
    PROVE  FreshIds'
<1>1. ChanKeys' = ChanKeys
  BY DEF ChanKeys
<1> QED
  BY <1>1 DEF FreshIds

\* Every id in use was allocated by next_msg_id or read from the table.
LEMMA KeysInUse ==
    ASSUME TypeOK
    PROVE  pending \cup ChanKeys \cup UsedKeys \subseteq Keys
<1>1. ChanKeys \subseteq Keys
  <2>1. \A i \in DOMAIN chan : chan[i] \in [key : Keys, msg : StoredMsg]
    BY LenProperties, ElementOfSeq DEF TypeOK
  <2> QED BY <2>1 DEF ChanKeys
<1>2. DOMAIN mem.msgs \cup mem.removed \cup DOMAIN disk \subseteq Keys
  BY MsgMapElim DEF TypeOK, MemState
<1>3. \A f \in Flushers : FlightKeys(f) \subseteq Keys
  <2> TAKE f \in Flushers
  <2>1. flight[f].batch \in MsgMap /\ flight[f].removed \subseteq Keys
    BY DEF TypeOK, Flight
  <2> QED BY <2>1, MsgMapElim DEF FlightKeys
<1> QED
  BY <1>1, <1>2, <1>3 DEF UsedKeys, TypeOK

\* Every step keeps allocated ids unique.
LEMMA FreshStep ==
    ASSUME StoreInv, [Next]_vars
    PROVE  FreshIds'
<1>0. TypeOK /\ MemOK(mem) /\ FreshIds
  BY MemInv DEF StoreInv
<1>1. CASE NextMsgId
  <2>1. Up /\ counter' = counter + 1 /\ pending' = pending \cup {<<node, counter>>}
        /\ UNCHANGED <<node, chan, mem, flight, disk, phase>>
    BY <1>1 DEF NextMsgId
  <2>2. UsedKeys' = UsedKeys /\ ChanKeys' = ChanKeys
    BY <2>1 DEF UsedKeys, FlightKeys, ChanKeys
  <2>3. counter \in Nat /\ \A k \in pending \cup ChanKeys \cup UsedKeys : k[1] = node => k[2] < counter
    BY <1>0, <2>1 DEF FreshIds, TypeOK
  <2>4. <<node, counter>> \notin pending \cup ChanKeys \cup UsedKeys
    BY <2>3
  <2>5. \A k \in pending \cup ChanKeys \cup UsedKeys : k[1] = node => k[2] < counter + 1
    <3>1. pending \cup ChanKeys \cup UsedKeys \subseteq Keys
      BY <1>0, KeysInUse
    <3> QED BY <2>3, <3>1 DEF Keys
  <2> QED BY <1>0, <2>1, <2>2, <2>3, <2>4, <2>5 DEF FreshIds
<1>2. ASSUME NEW key \in pending, NEW topic \in Topics, NEW size \in Sizes, NEW ttl \in Ttls,
             Store(key, topic, size, ttl)
      PROVE  FreshIds'
  <2> DEFINE msg == [topic |-> topic, size |-> size, expiry |-> now + ttl, delivered |-> {}]
  <2>1. Up /\ pending' = pending \ {key} /\ chan' = Append(chan, [key |-> key, msg |-> msg])
        /\ UNCHANGED <<node, counter, mem, flight, disk, phase>>
    BY <1>2 DEF Store
  <2>2. msg \in StoredMsg /\ key \in Keys
    BY <1>0, <1>2, SetAssumption, BoundAssumption DEF Store, TypeOK, StoredMsg
  <2> HIDE DEF msg
  <2>3. ChanDistinct /\ key \notin ChanKeys
    BY <1>0, <2>1 DEF FreshIds, ChanDistinct
  <2>4. ChanKeys' = ChanKeys \cup {key} /\ ChanDistinct'
    BY <1>0, <2>1, <2>2, <2>3, ChanAppend
  <2>5. UsedKeys' = UsedKeys
    BY <2>1 DEF UsedKeys, FlightKeys
  <2> QED BY <1>0, <2>1, <2>4, <2>5 DEF FreshIds, ChanDistinct
<1>3. CASE WriterRecv
  <2> DEFINE key == Head(chan).key
             m == Insert(mem, key, Head(chan).msg)
  <2>1. Up /\ chan # << >> /\ chan' = Tail(chan) /\ ChanDistinct /\ mem' = Evict(m, now)
        /\ UNCHANGED <<node, counter, pending, flight, disk, phase>>
    BY <1>0, <1>3 DEF WriterRecv, FreshIds, ChanDistinct
  <2>2. /\ key \in Keys /\ Head(chan).msg \in StoredMsg /\ key \in ChanKeys
        /\ ChanKeys' = ChanKeys \ {key} /\ ChanDistinct'
    BY <1>0, <2>1, ChanTail
  <2>3. key \notin DOMAIN mem.msgs
    BY <1>0, <2>1, <2>2 DEF FreshIds, UsedKeys
  <2>4. MemOK(m) /\ DOMAIN m.msgs = DOMAIN mem.msgs \cup {key} /\ m.removed = mem.removed \ {key}
    BY <1>0, <2>2, <2>3, InsertOK
  <2> HIDE DEF m, key
  <2>5. DOMAIN mem'.msgs \subseteq DOMAIN m.msgs /\ mem'.removed \subseteq m.removed \cup DOMAIN m.msgs
    BY <2>1, <2>4, EvictOK
  <2>6. UsedKeys' \subseteq UsedKeys \cup {key}
    BY <2>1, <2>4, <2>5 DEF UsedKeys, FlightKeys
  <2> QED BY <1>0, <2>1, <2>2, <2>6 DEF FreshIds, ChanDistinct
<1>4. ASSUME NEW c \in Clients, NEW f \in Filters, Get(c, f) PROVE FreshIds'
  <2> DEFINE m == Evict(mem, now)
  <2>1. /\ MemOK(m) /\ mem' = Mark(m, c, Selected(m, c, f, now))
        /\ DOMAIN m.msgs \subseteq DOMAIN mem.msgs /\ m.removed \subseteq mem.removed \cup DOMAIN mem.msgs
        /\ Up /\ UNCHANGED <<node, counter, pending, chan, flight, disk>>
    BY <1>0, <1>4, EvictOK DEF Get
  <2> HIDE DEF m
  <2>2. Selected(m, c, f, now) \in SUBSET DOMAIN m.msgs
    BY <2>1, SelectedType DEF MemOK
  <2>3. DOMAIN mem'.msgs = DOMAIN m.msgs /\ mem'.removed = m.removed
    BY <2>1, <2>2, MarkOK
  <2>4. UsedKeys' \subseteq UsedKeys
    BY <2>1, <2>3 DEF UsedKeys, FlightKeys
  <2> QED BY <1>0, <2>1, <2>4, FreshShrinks
<1>5. ASSUME NEW f \in Flushers, FlushBegin(f) PROVE FreshIds'
  <2> DEFINE m == Evict(mem, now)
             b == Restrict(m.msgs, m.dirty \cap DOMAIN m.msgs)
  <2>1. /\ MemOK(m) /\ mem' = [m EXCEPT !.dirty = {}, !.removed = {}]
        /\ DOMAIN m.msgs \subseteq DOMAIN mem.msgs /\ m.removed \subseteq mem.removed \cup DOMAIN mem.msgs
        /\ Up /\ UNCHANGED <<node, counter, pending, chan, disk>>
    BY <1>0, <1>5, EvictOK DEF FlushBegin
  <2>2. flight' = [flight EXCEPT ![f] =
                     IF DOMAIN b = {} /\ m.removed = {} THEN Returned(f)
                     ELSE [state |-> "commit", batch |-> b, removed |-> m.removed]]
    BY <1>5 DEF FlushBegin
  <2> HIDE DEF m
  <2>3. mem'.msgs = m.msgs /\ mem'.removed = {}
    BY <2>1, DrainOK
  <2>4. DOMAIN b \subseteq DOMAIN m.msgs
    BY DEF Restrict
  <2> HIDE DEF b
  <2>5. \A g \in Flushers : FlightKeys(g)' \subseteq FlightKeys(g) \cup DOMAIN m.msgs \cup m.removed
    <3> TAKE g \in Flushers
    <3>1. CASE g # f
      BY <1>0, <2>2, <3>1 DEF FlightKeys, TypeOK
    <3>2. CASE g = f
      <4>1. flight'[f] = Returned(f)
            \/ flight'[f] = [state |-> "commit", batch |-> b, removed |-> m.removed]
        BY <1>0, <2>2 DEF TypeOK
      <4>2. DOMAIN Returned(f).batch = {} /\ Returned(f).removed = {}
        BY EmptyTypes DEF Returned, IdleFlight
      <4> QED BY <2>4, <3>2, <4>1, <4>2 DEF FlightKeys
    <3> QED BY <3>1, <3>2
  <2>6. UsedKeys' \subseteq UsedKeys
    BY <2>1, <2>3, <2>5 DEF UsedKeys
  <2> QED BY <1>0, <2>1, <2>6, FreshShrinks
<1>6. ASSUME NEW f \in Flushers, FlushCommit(f) \/ FlushFail(f) PROVE FreshIds'
  <2>1. /\ flight' = [flight EXCEPT ![f] = Returned(f)]
        /\ Up /\ UNCHANGED <<node, counter, pending, chan, mem>>
        /\ disk' = disk \/ disk' = Committed(disk, flight[f].removed, flight[f].batch)
    BY <1>6 DEF FlushCommit, FlushFail
  <2>2. DOMAIN disk' \subseteq DOMAIN disk \cup FlightKeys(f)
    <3>1. DOMAIN Committed(disk, flight[f].removed, flight[f].batch)
            = (DOMAIN disk \ flight[f].removed) \cup DOMAIN flight[f].batch
      BY DEF Committed
    <3> QED BY <2>1, <3>1 DEF FlightKeys
  <2>3. \A g \in Flushers : FlightKeys(g)' \subseteq FlightKeys(g)
    <3> TAKE g \in Flushers
    <3>1. DOMAIN Returned(f).batch = {} /\ Returned(f).removed = {}
      BY EmptyTypes DEF Returned, IdleFlight
    <3>2. flight'[g] = IF g = f THEN Returned(f) ELSE flight[g]
      BY <1>0, <2>1 DEF TypeOK
    <3> QED BY <3>1, <3>2 DEF FlightKeys
  <2>4. UsedKeys' \subseteq UsedKeys
    BY <2>1, <2>2, <2>3 DEF UsedKeys
  <2> QED BY <1>0, <2>1, <2>4, FreshShrinks
<1>7. CASE Tick \/ ShutdownSignal \/ UNCHANGED vars
  <2>1. UNCHANGED <<node, counter, pending, chan, mem, flight, disk>> /\ (Up' => Up)
    BY <1>7 DEF Tick, ShutdownSignal, vars, Up
  <2>2. UsedKeys' = UsedKeys
    BY <2>1 DEF UsedKeys, FlightKeys
  <2>3. CASE Up
    BY <1>0, <2>1, <2>2, <2>3, FreshShrinks
  <2> QED BY <2>1, <2>3 DEF FreshIds
<1>8. CASE Exit \/ Crash
  BY <1>8 DEF Exit, Crash, FreshIds, Up
<1>9. ASSUME NEW n \in NodeIds, Open(n) PROVE FreshIds'
  <2>1. /\ node' = n /\ counter' = FirstFree(n) /\ pending' = {} /\ chan' = << >> /\ disk' = disk
        /\ flight' = [f \in Flushers |-> IdleFlight]
    BY <1>9 DEF Open
  <2>2. DOMAIN mem'.msgs \subseteq DOMAIN disk /\ mem'.removed = {}
    BY <1>0, <1>9, OpenMem DEF Restrict, Loaded
  <2>3. \A f \in Flushers : FlightKeys(f)' = {}
    BY <2>1, EmptyTypes DEF FlightKeys, IdleFlight
  <2>4. UsedKeys' \subseteq DOMAIN disk /\ ChanKeys' = {}
    BY <2>1, <2>2, <2>3 DEF UsedKeys, ChanKeys
  <2>5. \A k \in DOMAIN disk : k[1] = n => k[2] < FirstFree(n)
    BY <1>0, FirstFreeType DEF TypeOK
  <2> QED BY <2>1, <2>4, <2>5 DEF FreshIds
<1> QED
  BY <1>1, <1>2, <1>3, <1>4, <1>5, <1>6, <1>7, <1>8, <1>9 DEF Next

\* HandedMarked survives a step that hands nothing out, allocates nothing and only drops messages.
LEMMA HandedKept ==
    ASSUME HandedMarked, Up, UNCHANGED <<node, counter, handed>>,
           pending' \cup ChanKeys' \subseteq pending \cup ChanKeys,
           \A k \in DOMAIN mem'.msgs :
              k \in DOMAIN mem.msgs /\ mem.msgs[k].delivered \subseteq mem'.msgs[k].delivered
    PROVE  HandedMarked'
BY Zenon DEF HandedMarked

\* Every step keeps the marks of what was handed out, and hands nothing out twice.
LEMMA HandedStep ==
    ASSUME StoreInv, [Next]_vars
    PROVE  HandedMarked' /\ AtMostOnceGet'
<1>0. TypeOK /\ MemOK(mem) /\ FreshIds /\ HandedMarked /\ AtMostOnceGet
  BY MemInv DEF StoreInv
<1>1. CASE NextMsgId
  <2>1. Up /\ counter' = counter + 1 /\ pending' = pending \cup {<<node, counter>>}
        /\ UNCHANGED <<node, chan, mem, handed, rehanded>>
    BY <1>1 DEF NextMsgId, histVars
  <2>2. ChanKeys' = ChanKeys /\ counter \in Nat
    BY <1>0, <2>1 DEF ChanKeys, TypeOK
  <2>3. ASSUME NEW c \in Clients, NEW k \in Keys, <<c, k>> \in handed'
        PROVE  /\ k[1] = node => k[2] < counter + 1
               /\ k \notin pending' \cup ChanKeys
               /\ k \in DOMAIN mem.msgs => c \in mem.msgs[k].delivered
    <3>1. /\ k[1] = node => k[2] < counter
          /\ k \notin pending \cup ChanKeys
          /\ k \in DOMAIN mem.msgs => c \in mem.msgs[k].delivered
      BY <1>0, <2>1, <2>3 DEF HandedMarked
    <3>2. k # <<node, counter>>
      BY <2>2, <3>1
    <3>3. k[1] = node => k[2] < counter + 1
      BY <2>2, <3>1 DEF Keys
    <3> QED BY <2>1, <3>1, <3>2, <3>3
  <2> QED BY <1>0, <2>1, <2>2, <2>3 DEF HandedMarked, AtMostOnceGet
<1>2. ASSUME NEW key \in pending, NEW topic \in Topics, NEW size \in Sizes, NEW ttl \in Ttls,
             Store(key, topic, size, ttl)
      PROVE  HandedMarked' /\ AtMostOnceGet'
  <2> DEFINE msg == [topic |-> topic, size |-> size, expiry |-> now + ttl, delivered |-> {}]
  <2>1. Up /\ pending' = pending \ {key} /\ chan' = Append(chan, [key |-> key, msg |-> msg])
        /\ UNCHANGED <<node, counter, mem, handed, rehanded>>
    BY <1>2 DEF Store, histVars
  <2>2. msg \in StoredMsg /\ key \in Keys
    BY <1>0, <1>2, SetAssumption, BoundAssumption DEF Store, TypeOK, StoredMsg
  <2> HIDE DEF msg
  <2>3. ChanDistinct /\ key \notin ChanKeys
    BY <1>0, <2>1 DEF FreshIds, ChanDistinct
  <2>4. ChanKeys' = ChanKeys \cup {key}
    BY <1>0, <2>1, <2>2, <2>3, ChanAppend
  <2>5. HandedMarked'
    BY <1>0, <2>1, <2>4, HandedKept
  <2> QED BY <1>0, <2>1, <2>5 DEF AtMostOnceGet
<1>3. CASE WriterRecv
  <2> DEFINE key == Head(chan).key
             m == Insert(mem, key, Head(chan).msg)
  <2>1. Up /\ chan # << >> /\ chan' = Tail(chan) /\ ChanDistinct /\ mem' = Evict(m, now)
        /\ UNCHANGED <<node, counter, pending, handed, rehanded>>
    BY <1>0, <1>3 DEF WriterRecv, FreshIds, ChanDistinct, histVars
  <2>2. /\ key \in Keys /\ Head(chan).msg \in StoredMsg /\ key \in ChanKeys
        /\ ChanKeys' = ChanKeys \ {key}
    BY <1>0, <2>1, ChanTail
  <2>3. key \notin DOMAIN mem.msgs
    BY <1>0, <2>1, <2>2 DEF FreshIds, UsedKeys
  <2>4. /\ MemOK(m) /\ DOMAIN m.msgs = DOMAIN mem.msgs \cup {key}
        /\ \A k \in DOMAIN mem.msgs : m.msgs[k] = mem.msgs[k]
    BY <1>0, <2>2, <2>3, InsertOK
  <2> HIDE DEF m, key
  <2>5. DOMAIN mem'.msgs \subseteq DOMAIN m.msgs /\ \A k \in DOMAIN mem'.msgs : mem'.msgs[k] = m.msgs[k]
    BY <2>1, <2>4, EvictOK
  <2>6. ASSUME NEW c \in Clients, NEW k \in Keys, <<c, k>> \in handed
        PROVE  /\ k[1] = node => k[2] < counter
               /\ k \notin pending \cup ChanKeys'
               /\ k \in DOMAIN mem'.msgs => c \in mem'.msgs[k].delivered
    <3>1. /\ k[1] = node => k[2] < counter
          /\ k \notin pending \cup ChanKeys
          /\ k \in DOMAIN mem.msgs => c \in mem.msgs[k].delivered
      BY <1>0, <2>1, <2>6 DEF HandedMarked
    <3> QED BY <2>2, <2>4, <2>5, <3>1
  <2> QED BY <1>0, <2>1, <2>6 DEF HandedMarked, AtMostOnceGet
<1>4. ASSUME NEW c \in Clients, NEW f \in Filters, Get(c, f)
      PROVE  HandedMarked' /\ AtMostOnceGet'
  <2> DEFINE m == Evict(mem, now)
             ids == Selected(m, c, f, now)
  <2>1. /\ MemOK(m) /\ mem' = Mark(m, c, ids)
        /\ DOMAIN m.msgs \subseteq DOMAIN mem.msgs
        /\ \A k \in DOMAIN m.msgs : m.msgs[k] = mem.msgs[k]
        /\ Up /\ UNCHANGED <<node, counter, pending, chan>>
        /\ handed' = handed \cup ({c} \X ids)
        /\ rehanded' = rehanded \cup (({c} \X ids) \cap handed)
    BY <1>0, <1>4, EvictOK DEF Get
  <2> HIDE DEF m
  <2>2. ids \in SUBSET DOMAIN m.msgs /\ \A k \in ids : c \notin m.msgs[k].delivered
    BY <2>1, SelectedType DEF MemOK, Selected
  <2> HIDE DEF ids
  <2>3. /\ DOMAIN mem'.msgs = DOMAIN m.msgs
        /\ \A k \in DOMAIN m.msgs : /\ m.msgs[k].delivered \subseteq mem'.msgs[k].delivered
                                    /\ k \in ids => c \in mem'.msgs[k].delivered
    BY <2>1, <2>2, MarkOK
  <2>4. \A k \in ids : k \in Keys /\ k \in DOMAIN mem.msgs /\ k \in UsedKeys /\ c \notin mem.msgs[k].delivered
    <3>1. DOMAIN mem.msgs \subseteq Keys
      BY <1>0, MsgMapElim DEF TypeOK, MemState
    <3> QED BY <2>1, <2>2, <3>1 DEF UsedKeys
  <2>5. ({c} \X ids) \cap handed = {}
    <3> SUFFICES ASSUME NEW k \in ids, <<c, k>> \in handed PROVE FALSE
      OBVIOUS
    <3> QED BY <1>0, <2>1, <2>4 DEF HandedMarked
  <2>6. \A k \in ids : (k[1] = node => k[2] < counter) /\ k \notin pending \cup ChanKeys
    BY <1>0, <2>1, <2>4 DEF FreshIds
  <2>7. ChanKeys' = ChanKeys
    BY <2>1 DEF ChanKeys
  <2>8. ASSUME NEW d \in Clients, NEW k \in Keys, <<d, k>> \in handed'
        PROVE  /\ k[1] = node => k[2] < counter
               /\ k \notin pending \cup ChanKeys
               /\ k \in DOMAIN mem'.msgs => d \in mem'.msgs[k].delivered
    <3>1. CASE <<d, k>> \in handed
      <4>1. /\ k[1] = node => k[2] < counter
            /\ k \notin pending \cup ChanKeys
            /\ k \in DOMAIN mem.msgs => d \in mem.msgs[k].delivered
        BY <1>0, <2>1, <3>1 DEF HandedMarked
      <4> QED BY <2>1, <2>3, <4>1
    <3>2. CASE d = c /\ k \in ids
      BY <2>3, <2>6, <3>2
    <3> QED BY <2>1, <2>8, <3>1, <3>2
  <2> QED BY <1>0, <2>1, <2>5, <2>7, <2>8 DEF HandedMarked, AtMostOnceGet
<1>5. ASSUME NEW f \in Flushers, FlushBegin(f) PROVE HandedMarked' /\ AtMostOnceGet'
  <2> DEFINE m == Evict(mem, now)
  <2>1. /\ MemOK(m) /\ mem' = [m EXCEPT !.dirty = {}, !.removed = {}]
        /\ DOMAIN m.msgs \subseteq DOMAIN mem.msgs
        /\ \A k \in DOMAIN m.msgs : m.msgs[k] = mem.msgs[k]
        /\ Up /\ UNCHANGED <<node, counter, pending, chan, handed, rehanded>>
    BY <1>0, <1>5, EvictOK DEF FlushBegin, histVars
  <2> HIDE DEF m
  <2>2. mem'.msgs = m.msgs
    BY <2>1, DrainOK
  <2>3. ChanKeys' = ChanKeys
    BY <2>1 DEF ChanKeys
  <2>4. HandedMarked'
    BY <1>0, <2>1, <2>2, <2>3, HandedKept
  <2> QED BY <1>0, <2>1, <2>4 DEF AtMostOnceGet
<1>6. CASE \/ \E f \in Flushers : FlushCommit(f) \/ FlushFail(f)
           \/ Tick \/ ShutdownSignal \/ UNCHANGED vars
  <2>1. UNCHANGED <<node, counter, pending, chan, mem, handed, rehanded>> /\ (Up' => Up)
    BY <1>6 DEF FlushCommit, FlushFail, Tick, ShutdownSignal, vars, histVars, Up
  <2>2. ChanKeys' = ChanKeys
    BY <2>1 DEF ChanKeys
  <2>3. CASE Up
    BY <1>0, <2>1, <2>2, <2>3, HandedKept DEF AtMostOnceGet
  <2>4. CASE ~ Up
    BY <1>0, <2>1, <2>4 DEF HandedMarked, AtMostOnceGet
  <2> QED BY <2>3, <2>4
<1>7. CASE Exit \/ Crash
  BY <1>0, <1>7 DEF Exit, Crash, HandedMarked, AtMostOnceGet, Up, histVars
<1>8. ASSUME NEW n \in NodeIds, Open(n) PROVE HandedMarked' /\ AtMostOnceGet'
  <2>1. /\ node' = n /\ counter' = FirstFree(n) /\ pending' = {} /\ chan' = << >> /\ rehanded' = {}
        /\ handed' = UNION {disk[k].delivered \X {k} : k \in DOMAIN disk}
    BY <1>8 DEF Open
  <2>2. /\ DOMAIN mem'.msgs \subseteq DOMAIN disk
        /\ \A k \in DOMAIN mem'.msgs : mem'.msgs[k] = disk[k]
    BY <1>0, <1>8, OpenMem DEF Restrict, Loaded
  <2>3. \A k \in DOMAIN disk : k[1] = n => k[2] < FirstFree(n)
    BY <1>0, FirstFreeType DEF TypeOK
  <2>4. ChanKeys' = {}
    BY <2>1 DEF ChanKeys
  <2>5. \A c, k : <<c, k>> \in handed' => k \in DOMAIN disk /\ c \in disk[k].delivered
    BY <2>1
  <2> QED BY <2>1, <2>2, <2>3, <2>4, <2>5 DEF HandedMarked, AtMostOnceGet
<1> QED
  BY <1>1, <1>2, <1>3, <1>4, <1>5, <1>6, <1>7, <1>8 DEF Next

-----------------------------------------------------------------------------
(* The results. *)

\* StoreInv holds in every state of every execution.
THEOREM StoreInvariant == Spec => []StoreInv
<1>1. StoreInv /\ [Next]_vars => StoreInv'
  <2> SUFFICES ASSUME StoreInv, [Next]_vars PROVE StoreInv'
    OBVIOUS
  <2>1. TypeOK'
    BY TypeStep DEF StoreInv
  <2>2. MemOK(mem)'
    BY MemStep
  <2>3. FreshIds'
    BY FreshStep
  <2>4. HandedMarked' /\ AtMostOnceGet'
    BY HandedStep
  <2> QED BY <2>1, <2>2, <2>3, <2>4 DEF StoreInv, MemOK, IndexConsistent, BytesExact
<1> QED
  BY <1>1, StoreInit, PTL DEF Spec

\* by_topic, order, dirty and removed agree with msgs after every critical section of
\* the writer task, get, flush and open.
THEOREM IndexCorrect == Spec => []IndexConsistent
BY StoreInvariant, PTL DEF StoreInv

\* The byte counter is the sum of the stored sizes, whatever was inserted, evicted or
\* loaded by open.
THEOREM BytesCorrect == Spec => []BytesExact
BY StoreInvariant, PTL DEF StoreInv

\* next_msg_id never returns an id that is in use, also when open recovered the counter
\* after a crash and after a change of node_id.
THEOREM FreshIdsCorrect == Spec => []FreshIds
BY StoreInvariant, PTL DEF StoreInv

\* get never hands the same message to the same client twice in one process, nor after a
\* restart from a table that holds the mark.
THEOREM AtMostOnceCorrect == Spec => []AtMostOnceGet
BY StoreInvariant, PTL DEF StoreInv
-----------------------------------------------------------------------------
(* What evict drops. *)

\* A store with fewer messages and no more bytes exceeds no cap the larger one keeps.
LEMMA OverCapShrinks ==
    ASSUME NEW m \in MemState, NEW p \in MemState, DOMAIN p.msgs \subseteq DOMAIN m.msgs,
           p.bytes <= m.bytes, OverCap(p)
    PROVE  OverCap(m)
<1>1. m.msgs \in MsgMap /\ p.msgs \in MsgMap /\ m.bytes \in Nat /\ p.bytes \in Nat
  BY DEF MemState
<1>2. IsFiniteSet(DOMAIN m.msgs)
  BY <1>1, BytesType
<1>3. /\ Cardinality(DOMAIN p.msgs) <= Cardinality(DOMAIN m.msgs)
      /\ Cardinality(DOMAIN p.msgs) \in Nat /\ Cardinality(DOMAIN m.msgs) \in Nat
  BY <1>2, FS_Subset, FS_CardinalityType
<1> QED
  BY <1>1, <1>3, BoundAssumption DEF OverCap

\* evict leaves the store within both caps.
LEMMA EvictCaps ==
    ASSUME NEW m, MemOK(m), NEW t
    PROVE  ~ OverCap(Evict(m, t))
<1>1. m \in MemState /\ OrderIndex(m) /\ Len(m.order) \in Nat /\ DOMAIN m.order = 1 .. Len(m.order)
  BY LenProperties DEF MemOK, MemState
<1>2. PICK n \in 0 .. Len(m.order) : EvictStops(m, t, n) /\ Evict(m, t) = PopFront(m, n)
  BY <1>1, EvictPops
<1>3. CASE n = Len(m.order)
  <2> DEFINE p == PopFront(m, n)
  <2>1. MemOK(p) /\ DOMAIN p.msgs = {}
    BY <1>1, <1>3, PopFrontOK DEF OrderIndex
  <2> HIDE DEF p
  <2>2. [k \in DOMAIN p.msgs |-> p.msgs[k].size] \in [{} -> Nat]
    BY <2>1
  <2>3. p.bytes = 0
    BY <2>1, <2>2, SumOfEmpty DEF MemOK, BytesOf
  <2>4. Cardinality(DOMAIN p.msgs) = 0
    BY <2>1, FS_EmptySet
  <2>5. ~ OverCap(p)
    BY <2>3, <2>4, BoundAssumption DEF OverCap
  <2> QED BY <1>2, <2>5 DEF p
<1> QED
  BY <1>2, <1>3 DEF EvictStops

\* evict drops a message only if it has expired or the store it started from is over a cap.
LEMMA EvictDrops ==
    ASSUME NEW m, MemOK(m), NEW t, NEW k \in DOMAIN m.msgs \ DOMAIN Evict(m, t).msgs
    PROVE  m.msgs[k].expiry <= t \/ OverCap(m)
<1>1. m \in MemState /\ OrderIndex(m) /\ Len(m.order) \in Nat /\ DOMAIN m.order = 1 .. Len(m.order)
      /\ m.msgs \in MsgMap /\ m.bytes \in Nat /\ m.bytes = BytesOf(m.msgs)
  BY LenProperties DEF MemOK, MemState
<1>2. PICK n \in 0 .. Len(m.order) : /\ \A i \in 0 .. n - 1 : ~ EvictStops(m, t, i)
                                     /\ Evict(m, t) = PopFront(m, n)
  BY <1>1, EvictPops
<1>3. k \in {m.order[i] : i \in 1 .. n}
  BY <1>2, PopFrontOK
<1>4. PICK i \in 1 .. n : k = m.order[i]
  BY <1>3
<1>5. i - 1 \in 0 .. n - 1 /\ i - 1 \in 0 .. Len(m.order) /\ i - 1 # Len(m.order) /\ (i - 1) + 1 = i
  BY <1>1, <1>2, <1>4
<1>6. ~ EvictStops(m, t, i - 1)
  BY <1>2, <1>5
<1>7. OverCap(PopFront(m, i - 1)) \/ Expired(m, m.order[i], t)
  BY <1>5, <1>6 DEF EvictStops
<1>8. CASE Expired(m, m.order[i], t)
  BY <1>4, <1>8 DEF Expired
<1>9. CASE OverCap(PopFront(m, i - 1))
  <2> DEFINE p == PopFront(m, i - 1)
             gone == {m.order[x] : x \in 1 .. i - 1}
  <2>1. /\ MemOK(p) /\ DOMAIN p.msgs = DOMAIN m.msgs \ gone
        /\ \A x \in DOMAIN p.msgs : p.msgs[x] = m.msgs[x]
    BY <1>5, PopFrontOK
  <2>2. OverCap(p)
    BY <1>9
  <2> HIDE DEF p, gone
  <2>3. p \in MemState /\ p.msgs \in MsgMap /\ p.bytes = BytesOf(p.msgs) /\ p.bytes \in Nat
    BY <2>1 DEF MemOK, MemState
  <2>4. p.msgs = Restrict(m.msgs, DOMAIN m.msgs \ gone)
    BY <2>1, <2>3, MsgMapElim DEF Restrict
  <2>5. BytesOf(m.msgs) = BytesOf(Restrict(m.msgs, DOMAIN m.msgs \cap gone)) + BytesOf(p.msgs)
        /\ BytesOf(Restrict(m.msgs, DOMAIN m.msgs \cap gone)) \in Nat
    <3>1. DOMAIN m.msgs \ (DOMAIN m.msgs \cap gone) = DOMAIN m.msgs \ gone
      OBVIOUS
    <3> QED BY <1>1, <2>4, <3>1, BytesSplit
  <2>6. p.bytes <= m.bytes
    BY <1>1, <2>3, <2>5
  <2> QED BY <1>1, <2>1, <2>2, <2>3, <2>6, OverCapShrinks
<1> QED
  BY <1>7, <1>8, <1>9

\* A step that touches the memory state of a running store ends in an evict, of the state
\* before it or of that state with the received message inserted.
LEMMA StepEvicts ==
    ASSUME StoreInv, Next, Up, Up', mem' # mem
    PROVE  \E m : /\ MemOK(m)
                  /\ DOMAIN mem'.msgs = DOMAIN Evict(m, now).msgs
                  /\ mem'.bytes = Evict(m, now).bytes
                  /\ \/ m = mem
                     \/ /\ chan # << >>
                        /\ m = Insert(mem, Head(chan).key, Head(chan).msg)
                        /\ DOMAIN mem.msgs \subseteq DOMAIN m.msgs
                        /\ \A k \in DOMAIN mem.msgs : m.msgs[k] = mem.msgs[k]
<1>0. TypeOK /\ MemOK(mem) /\ FreshIds
  BY MemInv DEF StoreInv
<1>1. CASE WriterRecv
  <2> DEFINE m == Insert(mem, Head(chan).key, Head(chan).msg)
  <2>1. Up /\ chan # << >> /\ chan' = Tail(chan) /\ ChanDistinct /\ mem' = Evict(m, now)
    BY <1>0, <1>1 DEF WriterRecv, FreshIds, ChanDistinct
  <2>2. Head(chan).key \in Keys /\ Head(chan).msg \in StoredMsg /\ Head(chan).key \in ChanKeys
    BY <1>0, <2>1, ChanTail
  <2>3. Head(chan).key \notin DOMAIN mem.msgs
    BY <1>0, <2>1, <2>2 DEF FreshIds, UsedKeys
  <2>4. /\ MemOK(m) /\ DOMAIN mem.msgs \subseteq DOMAIN m.msgs
        /\ \A k \in DOMAIN mem.msgs : m.msgs[k] = mem.msgs[k]
    BY <1>0, <2>2, <2>3, InsertOK
  <2> HIDE DEF m
  <2> QED BY <2>1, <2>4 DEF m
<1>2. ASSUME NEW c \in Clients, NEW f \in Filters, Get(c, f)
      PROVE  DOMAIN mem'.msgs = DOMAIN Evict(mem, now).msgs /\ mem'.bytes = Evict(mem, now).bytes
  <2> DEFINE m == Evict(mem, now)
  <2>1. MemOK(m) /\ mem' = Mark(m, c, Selected(m, c, f, now))
    BY <1>0, <1>2, EvictOK DEF Get
  <2> HIDE DEF m
  <2>2. Selected(m, c, f, now) \in SUBSET DOMAIN m.msgs
    BY <2>1, SelectedType DEF MemOK
  <2>3. DOMAIN mem'.msgs = DOMAIN m.msgs /\ mem'.bytes = m.bytes
    BY <2>1, <2>2, MarkOK
  <2> QED BY <2>3 DEF m
<1>3. ASSUME NEW f \in Flushers, FlushBegin(f)
      PROVE  DOMAIN mem'.msgs = DOMAIN Evict(mem, now).msgs /\ mem'.bytes = Evict(mem, now).bytes
  <2> DEFINE m == Evict(mem, now)
  <2>1. MemOK(m) /\ mem' = [m EXCEPT !.dirty = {}, !.removed = {}]
    BY <1>0, <1>3, EvictOK DEF FlushBegin
  <2> HIDE DEF m
  <2>2. mem'.msgs = m.msgs /\ mem'.bytes = m.bytes
    BY <2>1, DrainOK
  <2> QED BY <2>2 DEF m
<1>4. ~ Crash /\ ~ Exit /\ \A n \in NodeIds : ~ Open(n)
  BY DEF Crash, Exit, Open, Up
<1>5. \/ WriterRecv
      \/ \E c \in Clients, f \in Filters : Get(c, f)
      \/ \E f \in Flushers : FlushBegin(f)
  BY <1>4 DEF Next, NextMsgId, Store, FlushCommit, FlushFail, Tick, ShutdownSignal
<1> QED
  BY <1>0, <1>1, <1>2, <1>3, <1>5

\* Whatever changes a running store leaves it within MSG_MAX_MSGS and MSG_MAX_BYTES: the
\* loop of evict always reaches a state within the caps, because the byte counter it
\* compares is exact.
THEOREM CapsCorrect == Spec => CapsEnforced
<1>1. StoreInv /\ [Next]_vars => [Up /\ Up' /\ mem' # mem => ~ OverCap(mem')]_vars
  <2> SUFFICES ASSUME StoreInv, Next, Up, Up', mem' # mem
               PROVE  ~ OverCap(mem')
    BY DEF vars
  <2>1. PICK m : /\ MemOK(m)
                 /\ DOMAIN mem'.msgs = DOMAIN Evict(m, now).msgs
                 /\ mem'.bytes = Evict(m, now).bytes
    BY StepEvicts
  <2> QED BY <2>1, EvictCaps DEF OverCap
<1> QED
  BY <1>1, StoreInvariant, PTL DEF Spec, CapsEnforced

\* Nothing but expiry and a store over a cap makes a running process drop a message.
THEOREM NoEarlyDropCorrect == Spec => NoEarlyDrop
<1> DEFINE P == Up /\ Up' =>
                  \A k \in DOMAIN mem.msgs \ DOMAIN mem'.msgs :
                      \/ mem.msgs[k].expiry <= now
                      \/ OverCap(mem)
                      \/ chan # << >> /\ OverCap(Insert(mem, Head(chan).key, Head(chan).msg))
<1>1. StoreInv /\ [Next]_vars => [P]_vars
  <2> SUFFICES ASSUME StoreInv, Next, Up, Up', NEW k \in DOMAIN mem.msgs \ DOMAIN mem'.msgs
               PROVE  \/ mem.msgs[k].expiry <= now
                      \/ OverCap(mem)
                      \/ chan # << >> /\ OverCap(Insert(mem, Head(chan).key, Head(chan).msg))
    BY DEF vars
  <2>1. mem' # mem
    OBVIOUS
  <2>2. PICK m : /\ MemOK(m)
                 /\ DOMAIN mem'.msgs = DOMAIN Evict(m, now).msgs
                 /\ \/ m = mem
                    \/ /\ chan # << >>
                       /\ m = Insert(mem, Head(chan).key, Head(chan).msg)
                       /\ DOMAIN mem.msgs \subseteq DOMAIN m.msgs
                       /\ \A x \in DOMAIN mem.msgs : m.msgs[x] = mem.msgs[x]
    BY <2>1, StepEvicts
  <2>3. k \in DOMAIN m.msgs \ DOMAIN Evict(m, now).msgs /\ m.msgs[k] = mem.msgs[k]
    BY <2>2
  <2>4. m.msgs[k].expiry <= now \/ OverCap(m)
    BY <2>2, <2>3, EvictDrops
  <2> QED BY <2>2, <2>3, <2>4
<1> QED
  BY <1>1, StoreInvariant, PTL DEF Spec, NoEarlyDrop
=============================================================================
