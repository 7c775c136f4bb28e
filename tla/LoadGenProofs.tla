--------------------------- MODULE LoadGenProofs ---------------------------
(***************************************************************************)
(* Proofs about LoadGen, for every list of rounds and levels, every number *)
(* of messages, publishers and devices per user, and any number of faults: *)
(* how a run ends, what a finished round has delivered, why a round is     *)
(* given up, and that measurements do not overlap.                         *)
(***************************************************************************)
EXTENDS LoadGen, SumLemmas

-----------------------------------------------------------------------------
(* Arithmetic of the rounds. *)

\* Division with remainder, as in the numbering of devices and the parts of publishers.
LEMMA DivFacts ==
    ASSUME NEW a \in Nat, NEW d \in Nat \ {0}
    PROVE  /\ a \div d \in Nat
           /\ a % d \in 0 .. d - 1
           /\ a = d * (a \div d) + (a % d)
OBVIOUS

\* Device k of user q has number q * d + k.
LEMMA DivUnique ==
    ASSUME NEW q \in Nat, NEW r \in Nat, NEW d \in Nat \ {0}, r < d
    PROVE  (q * d + r) \div d = q /\ (q * d + r) % d = r
OBVIOUS

\* Rounding up: n subscribers fit on that many users, and nothing more than needed.
LEMMA RoundUp ==
    ASSUME NEW n \in Nat, NEW d \in Nat \ {0}
    PROVE  /\ (n + d - 1) \div d \in Nat
           /\ n <= ((n + d - 1) \div d) * d
           /\ ((n + d - 1) \div d) * d < n + d
<1> DEFINE a == n + d - 1
<1>1. a \in Nat
  OBVIOUS
<1>2. a \div d \in Nat /\ a % d \in 0 .. d - 1 /\ a = d * (a \div d) + (a % d)
  BY <1>1, DivFacts
<1>3. ASSUME NEW q \in Nat, a = d * q + (a % d) PROVE n <= q * d /\ q * d < n + d
  <2>1. d * q = q * d /\ d * q \in Nat
    OBVIOUS
  <2> QED BY <1>2, <1>3, <2>1
<1> QED BY <1>2, <1>3

\* The numbers of a list have an upper bound: main finds the largest round.
LEMMA SeqBounded ==
    ASSUME NEW s \in Seq(Nat)
    PROVE  \E b \in Nat : \A x \in Range(s) : x \in Nat /\ x <= b
<1> DEFINE Bounds(b, n) == \A i \in 1 .. Len(s) : i <= n => s[i] <= b
           G == {n \in Nat : \E b \in Nat : Bounds(b, n)}
<1>0. Len(s) \in Nat /\ \A i \in 1 .. Len(s) : s[i] \in Nat
  OBVIOUS
<1>1. 0 \in G
  OBVIOUS
<1>2. ASSUME NEW n \in Nat, n \in G PROVE n + 1 \in G
  <2>1. PICK b \in Nat : Bounds(b, n)
    BY <1>2
  <2>2. \E c \in Nat : Bounds(c, n + 1)
    <3>1. CASE n + 1 \in 1 .. Len(s)
      <4>1. s[n + 1] \in Nat /\ b + s[n + 1] \in Nat
        BY <3>1, <1>0
      <4>2. Bounds(b + s[n + 1], n + 1)
        <5> SUFFICES ASSUME NEW i \in 1 .. Len(s), i <= n + 1 PROVE s[i] <= b + s[n + 1]
          OBVIOUS
        <5>1. i = n + 1 \/ i <= n
          BY <1>0
        <5> QED BY <1>0, <2>1, <4>1, <5>1
      <4> HIDE DEF Bounds
      <4> QED BY <4>1, <4>2
    <3>2. CASE n + 1 \notin 1 .. Len(s)
      <4>1. Bounds(b, n + 1)
        <5> SUFFICES ASSUME NEW i \in 1 .. Len(s), i <= n + 1 PROVE s[i] <= b
          OBVIOUS
        <5>1. i <= n
          BY <1>0, <3>2
        <5> QED BY <2>1, <5>1
      <4> HIDE DEF Bounds
      <4> QED BY <4>1
    <3> QED BY <3>1, <3>2
  <2> HIDE DEF Bounds
  <2> QED BY <2>2
<1>3. Nat \subseteq G
  <2> HIDE DEF G
  <2> QED BY <1>1, <1>2, NatSetInduction
<1>4. \E b \in Nat : Bounds(b, Len(s))
  <2> HIDE DEF Bounds
  <2> QED BY <1>0, <1>3
<1>5. PICK b \in Nat : Bounds(b, Len(s))
  BY <1>4
<1>6. \A x \in Range(s) : x \in Nat /\ x <= b
  <2>1. DOMAIN s = 1 .. Len(s)
    OBVIOUS
  <2> QED BY <1>0, <1>5, <2>1 DEF Range
<1> QED BY <1>6

\* A finite set of numbers can be listed in increasing order: sort and dedup of load_settings
\* have a result.
LEMMA SortedExists ==
    ASSUME NEW b \in Nat, NEW S \in SUBSET (0 .. b)
    PROVE  \E s \in [1 .. Cardinality(S) -> S] :
              \A i, j \in 1 .. Cardinality(S) : i < j => s[i] < s[j]
<1> DEFINE Sorted(T, s) == \A i, j \in 1 .. Cardinality(T) : i < j => s[i] < s[j]
           G == {n \in Nat : \A T \in SUBSET (0 .. b) : Cardinality(T) = n =>
                                \E s \in [1 .. Cardinality(T) -> T] : Sorted(T, s)}
<1>0. \A T \in SUBSET (0 .. b) : IsFiniteSet(T) /\ Cardinality(T) \in Nat
  <2>1. IsFiniteSet(0 .. b)
    BY FS_Interval
  <2> QED BY <2>1, FS_Subset, FS_CardinalityType
<1>1. 0 \in G
  <2> SUFFICES ASSUME NEW T \in SUBSET (0 .. b), Cardinality(T) = 0
               PROVE  \E s \in [1 .. Cardinality(T) -> T] : Sorted(T, s)
    OBVIOUS
  <2>1. 1 .. Cardinality(T) = {}
    OBVIOUS
  <2>2. [i \in {} |-> i] \in [{} -> T]
    OBVIOUS
  <2> QED BY <2>1, <2>2
<1>2. ASSUME NEW n \in Nat, n \in G PROVE n + 1 \in G
  <2> SUFFICES ASSUME NEW T \in SUBSET (0 .. b), Cardinality(T) = n + 1
               PROVE  \E s \in [1 .. Cardinality(T) -> T] : Sorted(T, s)
    OBVIOUS
  <2>1. T \in SUBSET Nat /\ T # {} /\ \A k \in T : k <= b
    BY FS_EmptySet
  <2> DEFINE m == Max(T)
             U == T \ {m}
  <2>2. m \in T /\ \A k \in T : k <= m
    BY <2>1, MaxIsMember
  <2>3. U \in SUBSET (0 .. b) /\ Cardinality(U) = n
    BY <1>0, <2>2, FS_RemoveElement
  <2>4. PICK t \in [1 .. Cardinality(U) -> U] : Sorted(U, t)
    BY <1>2, <2>3
  <2> HIDE DEF m
  <2> DEFINE s == [i \in 1 .. n + 1 |-> IF i = n + 1 THEN m ELSE t[i]]
  <2>5. ASSUME NEW i \in 1 .. n PROVE t[i] \in T /\ t[i] < m /\ i # n + 1
    <3>1. t[i] \in U
      <4>1. i \in 1 .. Cardinality(U)
        BY <2>3
      <4> HIDE DEF U
      <4> QED BY <2>4, <4>1
    <3>2. t[i] \in T /\ t[i] # m /\ m \in Nat /\ t[i] \in Nat
      BY <2>1, <2>2, <3>1
    <3> QED BY <2>2, <3>2
  <2>6. s \in [1 .. Cardinality(T) -> T]
    <3>1. ASSUME NEW i \in 1 .. n + 1, i # n + 1 PROVE t[i] \in T
      <4>1. i \in 1 .. n
        BY <3>1
      <4> QED BY <2>5, <4>1
    <3> QED BY <2>2, <3>1
  <2>7. Sorted(T, s)
    <3> SUFFICES ASSUME NEW i \in 1 .. n + 1, NEW j \in 1 .. n + 1, i < j PROVE s[i] < s[j]
      OBVIOUS
    <3>1. i \in 1 .. n /\ s[i] = t[i]
      OBVIOUS
    <3>2. CASE j = n + 1
      BY <2>5, <3>1, <3>2
    <3>3. CASE j # n + 1
      <4>1. j \in 1 .. n /\ s[j] = t[j]
        BY <3>3
      <4> QED BY <2>3, <2>4, <3>1, <4>1
    <3> QED BY <3>2, <3>3
  <2> QED BY <2>6, <2>7
<1>3. Nat \subseteq G
  <2> HIDE DEF G
  <2> QED BY <1>1, <1>2, NatSetInduction
<1> QED BY <1>0, <1>3

\* The levels of perf-resources are in the range of the numbers that were given.
LEMMA LevelsType ==
    /\ Levels \in Seq(Nat)
    /\ Range(Levels) \subseteq Range(ResSubs)
<1> DEFINE S == Range(ResSubs)
<1>1. PICK b \in Nat : \A x \in S : x \in Nat /\ x <= b
  BY LoadGenAssumption, SeqBounded
<1>2. S \in SUBSET (0 .. b)
  BY <1>1
<1> HIDE DEF S
<1>3. Levels \in [1 .. Cardinality(S) -> S]
  BY <1>2, SortedExists DEF Levels, S
<1>4. Cardinality(S) \in Nat
  <2>1. IsFiniteSet(0 .. b)
    BY FS_Interval
  <2> QED BY <1>2, <2>1, FS_Subset, FS_CardinalityType
<1>5. Levels \in Seq(S) /\ DOMAIN Levels = 1 .. Cardinality(S)
  BY <1>3, <1>4
<1>6. S \subseteq Nat
  BY <1>1
<1>7. Levels \in Seq(Nat)
  <2>1. Levels \in [1 .. Cardinality(S) -> Nat]
    BY <1>3, <1>6
  <2> QED BY <1>4, <2>1
<1>8. Range(Levels) \subseteq S
  BY <1>3 DEF Range
<1> QED BY <1>7, <1>8 DEF S

\* The numbers of users and of publishers, and the part of a publisher.
LEMMA Settings ==
    /\ NumPubs \in Nat \ {0} /\ Part \in Nat
    /\ MaxSubs \in Nat
    /\ \A x \in (IF Perf THEN Range(SubCounts) ELSE Range(Levels)) :
          /\ x \in Nat /\ x <= MaxSubs
          /\ 0 .. x - 1 \subseteq AllDevices
    /\ AllDevices \subseteq Nat /\ IsFiniteSet(AllDevices)
<1>1. NumPubs \in Nat \ {0}
  <2>1. {Publishers, 1} \in SUBSET Nat /\ \A k \in {Publishers, 1} : k <= Publishers + 1
    BY LoadGenAssumption
  <2>2. Publishers + 1 \in Nat
    BY LoadGenAssumption
  <2>3. Max({Publishers, 1}) \in {Publishers, 1} /\ \A k \in {Publishers, 1} : k <= Max({Publishers, 1})
    BY <2>1, <2>2, MaxIsMember
  <2> QED BY <2>1, <2>3 DEF NumPubs
<1>2. Part \in Nat
  BY <1>1, RoundUp, LoadGenAssumption DEF Part
<1>3. PICK a \in Nat : \A x \in Range(SubCounts) : x \in Nat /\ x <= a
  BY LoadGenAssumption, SeqBounded
<1>4. PICK b \in Nat : \A x \in Range(ResSubs) : x \in Nat /\ x <= b
  BY LoadGenAssumption, SeqBounded
<1> DEFINE All == {0} \cup Range(SubCounts) \cup Range(ResSubs)
           Mine == IF Perf THEN Range(SubCounts) ELSE Range(Levels)
<1>5. Mine \subseteq Range(SubCounts) \cup Range(ResSubs)
  BY LevelsType
<1> HIDE DEF Mine
<1>6. a + b \in Nat
  OBVIOUS
<1>7. Max(All) \in All /\ \A k \in All : k <= Max(All)
  <2>1. All \in SUBSET Nat /\ All # {} /\ \A k \in All : k <= a + b
    BY <1>3, <1>4
  <2> HIDE DEF All
  <2> QED BY <1>6, <2>1, MaxIsMember
<1>8. Max({0} \cup Mine) \in {0} \cup Mine /\ \A k \in {0} \cup Mine : k <= Max({0} \cup Mine)
  <2>1. {0} \cup Mine \in SUBSET Nat /\ \A k \in {0} \cup Mine : k <= a + b
    BY <1>3, <1>4, <1>5
  <2> QED BY <1>6, <2>1, MaxIsMember
<1>9. MaxSubs = Max({0} \cup Mine) /\ MaxSubs \in Nat
  BY <1>3, <1>4, <1>5, <1>8 DEF MaxSubs, Mine
<1>10. AllDevices = 0 .. Max(All) - 1 /\ Max(All) \in Nat
  BY <1>3, <1>4, <1>7 DEF AllDevices
<1>11. ASSUME NEW x \in Mine PROVE x \in Nat /\ x <= MaxSubs /\ 0 .. x - 1 \subseteq AllDevices
  <2>1. x \in Nat /\ x <= MaxSubs
    BY <1>3, <1>4, <1>5, <1>8, <1>9
  <2>2. x <= Max(All)
    BY <1>5, <1>7
  <2> QED BY <1>10, <2>1, <2>2
<1>12. AllDevices \subseteq Nat /\ IsFiniteSet(AllDevices)
  BY <1>10, FS_Interval
<1> QED BY <1>1, <1>2, <1>9, <1>11, <1>12 DEF Mine

\* The parts of the publishers cover all messages, and nothing else.
LEMMA PartsCover ==
    /\ \A p \in 0 .. NumPubs - 1 : Begin(p) \in Nat /\ End(p) \in Nat /\ End(p) <= MessageCount
    /\ \A seq \in 0 .. MessageCount - 1 :
          \E p \in 0 .. NumPubs - 1 : Begin(p) <= seq /\ seq < End(p)
<1> DEFINE N == NumPubs
           d == Part
           M == MessageCount
<1>1. N \in Nat \ {0} /\ d \in Nat /\ M \in Nat
  BY Settings, LoadGenAssumption
<1>2. M <= d * N
  BY <1>1, RoundUp DEF Part
<1>3. ASSUME NEW p \in Nat
      PROVE  /\ Begin(p) = p * d /\ Begin(p) \in Nat
             /\ End(p) \in {(p + 1) * d, M} /\ End(p) \in Nat
             /\ End(p) <= (p + 1) * d /\ End(p) <= M
  <2>1. p * d \in Nat /\ (p + 1) * d \in Nat
    BY <1>1
  <2>2. {(p + 1) * d, M} \in SUBSET Nat
    BY <1>1, <2>1
  <2>3. End(p) \in {(p + 1) * d, M} /\ \A k \in {(p + 1) * d, M} : End(p) <= k
    BY <2>2, MinIsMember DEF End
  <2> QED BY <2>1, <2>2, <2>3 DEF Begin
<1>4. ASSUME NEW seq \in 0 .. M - 1
      PROVE  \E p \in 0 .. N - 1 : Begin(p) <= seq /\ seq < End(p)
  <2>1. seq \in Nat /\ seq < M
    BY <1>1
  <2>2. d # 0
    BY <1>1, <1>2, <2>1
  <2> DEFINE p == seq \div d
  <2>3. p \in Nat /\ p * d <= seq /\ seq < (p + 1) * d
    <3>1. p \in Nat /\ seq % d \in 0 .. d - 1 /\ seq = d * p + (seq % d)
      BY <1>1, <2>1, <2>2, DivFacts
    <3> HIDE DEF p
    <3>2. d * p = p * d /\ (p + 1) * d = p * d + d /\ p * d \in Nat
      BY <1>1, <3>1
    <3> QED BY <1>1, <2>1, <3>1, <3>2
  <2> HIDE DEF p
  <2>4. p < N
    <3> SUFFICES ASSUME N <= p PROVE FALSE
      BY <1>1, <2>3
    <3>1. N * d <= p * d
      BY <1>1, <2>3
    <3>2. N * d = d * N /\ N * d \in Nat /\ p * d \in Nat
      BY <1>1, <2>3
    <3> QED BY <1>1, <1>2, <2>1, <2>3, <3>1, <3>2
  <2>5. Begin(p) <= seq /\ seq < End(p)
    BY <1>3, <2>1, <2>3
  <2> QED BY <1>1, <2>3, <2>4, <2>5
<1>5. \A p \in 0 .. N - 1 : p \in Nat
  BY <1>1
<1> QED BY <1>3, <1>4, <1>5

-----------------------------------------------------------------------------
(* The inductive invariant. *)

\* a round or a level is under way
Busy == pc \in {"connect", "open", "publish", "drain", "leave", "measure", "join"}

\* the copies of a message that a round of perf is to deliver, and of all of them
UserCopies(seq) == Copies(seq, seq % UserCount(Subscribers), 0 .. Subscribers - 1)

RoundCopies == UNION {UserCopies(seq) : seq \in 0 .. MessageCount - 1}

Copy == [lap : Nat, seq : Nat, dev : AllDevices]

\* The variables have their types, and a round under way is one that was asked for.
LoadTypes ==
    /\ tool \in Tools
    /\ Busy \/ pc \in {"provision", "cleanup", "done", "failed"}
    /\ lap \in Nat \ {0} /\ (Busy => lap \in 1 .. Laps) /\ (pc = "provision" => lap = 1)
    /\ made \in [Accounts -> {"todo", "ok", "err", "gone"}]
    /\ has \subseteq Accounts /\ undeleted \subseteq Accounts
    /\ link \in [AllDevices -> {"none", "up", "broken", "err"}]
    /\ next \in [0 .. NumPubs - 1 -> Nat]
    /\ task \in [AllDevices -> {"none", "wait", "send", "rest", "ended"}]
    /\ count \in Nat /\ extra \in Nat /\ faults \in Nat
    /\ wire \subseteq Copy /\ stored \subseteq Copy
    /\ got \subseteq Copy /\ IsFiniteSet(got)

\* What main knows of the accounts agrees with the broker; during the rounds it has all of
\* them, and a regular end has asked for the deletion of each.
AccountsKnown ==
    /\ \A u \in Accounts :
          /\ made[u] = "ok" => u \in has
          /\ made[u] = "gone" /\ u \in has => u \in undeleted
    /\ Busy => \A u \in Accounts : made[u] = "ok"
    /\ pc = "done" => \A u \in Accounts : made[u] = "gone"

\* Only a fault leaves an error behind.
ErrorsExplained ==
    faults = 0 =>
        /\ pc # "failed" /\ bad # TRUE
        /\ \A u \in Accounts : made[u] # "err"
        /\ \A i \in AllDevices : link[i] \in {"none", "up"}

\* The two programs have their own steps.
ToolSteps ==
    /\ pc \in {"open", "publish", "drain", "leave"} => Perf
    /\ pc \in {"measure", "join"} => ~ Perf

\* In a round of perf only its own devices are connected, all of them once it publishes.
RoundLinks ==
    Perf =>
        /\ \A i \in AllDevices : link[i] # "none" => i < Subscribers
        /\ pc \in {"open", "publish", "drain"} =>
              \A i \in AllDevices : i < Subscribers => link[i] \in Connected

\* The counter is the number of different copies of this round plus the others; the copies
\* counted or on their way that carry the number of this round were sent in it.
RoundCounted ==
    Perf =>
        /\ count = Cardinality(got) + extra
        /\ \A c \in got : c.lap = lap
        /\ \A c \in wire \cup got : c.lap = lap => c \in RoundCopies
        /\ \A c \in stored : c.lap <= lap /\ (pc \in {"provision", "connect"} => c.lap # lap)
        /\ pc = "leave" /\ stalled # TRUE => count >= Expected

\* Without a fault no copy of a message that was published in this round is lost.
RoundKept ==
    /\ pc \in {"publish", "drain"} /\ faults = 0 /\ Subscribers > 0 =>
          \A p \in 0 .. NumPubs - 1 : \A seq \in Begin(p) .. next[p] - 1 :
             UserCopies(seq) \subseteq wire \cup got
    /\ pc = "drain" => \A p \in 0 .. NumPubs - 1 : next[p] >= End(p)

LoadInv ==
    /\ LoadTypes /\ AccountsKnown /\ ErrorsExplained /\ ToolSteps
    /\ RoundLinks /\ RoundCounted /\ RoundKept
    /\ StallExplained /\ NoOverlap

-----------------------------------------------------------------------------
(* Lemmas about a round. *)

\* A round under way has a number of subscribers, with an account and a place for each.
LEMMA RoundSize ==
    ASSUME lap \in 1 .. Laps
    PROVE  /\ Subscribers \in Nat
           /\ 0 .. Subscribers - 1 \subseteq AllDevices
           /\ \A i \in AllDevices : i < Subscribers => UserOf(i) \in Accounts
<1>1. Subscribers \in (IF Perf THEN Range(SubCounts) ELSE Range(Levels))
  <2>1. CASE Perf
    BY <2>1, LoadGenAssumption DEF Subscribers, Laps, Range
  <2>2. CASE ~ Perf
    <3>1. Levels \in Seq(Nat)
      BY LevelsType
    <3>2. lap \in 1 .. 3 * Len(Levels)
      BY <2>2 DEF Laps
    <3>3. (lap - 1) \div 3 + 1 \in 1 .. Len(Levels)
      BY <3>1, <3>2
    <3> HIDE DEF Levels
    <3>4. Subscribers \in Range(Levels)
      BY <2>2, <3>1, <3>3 DEF Subscribers, Range
    <3> QED BY <2>2, <3>4
  <2> QED BY <2>1, <2>2
<1>2. /\ Subscribers \in Nat /\ Subscribers <= MaxSubs
      /\ 0 .. Subscribers - 1 \subseteq AllDevices
      /\ MaxSubs \in Nat /\ AllDevices \subseteq Nat
  BY <1>1, Settings
<1>3. ASSUME NEW i \in AllDevices, i < Subscribers PROVE UserOf(i) \in Accounts
  <2> DEFINE q == i \div Devices
             n == UserCount(MaxSubs)
  <2>1. Devices \in Nat \ {0}
    BY LoadGenAssumption
  <2>2. i \in Nat /\ i < MaxSubs
    BY <1>2, <1>3
  <2>3. q \in Nat /\ i % Devices \in 0 .. Devices - 1 /\ i = Devices * q + (i % Devices)
    BY <2>1, <2>2, DivFacts
  <2>4. n \in Nat /\ MaxSubs <= n * Devices
    BY <1>2, <2>1, RoundUp DEF UserCount
  <2> HIDE DEF q, n
  <2>5. q < n
    <3> SUFFICES ASSUME n <= q PROVE FALSE
      BY <2>3, <2>4
    <3>1. n * Devices <= q * Devices /\ q * Devices = Devices * q
      BY <2>1, <2>3, <2>4
    <3>2. Devices * q \in Nat /\ n * Devices \in Nat
      BY <2>1, <2>3, <2>4
    <3> QED BY <1>2, <2>1, <2>2, <2>3, <2>4, <3>1, <3>2
  <2>6. q \in Users
    BY <2>3, <2>4, <2>5 DEF Users, n
  <2> QED BY <2>6 DEF Accounts, UserOf, q
<1> QED BY <1>2, <1>3

\* What the copies of a message are.
LEMMA UserCopiesAre ==
    ASSUME NEW seq, NEW c
    PROVE  c \in UserCopies(seq) <=>
              \E i \in 0 .. Subscribers - 1 :
                 /\ UserOf(i) = seq % UserCount(Subscribers)
                 /\ c = [lap |-> lap, seq |-> seq, dev |-> i]
BY DEF UserCopies, Copies

\* Users of a round: at least one when there are subscribers; exactly as many as fit when
\* the devices per user divide the subscribers.
LEMMA UsersOfRound ==
    ASSUME NEW n \in Nat
    PROVE  /\ UserCount(n) \in Nat
           /\ n > 0 => UserCount(n) > 0
           /\ n % Devices = 0 => UserCount(n) * Devices = n
<1> DEFINE d == Devices
           u == UserCount(n)
<1>1. d \in Nat \ {0}
  BY LoadGenAssumption
<1>2. u \in Nat /\ n <= u * d /\ u * d < n + d
  BY <1>1, RoundUp DEF UserCount
<1>3. n > 0 => u > 0
  <2> SUFFICES ASSUME u = 0, n > 0 PROVE FALSE
    BY <1>2
  <2>1. u * d = 0
    BY <1>1
  <2> HIDE DEF u
  <2> QED BY <1>2, <2>1
<1>4. ASSUME n % d = 0 PROVE u * d = n
  <2> DEFINE k == n \div d
  <2>1. k \in Nat /\ n = d * k
    <3>1. k \in Nat /\ n = d * k + (n % d)
      BY <1>1, DivFacts
    <3> HIDE DEF k
    <3>2. d * k \in Nat
      BY <1>1, <3>1
    <3> QED BY <1>4, <3>1, <3>2
  <2> HIDE DEF k, u
  <2>2. d * k = k * d /\ (k + 1) * d = k * d + d
    BY <1>1, <2>1
  <2>3. k <= u
    <3> SUFFICES ASSUME u + 1 <= k PROVE FALSE
      BY <1>2, <2>1
    <3>1. (u + 1) * d <= k * d /\ (u + 1) * d = u * d + d
      BY <1>1, <1>2, <2>1
    <3>2. u * d \in Nat /\ k * d \in Nat
      BY <1>1, <1>2, <2>1
    <3> QED BY <1>1, <1>2, <2>1, <2>2, <3>1, <3>2
  <2>4. u <= k
    <3> SUFFICES ASSUME k + 1 <= u PROVE FALSE
      BY <1>2, <2>1
    <3>1. (k + 1) * d <= u * d
      BY <1>1, <1>2, <2>1
    <3>2. u * d \in Nat /\ k * d \in Nat
      BY <1>1, <1>2, <2>1
    <3> QED BY <1>1, <1>2, <2>1, <2>2, <3>1, <3>2
  <2>5. u = k
    BY <1>2, <2>1, <2>3, <2>4
  <2> QED BY <2>1, <2>2, <2>5
<1> QED BY <1>2, <1>3, <1>4

\* The number of copies of a round: perf's expected number is an upper bound, and exact when
\* every user has all its devices.
LEMMA CopiesCount ==
    ASSUME lap \in 1 .. Laps
    PROVE  /\ IsFiniteSet(RoundCopies)
           /\ Cardinality(RoundCopies) <= Expected
           /\ Subscribers > 0 /\ Subscribers % Devices = 0 =>
                 Cardinality(RoundCopies) = Expected
<1> DEFINE n == Subscribers
           d == Devices
           M == MessageCount
           U == UserCount(n)
           T == (0 .. M - 1) \X (0 .. d - 1)
           f == [c \in RoundCopies |-> <<c.seq, c.dev % d>>]
<1>1. n \in Nat /\ d \in Nat \ {0} /\ M \in Nat
  BY RoundSize, LoadGenAssumption
<1>2. U \in Nat
  BY <1>1, UsersOfRound
<1> HIDE DEF n, d, M, U
<1>3. IsFiniteSet(T) /\ Cardinality(T) = Expected
  <2>1. IsFiniteSet(0 .. M - 1) /\ Cardinality(0 .. M - 1) = M
    BY <1>1, FS_Interval
  <2>2. IsFiniteSet(0 .. d - 1) /\ Cardinality(0 .. d - 1) = d
    BY <1>1, FS_Interval
  <2>3. IsFiniteSet(T) /\ Cardinality(T) = Cardinality(0 .. M - 1) * Cardinality(0 .. d - 1)
    BY <2>1, <2>2, FS_Product
  <2> HIDE DEF T
  <2> QED BY <2>1, <2>2, <2>3 DEF Expected, M, d
<1>4. ASSUME NEW c
      PROVE  c \in RoundCopies <=>
                \E seq \in 0 .. M - 1 : \E i \in 0 .. n - 1 :
                   i \div d = seq % U /\ c = [lap |-> lap, seq |-> seq, dev |-> i]
  <2>1. c \in RoundCopies <=> \E seq \in 0 .. M - 1 : c \in UserCopies(seq)
    BY DEF RoundCopies, M
  <2>2. \A seq : c \in UserCopies(seq) <=>
              \E i \in 0 .. n - 1 : i \div d = seq % U /\ c = [lap |-> lap, seq |-> seq, dev |-> i]
    BY UserCopiesAre DEF n, d, U, UserOf
  <2> QED BY <2>1, <2>2
<1>5. f \in [RoundCopies -> T]
  <2> SUFFICES ASSUME NEW c \in RoundCopies PROVE <<c.seq, c.dev % d>> \in T
    OBVIOUS
  <2>1. PICK seq \in 0 .. M - 1, i \in 0 .. n - 1 : c = [lap |-> lap, seq |-> seq, dev |-> i]
    BY <1>4
  <2>2. i \in Nat
    BY <1>1
  <2>3. i % d \in 0 .. d - 1
    BY <1>1, <2>2, DivFacts
  <2> QED BY <2>1, <2>3
<1>6. f \in Injection(RoundCopies, T)
  <2>1. ASSUME NEW a \in RoundCopies, NEW b \in RoundCopies, f[a] = f[b] PROVE a = b
    <3>1. PICK s1 \in 0 .. M - 1, i1 \in 0 .. n - 1 :
             i1 \div d = s1 % U /\ a = [lap |-> lap, seq |-> s1, dev |-> i1]
      BY <1>4
    <3>2. PICK s2 \in 0 .. M - 1, i2 \in 0 .. n - 1 :
             i2 \div d = s2 % U /\ b = [lap |-> lap, seq |-> s2, dev |-> i2]
      BY <1>4
    <3>3. f[a] = <<s1, i1 % d>> /\ f[b] = <<s2, i2 % d>>
      BY <3>1, <3>2
    <3>4. s1 = s2 /\ i1 % d = i2 % d
      BY <2>1, <3>3
    <3>5. i1 \div d = i2 \div d
      BY <3>1, <3>2, <3>4
    <3>6. i1 \in Nat /\ i2 \in Nat
      BY <1>1
    <3>7. i1 = d * (i1 \div d) + (i1 % d) /\ i2 = d * (i2 \div d) + (i2 % d)
      BY <1>1, <3>6, DivFacts
    <3>8. i1 = i2
      BY <3>4, <3>5, <3>7
    <3> QED BY <3>1, <3>2, <3>4, <3>8
  <2>2. DOMAIN f = RoundCopies
    OBVIOUS
  <2> HIDE DEF f, T
  <2> QED BY <1>5, <2>1, <2>2 DEF Injection, IsInjective
<1>7. /\ IsFiniteSet(RoundCopies)
      /\ Cardinality(RoundCopies) <= Cardinality(T)
      /\ Cardinality(RoundCopies) = Cardinality(T) <=> f \in Surjection(RoundCopies, T)
  <2> HIDE DEF f, T
  <2> QED BY <1>3, <1>6, FS_Injection
<1>8. ASSUME n > 0, n % d = 0 PROVE f \in Surjection(RoundCopies, T)
  <2>1. U > 0 /\ U * d = n
    BY <1>1, <1>8, UsersOfRound DEF U, d
  <2>2. ASSUME NEW t \in T PROVE \E c \in RoundCopies : f[c] = t
    <3>1. PICK seq \in 0 .. M - 1, k \in 0 .. d - 1 : t = <<seq, k>>
      BY <2>2
    <3> DEFINE q == seq % U
               i == q * d + k
               c == [lap |-> lap, seq |-> seq, dev |-> i]
    <3>2. seq \in Nat /\ k \in Nat /\ k < d
      BY <1>1
    <3>3. q \in 0 .. U - 1
      BY <1>2, <2>1, <3>2, DivFacts
    <3>4. q \in Nat /\ q + 1 <= U
      BY <1>2, <3>3
    <3> HIDE DEF q
    <3>5. (q + 1) * d <= U * d /\ (q + 1) * d = q * d + d /\ q * d \in Nat
      BY <1>1, <1>2, <3>4
    <3>6. i \in 0 .. n - 1
      BY <1>1, <2>1, <3>2, <3>5
    <3>7. i \div d = q /\ i % d = k
      BY <1>1, <3>2, <3>4, DivUnique
    <3> HIDE DEF i
    <3>8. c \in RoundCopies
      BY <1>4, <3>6, <3>7 DEF q
    <3>9. f[c] = <<seq, k>>
      BY <3>7, <3>8
    <3> QED BY <3>1, <3>8, <3>9
  <2> HIDE DEF f, T
  <2> QED BY <1>5, <2>2 DEF Surjection
<1> HIDE DEF f, T
<1> QED BY <1>3, <1>7, <1>8 DEF n, d

-----------------------------------------------------------------------------
(* What a step that stays in the program, or in the round, leaves as it is. *)

\* Accounts and the number of rounds depend on the program only.
LEMMA SameTool ==
    ASSUME tool' = tool
    PROVE  Perf' = Perf /\ Accounts' = Accounts /\ Laps' = Laps
BY DEF Perf, Accounts, Users, MaxSubs, Laps

\* Within a round the subscribers and the copies that are to be delivered are fixed.
LEMMA SameRound ==
    ASSUME tool' = tool, lap' = lap
    PROVE  /\ Subscribers' = Subscribers /\ IdleLap' = IdleLap
           /\ RoundCopies' = RoundCopies
           /\ \A seq : UserCopies(seq)' = UserCopies(seq)
<1>1. Perf' = Perf
  BY SameTool
<1>2. Subscribers' = Subscribers /\ IdleLap' = IdleLap
  BY <1>1 DEF Subscribers, IdleLap
<1>3. \A seq : UserCopies(seq)' = UserCopies(seq)
  BY <1>2 DEF UserCopies, Copies
<1> QED BY <1>2, <1>3 DEF RoundCopies

\* The number of rounds or measurements.
LEMMA LapsType == Laps \in Nat
<1>1. Len(SubCounts) \in Nat
  BY LoadGenAssumption
<1>2. Len(Levels) \in Nat
  BY LevelsType
<1> QED BY <1>1, <1>2 DEF Laps

\* A publication adds copies of the message for devices, with the number of the round.
LEMMA BroadcastAdds ==
    ASSUME LoadTypes, NEW seq \in Nat, NEW u, Broadcast(seq, u)
    PROVE  /\ wire \subseteq wire' /\ wire' \subseteq Copy /\ stored' \subseteq Copy
           /\ \A c \in wire' \ wire :
                 \E i \in AllDevices : /\ link[i] = "up" /\ UserOf(i) = u
                                       /\ c = [lap |-> lap, seq |-> seq, dev |-> i]
           /\ \A i \in AllDevices :
                 link[i] = "up" /\ UserOf(i) = u => [lap |-> lap, seq |-> seq, dev |-> i] \in wire'
           /\ \A c \in stored' \ stored : c.lap = lap
<1> DEFINE C(i) == [lap |-> lap, seq |-> seq, dev |-> i]
           Live == {i \in AllDevices : link[i] = "up"}
<1>1. lap \in Nat /\ wire \subseteq Copy /\ stored \subseteq Copy
  BY DEF LoadTypes
<1>2. \A i \in AllDevices : C(i) \in Copy
  BY <1>1 DEF Copy
<1>3. wire' = wire \cup {C(i) : i \in {i \in Live : UserOf(i) = u}}
  BY DEF Broadcast, Copies
<1>4. stored' = stored \cup {C(i) : i \in {i \in AllDevices : UserOf(i) = u}}
  BY DEF Broadcast, Copies
<1>5. \A i : C(i).lap = lap
  OBVIOUS
<1> HIDE DEF C
<1>6. wire \subseteq wire' /\ wire' \subseteq Copy /\ stored' \subseteq Copy
  BY <1>1, <1>2, <1>3, <1>4
<1>7. \A c \in wire' \ wire :
         \E i \in AllDevices : link[i] = "up" /\ UserOf(i) = u /\ c = C(i)
  BY <1>3
<1>8. \A i \in AllDevices : link[i] = "up" /\ UserOf(i) = u => C(i) \in wire'
  BY <1>3
<1>9. \A c \in stored' \ stored : c.lap = lap
  BY <1>4, <1>5
<1> QED BY <1>6, <1>7, <1>8, <1>9 DEF C

\* A task of create_user: an account reported as created is there.
LEMMA CreateStep ==
    ASSUME LoadInv, NEW u \in Accounts, Create(u)
    PROVE  LoadInv'
<1>0. /\ Perf' = Perf /\ Accounts' = Accounts /\ Laps' = Laps /\ Subscribers' = Subscribers
      /\ IdleLap' = IdleLap /\ RoundCopies' = RoundCopies
      /\ \A seq : UserCopies(seq)' = UserCopies(seq)
  BY SameTool, SameRound DEF Create
<1>1. LoadTypes'
  BY <1>0 DEF LoadTypes, Busy, LoadInv, Create, Fault, linkVars, loadVars, countVars, brokerVars
<1>2. AccountsKnown'
  BY <1>0 DEF AccountsKnown, LoadTypes, Busy, LoadInv, Create
<1>3. ErrorsExplained'
  <2> SUFFICES ASSUME faults' = 0 PROVE ErrorsExplained'
    BY DEF ErrorsExplained
  <2>1. faults = 0 /\ ~ Fault
    BY DEF LoadInv, LoadTypes, Create, Fault
  <2>2. made' = [made EXCEPT ![u] = "ok"] /\ UNCHANGED <<pc, bad, link>>
    BY <2>1 DEF Create, linkVars, loadVars
  <2> QED BY <1>0, <2>1, <2>2 DEF ErrorsExplained, LoadInv, LoadTypes
<1>4. ToolSteps'
  BY <1>0 DEF ToolSteps, LoadInv, Create
<1>5. RoundLinks'
  BY <1>0 DEF RoundLinks, LoadInv, Create, linkVars
<1>6. RoundCounted'
  BY <1>0 DEF RoundCounted, LoadInv, Create, countVars, brokerVars, endVars
<1>7. RoundKept'
  BY <1>0 DEF RoundKept, LoadInv, Create, Fault, loadVars, countVars, brokerVars
<1>8. StallExplained'
  BY <1>0 DEF StallExplained, LoadInv, Create, Fault, endVars
<1>9. NoOverlap'
  BY <1>0 DEF NoOverlap, LoadInv, Create, loadVars
<1> QED BY <1>1, <1>2, <1>3, <1>4, <1>5, <1>6, <1>7, <1>8, <1>9 DEF LoadInv

\* A task of delete_user: an account that stays is one whose deletion failed.
LEMMA DeleteStep ==
    ASSUME LoadInv, NEW u \in Deleted, Delete(u)
    PROVE  LoadInv'
<1>0. /\ Perf' = Perf /\ Accounts' = Accounts /\ Laps' = Laps /\ Subscribers' = Subscribers
      /\ IdleLap' = IdleLap /\ RoundCopies' = RoundCopies
      /\ \A seq : UserCopies(seq)' = UserCopies(seq)
  BY SameTool, SameRound DEF Delete
<1>1. LoadTypes'
  BY <1>0
  DEF LoadTypes, Busy, LoadInv, Delete, Deleted, Fault, linkVars, loadVars, countVars,
      brokerVars
<1>2. AccountsKnown'
  BY <1>0 DEF AccountsKnown, LoadTypes, Busy, LoadInv, Delete, Deleted
<1>3. ErrorsExplained'
  <2> SUFFICES ASSUME faults' = 0 PROVE ErrorsExplained'
    BY DEF ErrorsExplained
  <2>1. faults = 0 /\ ~ Fault
    BY DEF LoadInv, LoadTypes, Delete, Fault
  <2> QED
    BY <1>0, <2>1
    DEF ErrorsExplained, LoadInv, LoadTypes, Delete, Deleted, linkVars, loadVars
<1>4. ToolSteps'
  BY <1>0 DEF ToolSteps, LoadInv, Delete, Deleted
<1>5. RoundLinks'
  BY <1>0 DEF RoundLinks, LoadInv, Delete, Deleted, linkVars
<1>6. RoundCounted'
  BY <1>0 DEF RoundCounted, LoadInv, Delete, Deleted, countVars, brokerVars, endVars
<1>7. RoundKept'
  BY <1>0 DEF RoundKept, LoadInv, Delete, Deleted, Fault, loadVars, countVars, brokerVars
<1>8. StallExplained'
  BY <1>0 DEF StallExplained, LoadInv, Delete, Deleted, Fault, endVars
<1>9. NoOverlap'
  BY <1>0 DEF NoOverlap, LoadInv, Delete, Deleted, loadVars
<1> QED BY <1>1, <1>2, <1>3, <1>4, <1>5, <1>6, <1>7, <1>8, <1>9 DEF LoadInv

\* The rounds start with all accounts; only an error, hence a fault, ends the program.
LEMMA AwaitCreatedStep ==
    ASSUME LoadInv, AwaitCreated
    PROVE  LoadInv'
<1>0. /\ Perf' = Perf /\ Accounts' = Accounts /\ Laps' = Laps /\ Subscribers' = Subscribers
      /\ IdleLap' = IdleLap /\ RoundCopies' = RoundCopies
      /\ \A seq : UserCopies(seq)' = UserCopies(seq)
  BY SameTool, SameRound DEF AwaitCreated
<1>1. LoadTypes'
  <2>1. Laps \in Nat /\ lap = 1
    BY LapsType DEF LoadInv, LoadTypes, AwaitCreated
  <2>2. pc' \in {"connect", "cleanup", "failed"} /\ (pc' = "connect" => Laps # 0)
    BY DEF AwaitCreated, Fails
  <2>3. Busy' \/ pc' \in {"provision", "cleanup", "done", "failed"}
    BY <2>2 DEF Busy
  <2>4. lap' \in Nat \ {0} /\ (Busy' => lap' \in 1 .. Laps') /\ (pc' = "provision" => lap' = 1)
    BY <1>0, <2>1, <2>2 DEF AwaitCreated, Busy
  <2> QED
    BY <1>0, <2>3, <2>4
    DEF LoadTypes, LoadInv, AwaitCreated, setupVars, linkVars, loadVars, countVars, brokerVars
<1>2. AccountsKnown'
  BY <1>0 DEF AccountsKnown, Busy, LoadInv, AwaitCreated, Fails, setupVars
<1>3. ErrorsExplained'
  BY <1>0 DEF ErrorsExplained, LoadInv, AwaitCreated, Fails, setupVars, linkVars, loadVars
<1>4. ToolSteps'
  BY <1>0 DEF ToolSteps, LoadInv, AwaitCreated, Fails
<1>5. RoundLinks'
  BY <1>0 DEF RoundLinks, LoadInv, AwaitCreated, Fails, linkVars
<1>6. RoundCounted'
  BY <1>0 DEF RoundCounted, LoadInv, AwaitCreated, Fails, countVars, brokerVars, endVars
<1>7. RoundKept'
  BY <1>0 DEF RoundKept, LoadInv, AwaitCreated, Fails, loadVars, countVars, brokerVars
<1>8. StallExplained'
  BY <1>0 DEF StallExplained, LoadInv, AwaitCreated, Fails, endVars
<1>9. NoOverlap'
  BY <1>0 DEF NoOverlap, LoadInv, AwaitCreated, Fails, loadVars
<1> QED BY <1>1, <1>2, <1>3, <1>4, <1>5, <1>6, <1>7, <1>8, <1>9 DEF LoadInv

\* A round publishes with all its devices connected; a measurement starts with fresh tasks.
LEMMA AwaitConnectedStep ==
    ASSUME LoadInv, AwaitConnected
    PROVE  LoadInv'
<1>0. /\ Perf' = Perf /\ Accounts' = Accounts /\ Laps' = Laps /\ Subscribers' = Subscribers
      /\ IdleLap' = IdleLap /\ RoundCopies' = RoundCopies
      /\ \A seq : UserCopies(seq)' = UserCopies(seq)
  BY SameTool, SameRound DEF AwaitConnected
<1>1. LoadTypes'
  BY <1>0
  DEF LoadTypes, Busy, LoadInv, AwaitConnected, Fails, setupVars, linkVars, countVars,
      brokerVars
<1>2. AccountsKnown'
  BY <1>0 DEF AccountsKnown, Busy, LoadInv, AwaitConnected, Fails, setupVars
<1>3. ErrorsExplained'
  BY <1>0 DEF ErrorsExplained, LoadInv, AwaitConnected, Fails, setupVars, linkVars
<1>4. ToolSteps'
  BY <1>0 DEF ToolSteps, LoadInv, AwaitConnected, Fails
<1>5. RoundLinks'
  BY <1>0 DEF RoundLinks, LoadInv, AwaitConnected, Fails, linkVars
<1>6. RoundCounted'
  BY <1>0 DEF RoundCounted, LoadInv, AwaitConnected, Fails, countVars, brokerVars, endVars
<1>7. RoundKept'
  BY <1>0 DEF RoundKept, LoadInv, AwaitConnected, Fails, countVars, brokerVars
<1>8. StallExplained'
  BY <1>0 DEF StallExplained, LoadInv, AwaitConnected, Fails, endVars
<1>9. NoOverlap'
  BY <1>0 DEF NoOverlap, LoadInv, AwaitConnected, Fails
<1> QED BY <1>1, <1>2, <1>3, <1>4, <1>5, <1>6, <1>7, <1>8, <1>9 DEF LoadInv

\* The regular end: every account was deleted or asked to be.
LEMMA AwaitDeletedStep ==
    ASSUME LoadInv, AwaitDeleted
    PROVE  LoadInv'
<1>0. /\ Perf' = Perf /\ Accounts' = Accounts /\ Laps' = Laps /\ Subscribers' = Subscribers
      /\ IdleLap' = IdleLap /\ RoundCopies' = RoundCopies
      /\ \A seq : UserCopies(seq)' = UserCopies(seq)
  BY SameTool, SameRound DEF AwaitDeleted
<1>1. LoadTypes'
  BY <1>0
  DEF LoadTypes, Busy, LoadInv, AwaitDeleted, Deleted, setupVars, linkVars, loadVars, countVars,
      brokerVars
<1>2. AccountsKnown'
  BY <1>0 DEF AccountsKnown, Busy, LoadInv, AwaitDeleted, Deleted, setupVars
<1>3. ErrorsExplained'
  BY <1>0 DEF ErrorsExplained, LoadInv, AwaitDeleted, Deleted, setupVars, linkVars, loadVars
<1>4. ToolSteps'
  BY <1>0 DEF ToolSteps, LoadInv, AwaitDeleted, Deleted
<1>5. RoundLinks'
  BY <1>0 DEF RoundLinks, LoadInv, AwaitDeleted, Deleted, linkVars
<1>6. RoundCounted'
  BY <1>0 DEF RoundCounted, LoadInv, AwaitDeleted, Deleted, countVars, brokerVars, endVars
<1>7. RoundKept'
  BY <1>0 DEF RoundKept, LoadInv, AwaitDeleted, Deleted, loadVars, countVars, brokerVars
<1>8. StallExplained'
  BY <1>0 DEF StallExplained, LoadInv, AwaitDeleted, Deleted, endVars
<1>9. NoOverlap'
  BY <1>0 DEF NoOverlap, LoadInv, AwaitDeleted, Deleted, loadVars
<1> QED BY <1>1, <1>2, <1>3, <1>4, <1>5, <1>6, <1>7, <1>8, <1>9 DEF LoadInv

\* An attempt to connect fails only by a fault, as the accounts of all devices exist.
LEMMA TryConnectStep ==
    ASSUME LoadInv, NEW i \in AllDevices, TryConnect(i)
    PROVE  LoadInv'
<1>0. /\ Perf' = Perf /\ Accounts' = Accounts /\ Laps' = Laps /\ Subscribers' = Subscribers
      /\ IdleLap' = IdleLap /\ RoundCopies' = RoundCopies
      /\ \A seq : UserCopies(seq)' = UserCopies(seq)
  BY SameTool, SameRound DEF TryConnect
<1>1. LoadTypes'
  BY <1>0
  DEF LoadTypes, Busy, LoadInv, TryConnect, Connecting, Fault, setupVars, loadVars, countVars,
      brokerVars
<1>2. AccountsKnown'
  BY <1>0 DEF AccountsKnown, Busy, LoadInv, TryConnect, Connecting, setupVars
<1>3. ErrorsExplained'
  <2> SUFFICES ASSUME faults' = 0 PROVE ErrorsExplained'
    BY DEF ErrorsExplained
  <2>1. faults \in Nat /\ ~ Fault
    BY DEF LoadInv, LoadTypes, Fault
  <2>2. UserOf(i) \in Accounts
    BY RoundSize DEF LoadInv, LoadTypes, Busy, TryConnect, Connecting
  <2>3. UserOf(i) \in has
    BY <2>2 DEF LoadInv, AccountsKnown, Busy, TryConnect, Connecting
  <2> QED BY <2>1, <2>3 DEF TryConnect
<1>4. ToolSteps'
  BY <1>0 DEF ToolSteps, LoadInv, TryConnect, Connecting
<1>5. RoundLinks'
  BY <1>0 DEF RoundLinks, LoadInv, TryConnect, Connecting
<1>6. RoundCounted'
  BY <1>0 DEF RoundCounted, LoadInv, TryConnect, Connecting, countVars, brokerVars, endVars
<1>7. RoundKept'
  BY <1>0 DEF RoundKept, LoadInv, TryConnect, Connecting, Fault, loadVars, countVars, brokerVars
<1>8. StallExplained'
  BY <1>0 DEF StallExplained, LoadInv, TryConnect, Connecting, Fault, endVars
<1>9. NoOverlap'
  BY <1>0 DEF NoOverlap, LoadInv, TryConnect, Connecting, loadVars
<1> QED BY <1>1, <1>2, <1>3, <1>4, <1>5, <1>6, <1>7, <1>8, <1>9 DEF LoadInv

\* A new subscription loads copies stored in earlier rounds only.
LEMMA SubscribeStep ==
    ASSUME LoadInv, NEW i \in AllDevices, Subscribe(i)
    PROVE  LoadInv'
<1>0. /\ Perf' = Perf /\ Accounts' = Accounts /\ Laps' = Laps /\ Subscribers' = Subscribers
      /\ IdleLap' = IdleLap /\ RoundCopies' = RoundCopies
      /\ \A seq : UserCopies(seq)' = UserCopies(seq)
  BY SameTool, SameRound DEF Subscribe
<1>1. LoadTypes'
  BY <1>0 DEF LoadTypes, Busy, LoadInv, Subscribe, Connecting, setupVars, loadVars, countVars
<1>2. AccountsKnown'
  BY <1>0 DEF AccountsKnown, Busy, LoadInv, Subscribe, Connecting, setupVars
<1>3. ErrorsExplained'
  BY <1>0 DEF ErrorsExplained, LoadTypes, LoadInv, Subscribe, Connecting, setupVars, loadVars
<1>4. ToolSteps'
  BY <1>0 DEF ToolSteps, LoadInv, Subscribe, Connecting
<1>5. RoundLinks'
  BY <1>0 DEF RoundLinks, LoadInv, Subscribe, Connecting
<1>6. RoundCounted'
  BY <1>0 DEF RoundCounted, LoadInv, Subscribe, Connecting, countVars, endVars
<1>7. RoundKept'
  BY <1>0 DEF RoundKept, LoadInv, Subscribe, Connecting, loadVars, countVars
<1>8. StallExplained'
  BY <1>0 DEF StallExplained, LoadInv, Subscribe, Connecting, endVars
<1>9. NoOverlap'
  BY <1>0 DEF NoOverlap, LoadInv, Subscribe, Connecting, loadVars
<1> QED BY <1>1, <1>2, <1>3, <1>4, <1>5, <1>6, <1>7, <1>8, <1>9 DEF LoadInv

\* A failed subscription is a fault.
LEMMA SubscribeFailsStep ==
    ASSUME LoadInv, NEW i \in AllDevices, SubscribeFails(i)
    PROVE  LoadInv'
<1>0. /\ Perf' = Perf /\ Accounts' = Accounts /\ Laps' = Laps /\ Subscribers' = Subscribers
      /\ IdleLap' = IdleLap /\ RoundCopies' = RoundCopies
      /\ \A seq : UserCopies(seq)' = UserCopies(seq)
  BY SameTool, SameRound DEF SubscribeFails
<1>1. LoadTypes'
  BY <1>0
  DEF LoadTypes, Busy, LoadInv, SubscribeFails, Connecting, Fault, setupVars, loadVars,
      countVars, brokerVars
<1>2. AccountsKnown'
  BY <1>0 DEF AccountsKnown, Busy, LoadInv, SubscribeFails, Connecting, setupVars
<1>3. ErrorsExplained'
  <2> SUFFICES ASSUME faults' = 0 PROVE ErrorsExplained'
    BY DEF ErrorsExplained
  <2>1. faults = 0 /\ ~ Fault
    BY DEF LoadInv, LoadTypes, SubscribeFails, Fault
  <2> QED
    BY <1>0, <2>1
    DEF ErrorsExplained, LoadInv, SubscribeFails, Connecting, setupVars, loadVars
<1>4. ToolSteps'
  BY <1>0 DEF ToolSteps, LoadInv, SubscribeFails, Connecting
<1>5. RoundLinks'
  BY <1>0 DEF RoundLinks, LoadInv, SubscribeFails, Connecting
<1>6. RoundCounted'
  BY <1>0 DEF RoundCounted, LoadInv, SubscribeFails, Connecting, countVars, brokerVars, endVars
<1>7. RoundKept'
  BY <1>0
  DEF RoundKept, LoadInv, SubscribeFails, Connecting, Fault, loadVars, countVars, brokerVars
<1>8. StallExplained'
  BY <1>0 DEF StallExplained, LoadInv, SubscribeFails, Connecting, Fault, endVars
<1>9. NoOverlap'
  BY <1>0 DEF NoOverlap, LoadInv, SubscribeFails, Connecting, loadVars
<1> QED BY <1>1, <1>2, <1>3, <1>4, <1>5, <1>6, <1>7, <1>8, <1>9 DEF LoadInv

\* A broken link is a fault; the copies on their way over it are lost.
LEMMA LinkBreaksStep ==
    ASSUME LoadInv, NEW i \in AllDevices, LinkBreaks(i)
    PROVE  LoadInv'
<1>0. /\ Perf' = Perf /\ Accounts' = Accounts /\ Laps' = Laps /\ Subscribers' = Subscribers
      /\ IdleLap' = IdleLap /\ RoundCopies' = RoundCopies
      /\ \A seq : UserCopies(seq)' = UserCopies(seq)
  BY SameTool, SameRound DEF LinkBreaks
<1>1. LoadTypes'
  BY <1>0 DEF LoadTypes, Busy, LoadInv, LinkBreaks, Fault, setupVars, loadVars, countVars
<1>2. AccountsKnown'
  BY <1>0 DEF AccountsKnown, Busy, LoadInv, LinkBreaks, setupVars
<1>3. ErrorsExplained'
  <2> SUFFICES ASSUME faults' = 0 PROVE ErrorsExplained'
    BY DEF ErrorsExplained
  <2>1. faults = 0 /\ ~ Fault
    BY DEF LoadInv, LoadTypes, LinkBreaks, Fault
  <2> QED BY <1>0, <2>1 DEF ErrorsExplained, LoadInv, LinkBreaks, setupVars, loadVars
<1>4. ToolSteps'
  BY <1>0 DEF ToolSteps, LoadInv, LinkBreaks
<1>5. RoundLinks'
  BY <1>0 DEF RoundLinks, LoadTypes, Connected, LoadInv, LinkBreaks
<1>6. RoundCounted'
  BY <1>0 DEF RoundCounted, LoadInv, LinkBreaks, countVars, endVars
<1>7. RoundKept'
  BY <1>0 DEF RoundKept, LoadTypes, LoadInv, LinkBreaks, Fault, loadVars, countVars
<1>8. StallExplained'
  BY <1>0 DEF StallExplained, LoadTypes, LoadInv, LinkBreaks, Fault, endVars
<1>9. NoOverlap'
  BY <1>0 DEF NoOverlap, LoadInv, LinkBreaks, loadVars
<1> QED BY <1>1, <1>2, <1>3, <1>4, <1>5, <1>6, <1>7, <1>8, <1>9 DEF LoadInv

\* The timer of a publishing task: there are tasks only in a measurement under load.
LEMMA TickStep ==
    ASSUME LoadInv, NEW i \in AllDevices, Tick(i)
    PROVE  LoadInv'
<1>0. /\ Perf' = Perf /\ Accounts' = Accounts /\ Laps' = Laps /\ Subscribers' = Subscribers
      /\ IdleLap' = IdleLap /\ RoundCopies' = RoundCopies
      /\ \A seq : UserCopies(seq)' = UserCopies(seq)
  BY SameTool, SameRound DEF Tick
<1>1. LoadTypes'
  BY <1>0 DEF LoadTypes, Busy, LoadInv, Tick, setupVars, linkVars, countVars, brokerVars
<1>2. AccountsKnown'
  BY <1>0 DEF AccountsKnown, Busy, LoadInv, Tick, setupVars
<1>3. ErrorsExplained'
  BY <1>0 DEF ErrorsExplained, LoadInv, Tick, setupVars, linkVars
<1>4. ToolSteps'
  BY <1>0 DEF ToolSteps, LoadInv, Tick
<1>5. RoundLinks'
  BY <1>0 DEF RoundLinks, LoadInv, Tick, linkVars
<1>6. RoundCounted'
  BY <1>0 DEF RoundCounted, LoadInv, Tick, countVars, brokerVars, endVars
<1>7. RoundKept'
  BY <1>0 DEF RoundKept, LoadInv, Tick, countVars, brokerVars
<1>8. StallExplained'
  BY <1>0 DEF StallExplained, LoadInv, Tick, endVars
<1>9. NoOverlap'
  BY <1>0 DEF NoOverlap, LoadInv, Tick
<1> QED BY <1>1, <1>2, <1>3, <1>4, <1>5, <1>6, <1>7, <1>8, <1>9 DEF LoadInv

\* A device of perf-resources publishes: no round of perf is under way.
LEMMA SendStep ==
    ASSUME LoadInv, NEW i \in AllDevices, Send(i)
    PROVE  LoadInv'
<1>0. /\ Perf' = Perf /\ Accounts' = Accounts /\ Laps' = Laps /\ Subscribers' = Subscribers
      /\ IdleLap' = IdleLap /\ RoundCopies' = RoundCopies
      /\ \A seq : UserCopies(seq)' = UserCopies(seq)
  BY SameTool, SameRound DEF Send
<1>1. LoadTypes'
  <2>1. i \in Nat
    BY Settings
  <2>2. wire' \subseteq Copy /\ stored' \subseteq Copy
    BY <2>1, BroadcastAdds DEF LoadInv, LoadTypes, Send, brokerVars
  <2>3. task' \in [AllDevices -> {"none", "wait", "send", "rest", "ended"}]
    BY DEF LoadInv, LoadTypes, Send
  <2> QED BY <1>0, <2>2, <2>3 DEF LoadTypes, Busy, LoadInv, Send, setupVars, linkVars, countVars
<1>2. AccountsKnown'
  BY <1>0 DEF AccountsKnown, Busy, LoadInv, Send, setupVars
<1>3. ErrorsExplained'
  BY <1>0 DEF ErrorsExplained, LoadInv, Send, setupVars, linkVars
<1>4. ToolSteps'
  BY <1>0 DEF ToolSteps, LoadInv, Send
<1>5. RoundLinks'
  BY <1>0 DEF RoundLinks, LoadInv, Send, linkVars
<1>6. RoundCounted'
  BY <1>0 DEF RoundCounted, NoOverlap, ToolSteps, LoadInv, Send
<1>7. RoundKept'
  BY <1>0 DEF RoundKept, NoOverlap, LoadInv, Send
<1>8. StallExplained'
  BY <1>0 DEF StallExplained, LoadInv, Send, endVars
<1>9. NoOverlap'
  BY <1>0 DEF NoOverlap, LoadInv, Send
<1> QED BY <1>1, <1>2, <1>3, <1>4, <1>5, <1>6, <1>7, <1>8, <1>9 DEF LoadInv

\* A receiving task counts a copy: of this round and new, or as an extra one.
LEMMA ReceiveStep ==
    ASSUME LoadInv, NEW c \in wire, Receive(c)
    PROVE  LoadInv'
<1>0. /\ Perf' = Perf /\ Accounts' = Accounts /\ Laps' = Laps /\ Subscribers' = Subscribers
      /\ IdleLap' = IdleLap /\ RoundCopies' = RoundCopies
      /\ \A seq : UserCopies(seq)' = UserCopies(seq)
  BY SameTool, SameRound DEF Receive
<1>1. LoadTypes'
  <2>1. c \in Copy /\ count' \in Nat /\ extra' \in Nat /\ faults' \in Nat /\ wire' \subseteq Copy
    BY DEF LoadInv, LoadTypes, Receive, Fault
  <2>2. got' \subseteq Copy /\ IsFiniteSet(got')
    BY <2>1, FS_AddElement DEF LoadInv, LoadTypes, Receive
  <2> QED
    BY <1>0, <2>1, <2>2
    DEF LoadTypes, Busy, LoadInv, Receive, setupVars, linkVars, loadVars
<1>2. AccountsKnown'
  BY <1>0 DEF AccountsKnown, Busy, LoadInv, Receive, setupVars
<1>3. ErrorsExplained'
  <2> SUFFICES ASSUME faults' = 0 PROVE ErrorsExplained'
    BY DEF ErrorsExplained
  <2>1. faults = 0 /\ ~ Fault
    BY DEF LoadInv, LoadTypes, Receive, Fault
  <2> QED BY <1>0, <2>1 DEF ErrorsExplained, LoadInv, Receive, setupVars, linkVars, loadVars
<1>4. ToolSteps'
  BY <1>0 DEF ToolSteps, LoadInv, Receive
<1>5. RoundLinks'
  BY <1>0 DEF RoundLinks, LoadInv, Receive, linkVars
<1>6. RoundCounted'
  <2> SUFFICES ASSUME Perf PROVE RoundCounted'
    BY <1>0 DEF RoundCounted
  <2>1. /\ count = Cardinality(got) + extra /\ IsFiniteSet(got)
        /\ count \in Nat /\ extra \in Nat /\ Cardinality(got) \in Nat
    BY FS_CardinalityType DEF LoadInv, LoadTypes, RoundCounted
  <2>2. c \in wire /\ count' = count + 1 /\ wire' \subseteq wire
    BY DEF Receive
  <2>3. count' = Cardinality(got') + extra'
    <3>1. CASE c.lap = lap /\ c \notin got
      <4>1. got' = got \cup {c} /\ extra' = extra
        BY <3>1 DEF Receive
      <4>2. Cardinality(got') = Cardinality(got) + 1
        BY <2>1, <3>1, <4>1, FS_AddElement
      <4> QED BY <2>1, <2>2, <4>1, <4>2
    <3>2. CASE ~ (c.lap = lap /\ c \notin got)
      <4>1. got' = got /\ extra' = extra + 1
        BY <3>2 DEF Receive
      <4> QED BY <2>1, <2>2, <4>1
    <3> QED BY <3>1, <3>2
  <2>4. got' \subseteq wire \cup got /\ \A x \in got' : x.lap = lap
    BY <2>2 DEF LoadInv, RoundCounted, Receive
  <2>5. \A x \in wire' \cup got' : x.lap = lap => x \in RoundCopies
    BY <2>2, <2>4 DEF LoadInv, RoundCounted
  <2>6. UNCHANGED <<pc, lap, stored, stalled>>
    BY DEF Receive, endVars
  <2>7. Expected \in Nat
    BY LoadGenAssumption DEF Expected
  <2>8. pc' = "leave" /\ stalled' # TRUE => count' >= Expected
    BY <2>1, <2>2, <2>6, <2>7 DEF LoadInv, RoundCounted
  <2> QED BY <1>0, <2>3, <2>4, <2>5, <2>6, <2>8 DEF LoadInv, RoundCounted
<1>7. RoundKept'
  <2>1. UNCHANGED <<pc, next>>
    BY DEF Receive, loadVars
  <2>2. ASSUME pc \in {"publish", "drain"}, faults' = 0, Subscribers > 0,
               NEW p \in 0 .. NumPubs - 1, NEW seq \in Begin(p) .. next[p] - 1
        PROVE  UserCopies(seq) \subseteq wire' \cup got'
    <3>1. faults = 0 /\ wire' = wire \ {c}
      BY <2>2 DEF LoadInv, LoadTypes, Receive, Fault
    <3>2. UserCopies(seq) \subseteq wire \cup got
      BY <2>2, <3>1 DEF LoadInv, RoundKept
    <3>3. got \subseteq got' /\ (c.lap = lap => c \in got')
      BY DEF Receive
    <3>4. \A x \in UserCopies(seq) : x.lap = lap
      BY UserCopiesAre
    <3> QED BY <3>1, <3>2, <3>3, <3>4
  <2> QED BY <1>0, <2>1, <2>2 DEF LoadInv, RoundKept
<1>8. StallExplained'
  BY <1>0 DEF StallExplained, LoadTypes, LoadInv, Receive, Fault, endVars
<1>9. NoOverlap'
  BY <1>0 DEF NoOverlap, LoadInv, Receive, loadVars
<1> QED BY <1>1, <1>2, <1>3, <1>4, <1>5, <1>6, <1>7, <1>8, <1>9 DEF LoadInv

\* The publishers start at the beginning of their parts.
LEMMA OpenPublishersStep ==
    ASSUME LoadInv, OpenPublishers
    PROVE  LoadInv'
<1>0. /\ Perf' = Perf /\ Accounts' = Accounts /\ Laps' = Laps /\ Subscribers' = Subscribers
      /\ IdleLap' = IdleLap /\ RoundCopies' = RoundCopies
      /\ \A seq : UserCopies(seq)' = UserCopies(seq)
  BY SameTool, SameRound DEF OpenPublishers
<1>1. LoadTypes'
  <2>1. next' \in [0 .. NumPubs - 1 -> Nat]
    BY PartsCover DEF OpenPublishers
  <2>2. pc' \in {"publish", "failed"} /\ faults' \in Nat
    BY DEF LoadInv, LoadTypes, OpenPublishers, Fails, Fault
  <2> QED
    BY <1>0, <2>1, <2>2
    DEF LoadTypes, Busy, LoadInv, OpenPublishers, setupVars, linkVars, countVars, brokerVars
<1>2. AccountsKnown'
  BY <1>0 DEF AccountsKnown, Busy, LoadInv, OpenPublishers, Fails, setupVars
<1>3. ErrorsExplained'
  <2> SUFFICES ASSUME faults' = 0 PROVE ErrorsExplained'
    BY DEF ErrorsExplained
  <2>1. faults = 0 /\ ~ Fault
    BY DEF LoadInv, LoadTypes, OpenPublishers, Fault
  <2>2. pc' = "publish" /\ UNCHANGED <<made, bad, link>>
    BY <2>1 DEF OpenPublishers, setupVars, linkVars
  <2> QED BY <1>0, <2>1, <2>2 DEF ErrorsExplained, LoadInv
<1>4. ToolSteps'
  BY <1>0 DEF ToolSteps, LoadInv, OpenPublishers, Fails
<1>5. RoundLinks'
  BY <1>0 DEF RoundLinks, LoadInv, OpenPublishers, Fails, linkVars
<1>6. RoundCounted'
  BY <1>0 DEF RoundCounted, LoadInv, OpenPublishers, Fails, countVars, brokerVars, endVars
<1>7. RoundKept'
  <2>1. \A p \in 0 .. NumPubs - 1 : Begin(p) \in Nat /\ next'[p] = Begin(p)
    BY PartsCover DEF OpenPublishers
  <2>2. \A p \in 0 .. NumPubs - 1 : Begin(p) .. next'[p] - 1 = {}
    BY <2>1
  <2>3. pc' # "drain"
    BY DEF OpenPublishers, Fails
  <2> QED BY <2>2, <2>3 DEF RoundKept
<1>8. StallExplained'
  BY <1>0 DEF StallExplained, LoadInv, OpenPublishers, Fault, Fails, endVars
<1>9. NoOverlap'
  BY <1>0 DEF NoOverlap, LoadInv, OpenPublishers, Fails
<1> QED BY <1>1, <1>2, <1>3, <1>4, <1>5, <1>6, <1>7, <1>8, <1>9 DEF LoadInv

\* All parts are published when the drain loop starts.
LEMMA AwaitPublishersStep ==
    ASSUME LoadInv, AwaitPublishers
    PROVE  LoadInv'
<1>0. /\ Perf' = Perf /\ Accounts' = Accounts /\ Laps' = Laps /\ Subscribers' = Subscribers
      /\ IdleLap' = IdleLap /\ RoundCopies' = RoundCopies
      /\ \A seq : UserCopies(seq)' = UserCopies(seq)
  BY SameTool, SameRound DEF AwaitPublishers
<1>1. LoadTypes'
  BY <1>0
  DEF LoadTypes, Busy, LoadInv, AwaitPublishers, setupVars, linkVars, loadVars, countVars,
      brokerVars
<1>2. AccountsKnown'
  BY <1>0 DEF AccountsKnown, Busy, LoadInv, AwaitPublishers, setupVars
<1>3. ErrorsExplained'
  BY <1>0 DEF ErrorsExplained, LoadInv, AwaitPublishers, setupVars, linkVars, loadVars
<1>4. ToolSteps'
  BY <1>0 DEF ToolSteps, LoadInv, AwaitPublishers
<1>5. RoundLinks'
  BY <1>0 DEF RoundLinks, LoadInv, AwaitPublishers, linkVars
<1>6. RoundCounted'
  BY <1>0 DEF RoundCounted, LoadInv, AwaitPublishers, countVars, brokerVars, endVars
<1>7. RoundKept'
  BY <1>0 DEF RoundKept, LoadTypes, LoadInv, AwaitPublishers, loadVars, countVars, brokerVars
<1>8. StallExplained'
  BY <1>0 DEF StallExplained, LoadInv, AwaitPublishers, endVars
<1>9. NoOverlap'
  BY <1>0 DEF NoOverlap, LoadInv, AwaitPublishers, loadVars
<1> QED BY <1>1, <1>2, <1>3, <1>4, <1>5, <1>6, <1>7, <1>8, <1>9 DEF LoadInv

\* The loop saw the expected number.
LEMMA DrainedStep ==
    ASSUME LoadInv, Drained
    PROVE  LoadInv'
<1>0. /\ Perf' = Perf /\ Accounts' = Accounts /\ Laps' = Laps /\ Subscribers' = Subscribers
      /\ IdleLap' = IdleLap /\ RoundCopies' = RoundCopies
      /\ \A seq : UserCopies(seq)' = UserCopies(seq)
  BY SameTool, SameRound DEF Drained
<1>1. LoadTypes'
  BY <1>0
  DEF LoadTypes, Busy, LoadInv, Drained, setupVars, linkVars, loadVars, countVars, brokerVars
<1>2. AccountsKnown'
  BY <1>0 DEF AccountsKnown, Busy, LoadInv, Drained, setupVars
<1>3. ErrorsExplained'
  BY <1>0 DEF ErrorsExplained, LoadInv, Drained, setupVars, linkVars, loadVars
<1>4. ToolSteps'
  BY <1>0 DEF ToolSteps, LoadInv, Drained
<1>5. RoundLinks'
  BY <1>0 DEF RoundLinks, LoadInv, Drained, linkVars
<1>6. RoundCounted'
  BY <1>0 DEF RoundCounted, LoadInv, Drained, countVars, brokerVars
<1>7. RoundKept'
  BY <1>0 DEF RoundKept, LoadInv, Drained, loadVars, countVars, brokerVars
<1>8. StallExplained'
  BY <1>0 DEF StallExplained, LoadInv, Drained
<1>9. NoOverlap'
  BY <1>0 DEF NoOverlap, LoadInv, Drained, loadVars
<1> QED BY <1>1, <1>2, <1>3, <1>4, <1>5, <1>6, <1>7, <1>8, <1>9 DEF LoadInv

\* The loop gives up: the step at which StallExplained is decided.
LEMMA StallStep ==
    ASSUME LoadInv, Stall
    PROVE  LoadInv'
<1>0. /\ Perf' = Perf /\ Accounts' = Accounts /\ Laps' = Laps /\ Subscribers' = Subscribers
      /\ IdleLap' = IdleLap /\ RoundCopies' = RoundCopies
      /\ \A seq : UserCopies(seq)' = UserCopies(seq)
  BY SameTool, SameRound DEF Stall
<1>1. LoadTypes'
  BY <1>0
  DEF LoadTypes, Busy, LoadInv, Stall, setupVars, linkVars, loadVars, countVars, brokerVars
<1>2. AccountsKnown'
  BY <1>0 DEF AccountsKnown, Busy, LoadInv, Stall, setupVars
<1>3. ErrorsExplained'
  BY <1>0 DEF ErrorsExplained, LoadInv, Stall, setupVars, linkVars, loadVars
<1>4. ToolSteps'
  BY <1>0 DEF ToolSteps, LoadInv, Stall
<1>5. RoundLinks'
  BY <1>0 DEF RoundLinks, LoadInv, Stall, linkVars
<1>6. RoundCounted'
  BY <1>0 DEF RoundCounted, LoadInv, Stall, countVars, brokerVars
<1>7. RoundKept'
  BY <1>0 DEF RoundKept, LoadInv, Stall, loadVars, countVars, brokerVars
<1>8. StallExplained'
  <2> SUFFICES ASSUME wire = {}, faults = 0, Subscribers # 0, Subscribers % Devices = 0
               PROVE  FALSE
    <3>1. CASE wire # {}
      <4>1. late'
        BY <3>1, Zenon DEF Stall
      <4> QED BY <4>1 DEF StallExplained
    <3>2. faults' = faults /\ (faults > 0 \/ faults = 0)
      BY DEF Stall, LoadInv, LoadTypes
    <3> QED BY <1>0, <3>1, <3>2 DEF StallExplained
  <2>1. /\ lap \in 1 .. Laps /\ Perf /\ pc = "drain" /\ count < Expected
        /\ count = Cardinality(got) + extra /\ IsFiniteSet(got)
        /\ count \in Nat /\ extra \in Nat
    BY DEF Stall, LoadInv, LoadTypes, Busy, ToolSteps, RoundCounted
  <2>2. Subscribers \in Nat /\ Subscribers > 0
    BY <2>1, RoundSize
  <2>3. ASSUME NEW seq \in 0 .. MessageCount - 1 PROVE UserCopies(seq) \subseteq got
    <3>1. PICK p \in 0 .. NumPubs - 1 : Begin(p) <= seq /\ seq < End(p)
      BY PartsCover
    <3>2. Begin(p) \in Nat /\ End(p) \in Nat /\ next[p] \in Nat /\ next[p] >= End(p)
      BY <2>1, PartsCover DEF LoadInv, LoadTypes, RoundKept
    <3>3. seq \in Begin(p) .. next[p] - 1
      BY <3>1, <3>2
    <3> QED BY <2>1, <2>2, <3>3 DEF LoadInv, RoundKept
  <2>4. RoundCopies \subseteq got
    BY <2>3 DEF RoundCopies
  <2>5. Cardinality(RoundCopies) <= Cardinality(got) /\ Cardinality(got) \in Nat
    BY <2>1, <2>4, FS_Subset, FS_CardinalityType
  <2>6. Cardinality(RoundCopies) = Expected
    BY <2>1, <2>2, CopiesCount
  <2>7. Expected \in Nat
    BY LoadGenAssumption DEF Expected
  <2> QED BY <2>1, <2>5, <2>6, <2>7
<1>9. NoOverlap'
  BY <1>0 DEF NoOverlap, LoadInv, Stall, loadVars
<1> QED BY <1>1, <1>2, <1>3, <1>4, <1>5, <1>6, <1>7, <1>8, <1>9 DEF LoadInv

\* The end of a round: nothing of it is counted in the next.
LEMMA LeaveStep ==
    ASSUME LoadInv, Leave
    PROVE  LoadInv'
<1>0. Perf' = Perf /\ Accounts' = Accounts /\ Laps' = Laps
  BY SameTool DEF Leave
<1>1. LoadTypes'
  <2>1. lap \in 1 .. Laps /\ Laps \in Nat
    BY LapsType DEF LoadInv, LoadTypes, Leave, Busy
  <2>2. /\ lap' \in Nat \ {0} /\ (Busy' => lap' \in 1 .. Laps') /\ pc' # "provision"
        /\ (Busy' \/ pc' \in {"provision", "cleanup", "done", "failed"})
    BY <1>0, <2>1 DEF Leave, Busy
  <2>3. link' \in [AllDevices -> {"none", "up", "broken", "err"}]
    BY DEF Leave
  <2> QED BY <1>0, <2>2, <2>3, FS_EmptySet DEF LoadTypes, LoadInv, Leave, setupVars, loadVars
<1>2. AccountsKnown'
  BY <1>0 DEF AccountsKnown, Busy, LoadInv, Leave, setupVars
<1>3. ErrorsExplained'
  BY <1>0 DEF ErrorsExplained, LoadInv, Leave, setupVars, loadVars
<1>4. ToolSteps'
  BY <1>0 DEF ToolSteps, LoadInv, Leave
<1>5. RoundLinks'
  BY <1>0 DEF RoundLinks, LoadInv, Leave
<1>6. RoundCounted'
  <2>1. wire' = {} /\ got' = {} /\ count' = 0 /\ extra' = 0 /\ stored' = stored
    BY DEF Leave
  <2>2. Cardinality({}) = 0
    BY FS_EmptySet
  <2>3. lap \in Nat /\ \A c \in stored : c.lap \in Nat /\ c.lap <= lap
    BY DEF LoadInv, LoadTypes, RoundCounted, ToolSteps, Copy, Leave
  <2>4. \A c \in stored : c.lap <= lap' /\ (pc' \in {"provision", "connect"} => c.lap # lap')
    BY <2>3 DEF Leave
  <2>5. pc' # "leave"
    BY DEF Leave
  <2>6. count' = Cardinality(got') + extra'
    BY <2>1, <2>2
  <2>7. wire' \cup got' = {}
    BY <2>1
  <2> QED BY <2>1, <2>4, <2>5, <2>6, <2>7 DEF RoundCounted
<1>7. RoundKept'
  BY <1>0 DEF RoundKept, LoadInv, Leave, loadVars
<1>8. StallExplained'
  BY <1>0 DEF StallExplained, LoadInv, Leave, endVars
<1>9. NoOverlap'
  BY <1>0 DEF NoOverlap, LoadInv, Leave, loadVars
<1> QED BY <1>1, <1>2, <1>3, <1>4, <1>5, <1>6, <1>7, <1>8, <1>9 DEF LoadInv

\* A publisher sends a message of the round to all devices of its user.
LEMMA PublishStep ==
    ASSUME LoadInv, NEW p \in DOMAIN next, Publish(p)
    PROVE  LoadInv'
<1>0. /\ Perf' = Perf /\ Accounts' = Accounts /\ Laps' = Laps /\ Subscribers' = Subscribers
      /\ IdleLap' = IdleLap /\ RoundCopies' = RoundCopies
      /\ \A seq : UserCopies(seq)' = UserCopies(seq)
  BY SameTool, SameRound DEF Publish
<1>1. LoadTypes'
  <2>1. next[p] \in Nat /\ next' = [next EXCEPT ![p] = @ + 1]
    BY DEF LoadInv, LoadTypes, Publish
  <2>2. next' \in [0 .. NumPubs - 1 -> Nat]
    BY <2>1 DEF LoadInv, LoadTypes
  <2>3. wire' \subseteq Copy /\ stored' \subseteq Copy /\ faults' \in Nat
    BY <2>1, BroadcastAdds DEF LoadInv, LoadTypes, Publish, brokerVars, Fault
  <2> QED
    BY <1>0, <2>2, <2>3
    DEF LoadTypes, Busy, LoadInv, Publish, setupVars, linkVars, countVars
<1>2. AccountsKnown'
  BY <1>0 DEF AccountsKnown, Busy, LoadInv, Publish, setupVars
<1>3. ErrorsExplained'
  <2> SUFFICES ASSUME faults' = 0 PROVE ErrorsExplained'
    BY DEF ErrorsExplained
  <2>1. faults = 0 /\ ~ Fault
    BY DEF LoadInv, LoadTypes, Publish, Fault
  <2> QED BY <1>0, <2>1 DEF ErrorsExplained, LoadInv, Publish, setupVars, linkVars
<1>4. ToolSteps'
  BY <1>0 DEF ToolSteps, LoadInv, Publish
<1>5. RoundLinks'
  BY <1>0 DEF RoundLinks, LoadInv, Publish, linkVars
<1>6. RoundCounted'
  <2> DEFINE s == next[p]
             u == s % UserCount(Subscribers)
  <2>1. Perf /\ pc = "publish" /\ lap \in 1 .. Laps
    BY DEF Publish, LoadInv, LoadTypes, Busy, ToolSteps
  <2>2. p \in 0 .. NumPubs - 1 /\ s \in Nat
    BY DEF LoadInv, LoadTypes
  <2>3. s \in 0 .. MessageCount - 1
    <3>1. s < End(p) /\ End(p) \in Nat /\ End(p) <= MessageCount /\ MessageCount \in Nat
      BY <2>2, PartsCover, LoadGenAssumption DEF Publish
    <3> HIDE DEF s
    <3> QED BY <2>2, <3>1
  <2>4. CASE Broadcast(s, u)
    <3> HIDE DEF s
    <3>1. ASSUME NEW c \in wire' \ wire PROVE c \in RoundCopies
      <4>1. PICK i \in AllDevices : /\ link[i] = "up" /\ UserOf(i) = u
                                    /\ c = [lap |-> lap, seq |-> s, dev |-> i]
        BY <2>2, <2>4, <3>1, BroadcastAdds DEF LoadInv
      <4>2. i < Subscribers
        BY <2>1, <4>1 DEF LoadInv, RoundLinks
      <4>3. Subscribers \in Nat /\ i \in Nat
        BY <2>1, RoundSize, Settings
      <4>4. i \in 0 .. Subscribers - 1
        BY <4>2, <4>3
      <4>5. c \in UserCopies(s)
        BY <4>1, <4>4, UserCopiesAre
      <4> QED BY <2>3, <4>5 DEF RoundCopies
    <3>2. wire \subseteq wire' /\ \A c \in stored' \ stored : c.lap = lap
      BY <2>2, <2>4, BroadcastAdds DEF LoadInv
    <3>3. lap \in Nat /\ UNCHANGED <<pc, lap, got, count, extra>>
      BY DEF Publish, countVars, LoadInv, LoadTypes
    <3>4. \A c \in wire' \cup got : c.lap = lap => c \in RoundCopies
      BY <2>1, <3>1 DEF LoadInv, RoundCounted
    <3>5. \A c \in stored' : c.lap <= lap
      BY <2>1, <3>2, <3>3 DEF LoadInv, RoundCounted
    <3> QED BY <1>0, <2>1, <3>3, <3>4, <3>5 DEF LoadInv, RoundCounted
  <2>5. CASE UNCHANGED brokerVars
    BY <1>0, <2>1, <2>5 DEF LoadInv, RoundCounted, Publish, brokerVars, countVars
  <2> QED BY <2>4, <2>5 DEF Publish
<1>7. RoundKept'
  <2> DEFINE s == next[p]
             u == s % UserCount(Subscribers)
  <2>1. Perf /\ pc = "publish" /\ pc' = "publish" /\ lap \in 1 .. Laps
    BY DEF Publish, LoadInv, LoadTypes, Busy, ToolSteps
  <2>2. p \in 0 .. NumPubs - 1 /\ s \in Nat /\ next' = [next EXCEPT ![p] = s + 1] /\ got' = got
    BY DEF LoadInv, LoadTypes, Publish, countVars
  <2>3. ASSUME faults' = 0, Subscribers > 0,
               NEW q \in 0 .. NumPubs - 1, NEW seq \in Begin(q) .. next'[q] - 1
        PROVE  UserCopies(seq) \subseteq wire' \cup got'
    <3>1. faults = 0 /\ ~ Fault
      BY <2>3 DEF LoadInv, LoadTypes, Publish, Fault
    <3>2. Broadcast(s, u)
      BY <3>1 DEF Publish
    <3>3. wire \subseteq wire'
      BY <2>2, <3>2, BroadcastAdds DEF LoadInv
    <3>4. Begin(q) \in Nat /\ next \in [0 .. NumPubs - 1 -> Nat]
      BY PartsCover DEF LoadInv, LoadTypes
    <3>5. CASE seq \in Begin(q) .. next[q] - 1
      <4>1. UserCopies(seq) \subseteq wire \cup got
        BY <2>1, <2>3, <3>1, <3>5 DEF LoadInv, RoundKept
      <4> QED BY <2>2, <3>3, <4>1
    <3>6. CASE seq \notin Begin(q) .. next[q] - 1
      <4>1. seq = s
        BY <2>2, <2>3, <3>4, <3>6
      <4>2. ASSUME NEW c \in UserCopies(s) PROVE c \in wire'
        <5>1. PICK i \in 0 .. Subscribers - 1 :
                 UserOf(i) = u /\ c = [lap |-> lap, seq |-> s, dev |-> i]
          BY <4>2, UserCopiesAre
        <5>2. Subscribers \in Nat /\ i \in AllDevices /\ i < Subscribers
          BY <2>1, RoundSize
        <5>3. link[i] = "up"
          BY <2>1, <3>1, <5>2 DEF LoadInv, RoundLinks, ErrorsExplained, Connected
        <5> HIDE DEF s
        <5> QED BY <2>2, <3>2, <5>1, <5>2, <5>3, BroadcastAdds DEF LoadInv
      <4> QED BY <4>1, <4>2
    <3> QED BY <3>5, <3>6
  <2> QED BY <1>0, <2>1, <2>3 DEF RoundKept
<1>8. StallExplained'
  BY <1>0 DEF StallExplained, LoadInv, Publish, Fault, endVars
<1>9. NoOverlap'
  BY <1>0 DEF NoOverlap, LoadInv, Publish
<1> QED BY <1>1, <1>2, <1>3, <1>4, <1>5, <1>6, <1>7, <1>8, <1>9 DEF LoadInv

\* A publisher stops early, by a fault or because there are no users.
LEMMA PublisherStopsStep ==
    ASSUME LoadInv, NEW p \in DOMAIN next, PublisherStops(p)
    PROVE  LoadInv'
<1>0. /\ Perf' = Perf /\ Accounts' = Accounts /\ Laps' = Laps /\ Subscribers' = Subscribers
      /\ IdleLap' = IdleLap /\ RoundCopies' = RoundCopies
      /\ \A seq : UserCopies(seq)' = UserCopies(seq)
  BY SameTool, SameRound DEF PublisherStops
<1>1. LoadTypes'
  <2>1. p \in 0 .. NumPubs - 1 /\ End(p) \in Nat
    BY PartsCover DEF LoadInv, LoadTypes
  <2>2. next' \in [0 .. NumPubs - 1 -> Nat] /\ faults' \in Nat
    BY <2>1 DEF LoadInv, LoadTypes, PublisherStops, Fault
  <2> QED
    BY <1>0, <2>2
    DEF LoadTypes, Busy, LoadInv, PublisherStops, setupVars, linkVars, countVars, brokerVars
<1>2. AccountsKnown'
  BY <1>0 DEF AccountsKnown, Busy, LoadInv, PublisherStops, setupVars
<1>3. ErrorsExplained'
  <2> SUFFICES ASSUME faults' = 0 PROVE ErrorsExplained'
    BY DEF ErrorsExplained
  <2>1. faults = 0 /\ ~ Fault
    BY DEF LoadInv, LoadTypes, PublisherStops, Fault
  <2> QED BY <1>0, <2>1 DEF ErrorsExplained, LoadInv, PublisherStops, setupVars, linkVars
<1>4. ToolSteps'
  BY <1>0 DEF ToolSteps, LoadInv, PublisherStops
<1>5. RoundLinks'
  BY <1>0 DEF RoundLinks, LoadInv, PublisherStops, linkVars
<1>6. RoundCounted'
  BY <1>0 DEF RoundCounted, LoadInv, PublisherStops, countVars, brokerVars, endVars
<1>7. RoundKept'
  BY <1>0 DEF RoundKept, LoadTypes, LoadInv, PublisherStops, Fault, countVars, brokerVars
<1>8. StallExplained'
  BY <1>0 DEF StallExplained, LoadInv, PublisherStops, Fault, endVars
<1>9. NoOverlap'
  BY <1>0 DEF NoOverlap, LoadInv, PublisherStops
<1> QED BY <1>1, <1>2, <1>3, <1>4, <1>5, <1>6, <1>7, <1>8, <1>9 DEF LoadInv

\* A measurement is over; a failed sample is a fault.
LEMMA MeasuredStep ==
    ASSUME LoadInv, Measured
    PROVE  LoadInv'
<1>0. /\ Perf' = Perf /\ Accounts' = Accounts /\ Laps' = Laps /\ Subscribers' = Subscribers
      /\ IdleLap' = IdleLap /\ RoundCopies' = RoundCopies
      /\ \A seq : UserCopies(seq)' = UserCopies(seq)
  BY SameTool, SameRound DEF Measured
<1>1. LoadTypes'
  BY <1>0
  DEF LoadTypes, Busy, LoadInv, Measured, Fault, setupVars, linkVars, countVars, brokerVars
<1>2. AccountsKnown'
  BY <1>0 DEF AccountsKnown, Busy, LoadInv, Measured, setupVars
<1>3. ErrorsExplained'
  <2> SUFFICES ASSUME faults' = 0 PROVE ErrorsExplained'
    BY DEF ErrorsExplained
  <2>1. faults = 0 /\ ~ Fault
    BY DEF LoadInv, LoadTypes, Measured, Fault
  <2>2. pc' = "join" /\ bad' = FALSE /\ UNCHANGED <<made, link>>
    BY <2>1 DEF Measured, setupVars, linkVars
  <2> QED BY <1>0, <2>1, <2>2 DEF ErrorsExplained, LoadInv
<1>4. ToolSteps'
  BY <1>0 DEF ToolSteps, LoadInv, Measured
<1>5. RoundLinks'
  BY <1>0 DEF RoundLinks, LoadInv, Measured, linkVars
<1>6. RoundCounted'
  BY <1>0 DEF RoundCounted, LoadInv, Measured, countVars, brokerVars, endVars
<1>7. RoundKept'
  BY <1>0 DEF RoundKept, LoadInv, Measured, Fault, countVars, brokerVars
<1>8. StallExplained'
  BY <1>0 DEF StallExplained, LoadInv, Measured, Fault, endVars
<1>9. NoOverlap'
  BY <1>0 DEF NoOverlap, LoadInv, Measured
<1> QED BY <1>1, <1>2, <1>3, <1>4, <1>5, <1>6, <1>7, <1>8, <1>9 DEF LoadInv

\* The tasks of a measurement have ended before the next one.
LEMMA JoinStep ==
    ASSUME LoadInv, Join
    PROVE  LoadInv'
<1>0. Perf' = Perf /\ Accounts' = Accounts /\ Laps' = Laps
  BY SameTool DEF Join, NextLap
<1>1. LoadTypes'
  <2>1. lap \in 1 .. Laps /\ Laps \in Nat
    BY LapsType DEF LoadInv, LoadTypes, Join, Busy
  <2>2. /\ lap' \in Nat \ {0} /\ (Busy' => lap' \in 1 .. Laps') /\ pc' # "provision"
        /\ (Busy' \/ pc' \in {"provision", "cleanup", "done", "failed"})
    BY <1>0, <2>1 DEF Join, NextLap, Fails, Busy
  <2>3. link' \in [AllDevices -> {"none", "up", "broken", "err"}] /\ wire' \subseteq Copy
    BY DEF LoadInv, LoadTypes, Join, NextLap
  <2> QED
    BY <1>0, <2>2, <2>3, FS_EmptySet
    DEF LoadTypes, LoadInv, Join, NextLap, setupVars, loadVars
<1>2. AccountsKnown'
  BY <1>0 DEF AccountsKnown, Busy, LoadInv, Join, NextLap, Fails, setupVars
<1>3. ErrorsExplained'
  BY <1>0 DEF ErrorsExplained, LoadInv, Join, NextLap, Fails, setupVars, loadVars
<1>4. ToolSteps'
  BY <1>0 DEF ToolSteps, LoadInv, Join, NextLap, Fails
<1>5. RoundLinks'
  BY <1>0 DEF RoundLinks, ToolSteps, LoadInv, Join
<1>6. RoundCounted'
  BY <1>0 DEF RoundCounted, ToolSteps, LoadInv, Join
<1>7. RoundKept'
  BY <1>0 DEF RoundKept, LoadInv, Join, NextLap, Fails, loadVars
<1>8. StallExplained'
  BY <1>0 DEF StallExplained, LoadInv, Join, NextLap, Fails, endVars
<1>9. NoOverlap'
  BY <1>0 DEF NoOverlap, LoadInv, Join, NextLap, Fails, loadVars
<1> QED BY <1>1, <1>2, <1>3, <1>4, <1>5, <1>6, <1>7, <1>8, <1>9 DEF LoadInv

-----------------------------------------------------------------------------
(* The theorems. *)

\* The programs start in a state that satisfies the invariant.
LEMMA LoadInitially == Init => LoadInv
<1> SUFFICES ASSUME Init PROVE LoadInv
  OBVIOUS
<1>1. next \in [0 .. NumPubs - 1 -> Nat]
  BY PartsCover DEF Init
<1>2. LoadTypes
  BY <1>1, FS_EmptySet DEF Init, LoadTypes, Busy
<1>3. AccountsKnown /\ ErrorsExplained /\ ToolSteps
  BY DEF Init, AccountsKnown, ErrorsExplained, ToolSteps, Busy
<1>4. RoundLinks
  BY DEF Init, RoundLinks
<1>5. RoundCounted
  <2>1. count = Cardinality(got) + extra
    BY FS_EmptySet DEF Init
  <2> QED BY <2>1 DEF Init, RoundCounted
<1>6. RoundKept /\ StallExplained /\ NoOverlap
  BY DEF Init, RoundKept, StallExplained, NoOverlap
<1> QED BY <1>2, <1>3, <1>4, <1>5, <1>6 DEF LoadInv

\* A step in which nothing changes keeps the invariant.
LEMMA LoadStutter ==
    ASSUME LoadInv, UNCHANGED vars
    PROVE  LoadInv'
<1>0. UNCHANGED <<tool, pc, lap, made, has, undeleted, link, next, task, bad, count, got, extra,
                  wire, stored, stalled, late, faults>>
  BY DEF vars, setupVars, linkVars, loadVars, countVars, brokerVars, endVars
<1>1. /\ Perf' = Perf /\ Accounts' = Accounts /\ Laps' = Laps /\ Subscribers' = Subscribers
      /\ IdleLap' = IdleLap /\ RoundCopies' = RoundCopies
      /\ \A seq : UserCopies(seq)' = UserCopies(seq)
  BY <1>0, SameTool, SameRound
<1>2. LoadTypes' /\ AccountsKnown' /\ ErrorsExplained' /\ ToolSteps'
  BY <1>0, <1>1 DEF LoadInv, LoadTypes, AccountsKnown, ErrorsExplained, ToolSteps, Busy
<1>3. RoundLinks' /\ RoundCounted' /\ RoundKept'
  BY <1>0, <1>1 DEF LoadInv, RoundLinks, RoundCounted, RoundKept
<1>4. StallExplained' /\ NoOverlap'
  BY <1>0, <1>1 DEF LoadInv, StallExplained, NoOverlap
<1> QED BY <1>2, <1>3, <1>4 DEF LoadInv

\* The inductive invariant of the two load generators: what is known of accounts, links,
\* publishing tasks and copies, in every interleaving of their tasks and with any faults.
THEOREM LoadInvariant == Spec => []LoadInv
<1>1. Init => LoadInv
  BY LoadInitially
<1>2. LoadInv /\ [Next]_vars => LoadInv'
  <2> SUFFICES ASSUME LoadInv, [Next]_vars PROVE LoadInv'
    OBVIOUS
  <2>1. CASE UNCHANGED vars
    BY <2>1, LoadStutter
  <2>2. CASE \E u \in Accounts : Create(u)
    BY <2>2, CreateStep
  <2>3. CASE \E u \in Deleted : Delete(u)
    BY <2>3, DeleteStep
  <2>4. CASE AwaitCreated \/ AwaitConnected \/ AwaitDeleted
    BY <2>4, AwaitCreatedStep, AwaitConnectedStep, AwaitDeletedStep
  <2>5. CASE \E i \in AllDevices : TryConnect(i) \/ Subscribe(i) \/ SubscribeFails(i)
    BY <2>5, TryConnectStep, SubscribeStep, SubscribeFailsStep
  <2>6. CASE \E i \in AllDevices : LinkBreaks(i) \/ Tick(i) \/ Send(i)
    BY <2>6, LinkBreaksStep, TickStep, SendStep
  <2>7. CASE \E c \in wire : Receive(c)
    BY <2>7, ReceiveStep
  <2>8. CASE OpenPublishers \/ AwaitPublishers \/ Drained \/ Stall \/ Leave
    BY <2>8, OpenPublishersStep, AwaitPublishersStep, DrainedStep, StallStep, LeaveStep
  <2>9. CASE \E p \in DOMAIN next : Publish(p) \/ PublisherStops(p)
    BY <2>9, PublishStep, PublisherStopsStep
  <2>10. CASE Measured \/ Join
    BY <2>10, MeasuredStep, JoinStep
  <2> QED
    BY <2>1, <2>2, <2>3, <2>4, <2>5, <2>6, <2>7, <2>8, <2>9, <2>10 DEF Next
<1> QED BY <1>1, <1>2, PTL DEF Spec

\* A run that ends regularly leaves behind only accounts whose deletion failed, for any
\* list of rounds: the accounts were made for the largest of them.
THEOREM EndsClean == Spec => []CleanEnd
<1>1. LoadInv => CleanEnd
  BY DEF LoadInv, LoadTypes, AccountsKnown, CleanEnd
<1> QED BY <1>1, LoadInvariant, PTL

\* Without a fault neither program fails: every device of every round finds its account.
THEOREM FailuresExplained == Spec => []FailureExplained
<1>1. LoadInv => FailureExplained
  BY DEF LoadInv, LoadTypes, ErrorsExplained, FailureExplained
<1> QED BY <1>1, LoadInvariant, PTL

\* A round that is not given up, with no copy counted that is not its own, has delivered
\* every message to every device of its user.  The count alone shows it: got is part of the
\* copies of the round, which are at most as many as expected.
THEOREM RoundsComplete == Spec => []RoundComplete
<1>1. LoadInv => RoundComplete
  <2> SUFFICES ASSUME LoadInv, pc = "leave", ~ stalled, extra = 0 PROVE got = RoundCopies
    BY DEF RoundComplete, RoundCopies, UserCopies
  <2>1. Perf /\ lap \in 1 .. Laps /\ IsFiniteSet(got)
    BY DEF LoadInv, LoadTypes, Busy, ToolSteps
  <2>2. stalled # TRUE
    OBVIOUS
  <2>3. count >= Expected /\ count = Cardinality(got) + extra /\ got \subseteq RoundCopies
    BY <2>1, <2>2 DEF LoadInv, RoundCounted
  <2>4. IsFiniteSet(RoundCopies) /\ Cardinality(RoundCopies) <= Expected
    BY <2>1, CopiesCount
  <2>5. Cardinality(got) <= Cardinality(RoundCopies)
    BY <2>3, <2>4, FS_Subset
  <2>6. Cardinality(got) \in Nat /\ Cardinality(RoundCopies) \in Nat /\ Expected \in Nat
    BY <2>1, <2>4, FS_CardinalityType, LoadGenAssumption DEF Expected
  <2>7. Cardinality(RoundCopies) = Cardinality(got)
    BY <2>3, <2>4, <2>5, <2>6
  <2> QED BY <2>3, <2>4, <2>7, FS_Subset
<1> QED BY <1>1, LoadInvariant, PTL

\* A round is given up only when copies were late or lost, or when the expected number of
\* copies was impossible from the start.
THEOREM StallsExplained == Spec => []StallExplained
<1>1. LoadInv => StallExplained
  BY DEF LoadInv
<1> QED BY <1>1, LoadInvariant, PTL

\* No publishing task of a measurement runs into the next one.
THEOREM MeasurementsApart == Spec => []NoOverlap
<1>1. LoadInv => NoOverlap
  BY DEF LoadInv
<1> QED BY <1>1, LoadInvariant, PTL
=============================================================================
