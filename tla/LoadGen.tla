------------------------------ MODULE LoadGen ------------------------------
(***************************************************************************)
(* The load generators perf and perf-resources (src/src/bin).  Both create *)
(* accounts, connect devices that count what they receive, publish, and    *)
(* delete the accounts again.  perf measures one round per number of       *)
(* subscribers, with new connections and publishers of its own;            *)
(* perf-resources ramps the same connections up and measures each level    *)
(* three times: idle, and with every device publishing at QoS 1 and 2.     *)
(*                                                                         *)
(* The broker is an environment that hands every device the copies of a    *)
(* message, and on a new subscription what it stored for the client id.    *)
(* auto_subscribe is off, as in the shipped configurations.                *)
(* A step that fails because of it, or of the network, is a fault.         *)
(***************************************************************************)
EXTENDS Integers, Sequences, FiniteSets, FiniteSetsExt, Functions

CONSTANTS
    Tools,         \* which of the two programs are run
    SubCounts,     \* PERF_SUBS
    ResSubs,       \* PERF_RES_SUBS
    MessageCount,  \* PERF_MSGS
    Devices,       \* PERF_DEVICES_PER_USER
    Publishers,    \* PERF_PUBLISHERS
    MaxAttempts,   \* attempts to connect a device (8)
    MaxFaults      \* bound on faults

ASSUME LoadGenAssumption ==
    /\ Tools \subseteq {"perf", "resources"}
    /\ SubCounts \in Seq(Nat) /\ ResSubs \in Seq(Nat)
    /\ MessageCount \in Nat /\ Publishers \in Nat /\ MaxFaults \in Nat
    /\ Devices \in Nat \ {0} /\ MaxAttempts \in Nat \ {0}

VARIABLES
    tool, pc,
    lap,         \* the round, or the measurement, under way
    made,        \* [account] the task that creates, later deletes it
    has,         \* accounts on the broker
    link,        \* [device] its connection
    tries,       \* [device] failed attempts
    next,        \* [publisher] the next message of its part
    running,     \* the flag measure_scenario shares with its publishing tasks
    task,        \* [device] the publishing task
    bad,         \* a sample of docker stats failed
    count,       \* the counter delivered
    stalled,     \* the round was given up
    wire,        \* copies [lap, seq, dev] on their way to a connected device
    stored,      \* copies that the next subscription of a device loads
    faults,
    \* what follows only records history; no action reads it
    got,         \* copies of this lap's messages that were counted
    extra,       \* the number of other copies that were
    late,        \* copies were on their way when the round was given up
    undeleted    \* accounts whose deletion failed

setupVars == <<made, has, undeleted>>
linkVars == <<link, tries>>
loadVars == <<next, running, task, bad>>
countVars == <<count, got, extra>>
brokerVars == <<wire, stored>>
endVars == <<stalled, late>>
vars == <<tool, pc, lap, setupVars, linkVars, loadVars, countVars, brokerVars, endVars, faults>>

-----------------------------------------------------------------------------
(* Settings and the arithmetic of a round. *)

Perf == tool = "perf"

\* load_settings sorts the levels and drops duplicates
Levels ==
    LET S == Range(ResSubs)
    IN  CHOOSE s \in [1 .. Cardinality(S) -> S] :
           \A i, j \in 1 .. Cardinality(S) : i < j => s[i] < s[j]

\* mutant: rounds down
BugFloor(n) == n \div Devices

\* the users of n subscribers
UserCount(n) == (n + Devices - 1) \div Devices

MaxSubs == Max({0} \cup IF Perf THEN Range(SubCounts) ELSE Range(Levels))

Users == 0 .. UserCount(MaxSubs) - 1
PubUser == -1
Accounts == Users \cup (IF Perf THEN {PubUser} ELSE {})
AllDevices == 0 .. Max({0} \cup Range(SubCounts) \cup Range(ResSubs)) - 1
UserOf(i) == i \div Devices

\* perf-resources measures each level idle, at QoS 1 and at QoS 2
Laps == IF Perf THEN Len(SubCounts) ELSE 3 * Len(Levels)
Subscribers == IF Perf THEN SubCounts[lap] ELSE Levels[(lap - 1) \div 3 + 1]
IdleLap == ~ Perf /\ lap % 3 = 1

\* mutant: one copy of each message, however many devices a user has
BugOneDevice == MessageCount

Expected == MessageCount * Devices

NumPubs == Max({Publishers, 1})

\* mutant: the part of a publisher rounded down
BugPart == MessageCount \div NumPubs

Part == (MessageCount + NumPubs - 1) \div NumPubs
Begin(p) == p * Part
End(p) == Min({(p + 1) * Part, MessageCount})

\* the copies of message seq, published to the topic of user u
Copies(seq, u, devices) ==
    {[lap |-> lap, seq |-> seq, dev |-> i] : i \in {i \in devices : UserOf(i) = u}}

-----------------------------------------------------------------------------
Fault == faults < MaxFaults /\ faults' = faults + 1

Fails == pc' = "failed"

\* the broker has a publication: live copies for the connected devices of u, and
\* a stored one for every client id
Broadcast(seq, u) ==
    /\ wire' = wire \cup Copies(seq, u, {i \in AllDevices : link[i] = "up"})
    /\ stored' = stored \cup Copies(seq, u, AllDevices)

-----------------------------------------------------------------------------
(* Provisioning: perf creates the publisher's account first, then both       *)
(* create all the others at once.                                            *)

\* create_user in a task of its own; an account that is there already is fine
Create(u) ==
    /\ pc = "provision" /\ made[u] = "todo"
    /\ Perf /\ u # PubUser => made[PubUser] = "ok"
    /\ \/ /\ made' = [made EXCEPT ![u] = "ok"]
          /\ has' = has \cup {u}
          /\ UNCHANGED faults
       \/ /\ Fault
          /\ made' = [made EXCEPT ![u] = "err"]
          /\ has' \in {has, has \cup {u}}
    /\ UNCHANGED <<tool, pc, lap, undeleted, linkVars, loadVars, countVars, brokerVars, endVars>>

\* main awaits the tasks in order, and returns at the first error
AwaitCreated ==
    /\ pc = "provision"
    /\ \/ /\ \A u \in Accounts : made[u] = "ok"
          /\ pc' = IF Laps = 0 THEN "cleanup" ELSE "connect"
       \/ \E u \in Accounts :
             /\ made[u] = "err"
             /\ \A v \in Accounts : v < u => made[v] = "ok"
             /\ Fails
    /\ UNCHANGED <<tool, lap, setupVars, linkVars, loadVars, countVars, brokerVars, endVars, faults>>

-----------------------------------------------------------------------------
(* Connecting: one task per device, up to MaxAttempts attempts.              *)

Connected == {"up", "broken"}

Connecting(i) == pc = "connect" /\ i < Subscribers /\ link[i] = "none"

\* an attempt fails: the account is not there, or a fault; the last one gives up
TryConnect(i) ==
    /\ Connecting(i)
    /\ IF UserOf(i) \in has THEN Fault ELSE UNCHANGED faults
    /\ tries' = [tries EXCEPT ![i] = @ + 1]
    /\ link' = [link EXCEPT ![i] = IF tries[i] + 1 = MaxAttempts THEN "err" ELSE @]
    /\ UNCHANGED <<tool, pc, lap, setupVars, loadVars, countVars, brokerVars, endVars>>

\* finish_subscriber: copies that arrive before the SUBACK are not counted
Subscribe(i) ==
    /\ Connecting(i) /\ UserOf(i) \in has
    /\ link' = [link EXCEPT ![i] = "up"]
    /\ LET mine == {c \in stored : c.dev = i}
       IN  /\ \E S \in SUBSET mine : wire' = wire \cup S
           /\ stored' = stored \ mine
    /\ UNCHANGED <<tool, pc, lap, setupVars, tries, loadVars, countVars, endVars, faults>>

\* a subscription that fails is not tried again
SubscribeFails(i) ==
    /\ Connecting(i) /\ UserOf(i) \in has
    /\ Fault
    /\ link' = [link EXCEPT ![i] = "err"]
    /\ UNCHANGED <<tool, pc, lap, setupVars, tries, loadVars, countVars, brokerVars, endVars>>

\* the handles are awaited in order; then perf connects its publishers, one by one,
\* and perf-resources starts the publishing tasks of the measurement
AwaitConnected ==
    /\ pc = "connect"
    /\ \/ /\ \A i \in AllDevices : i < Subscribers => link[i] \in Connected
          /\ IF Perf
             THEN pc' = "open" /\ UNCHANGED <<running, task>>
             ELSE /\ pc' = "measure"
                  /\ running' = TRUE
                  /\ task' = [i \in AllDevices |->
                                 IF ~ IdleLap /\ i < Subscribers THEN "wait" ELSE "none"]
       \/ /\ \E i \in AllDevices :
                /\ link[i] = "err"
                /\ \A j \in AllDevices : j < i => link[j] \in Connected
          /\ Fails
          /\ UNCHANGED <<running, task>>
    /\ UNCHANGED <<tool, lap, setupVars, linkVars, next, bad, countVars, brokerVars, endVars, faults>>

OpenPublishers ==
    /\ pc = "open"
    /\ \/ PubUser \in has /\ pc' = "publish" /\ UNCHANGED faults
       \/ Fault /\ Fails
    /\ next' = [p \in 0 .. NumPubs - 1 |-> Begin(p)]
    /\ UNCHANGED <<tool, lap, setupVars, linkVars, running, task, bad, countVars, brokerVars, endVars>>

-----------------------------------------------------------------------------
(* Receiving: a task per device. *)

\* every PUBLISH is counted; QoS 1 may deliver a copy twice
Receive(c) ==
    /\ c \in wire /\ link[c.dev] = "up" /\ pc \notin {"done", "failed"}
    /\ count' = count + 1
    /\ IF c.lap = lap /\ c \notin got
       THEN got' = got \cup {c} /\ UNCHANGED extra
       ELSE extra' = extra + 1 /\ UNCHANGED got
    /\ \/ wire' = wire \ {c} /\ UNCHANGED faults
       \/ Fault /\ UNCHANGED wire
    /\ UNCHANGED <<tool, pc, lap, setupVars, linkVars, loadVars, stored, endVars>>

\* the receiving loop ends at the first error, and is not started again
LinkBreaks(i) ==
    /\ link[i] = "up" /\ pc \notin {"done", "failed"}
    /\ Fault
    /\ link' = [link EXCEPT ![i] = "broken"]
    /\ wire' = {c \in wire : c.dev # i}
    /\ UNCHANGED <<tool, pc, lap, setupVars, tries, loadVars, countVars, stored, endVars>>

-----------------------------------------------------------------------------
(* A round of perf. *)

\* a publisher hands the next message of its part to its client, which may still
\* lose it
Publish(p) ==
    /\ pc = "publish" /\ next[p] < End(p) /\ Subscribers > 0
    /\ next' = [next EXCEPT ![p] = @ + 1]
    /\ \/ Broadcast(next[p], next[p] % UserCount(Subscribers)) /\ UNCHANGED faults
       \/ Fault /\ UNCHANGED brokerVars
    /\ UNCHANGED <<tool, pc, lap, setupVars, linkVars, running, task, bad, countVars, endVars>>

\* it stops at an error of its client; without users the task panics (% 0)
PublisherStops(p) ==
    /\ pc = "publish" /\ next[p] < End(p)
    /\ IF Subscribers = 0 THEN UNCHANGED faults ELSE Fault
    /\ next' = [next EXCEPT ![p] = End(p)]
    /\ UNCHANGED <<tool, pc, lap, setupVars, linkVars, running, task, bad, countVars, brokerVars, endVars>>

AwaitPublishers ==
    /\ pc = "publish"
    /\ \A p \in DOMAIN next : next[p] >= End(p)
    /\ pc' = "drain"
    /\ UNCHANGED <<tool, lap, setupVars, linkVars, loadVars, countVars, brokerVars, endVars, faults>>

\* the loop sees the expected number
Drained ==
    /\ pc = "drain" /\ count >= Expected
    /\ pc' = "leave"
    /\ stalled' = FALSE /\ late' = FALSE
    /\ UNCHANGED <<tool, lap, setupVars, linkVars, loadVars, countVars, brokerVars, faults>>

\* mutant: only a round in which nothing arrived is given up
BugStall ==
    /\ pc = "drain" /\ count = 0 /\ count < Expected
    /\ pc' = "leave"
    /\ stalled' = TRUE /\ late' = (wire # {})
    /\ UNCHANGED <<tool, lap, setupVars, linkVars, loadVars, countVars, brokerVars, faults>>

\* fifteen seconds without progress, or the deadline
Stall ==
    /\ pc = "drain" /\ count < Expected
    /\ pc' = "leave"
    /\ stalled' = TRUE /\ late' = (wire # {})
    /\ UNCHANGED <<tool, lap, setupVars, linkVars, loadVars, countVars, brokerVars, faults>>

\* everyone disconnects, the result is recorded, the next round starts
Leave ==
    /\ pc = "leave"
    /\ pc' = IF lap = Laps THEN "cleanup" ELSE "connect"
    /\ lap' = IF lap = Laps THEN lap ELSE lap + 1
    /\ link' = [i \in AllDevices |-> "none"]
    /\ tries' = [i \in AllDevices |-> 0]
    /\ wire' = {} /\ count' = 0 /\ got' = {} /\ extra' = 0
    /\ UNCHANGED <<tool, setupVars, loadVars, stored, endVars, faults>>

-----------------------------------------------------------------------------
(* A measurement of perf-resources. *)

\* the loop of a publishing task, after its timer; bound: it publishes once
Tick(i) ==
    /\ task[i] \in (IF running THEN {"wait"} ELSE {"wait", "rest"})
    /\ task' = [task EXCEPT ![i] = IF running THEN "send" ELSE "ended"]
    /\ UNCHANGED <<tool, pc, lap, setupVars, linkVars, next, running, bad, countVars, brokerVars, endVars, faults>>

Send(i) ==
    /\ task[i] = "send"
    /\ IF link[i] = "up"
       THEN Broadcast(i, UserOf(i)) /\ task' = [task EXCEPT ![i] = "rest"]
       ELSE task' = [task EXCEPT ![i] = "ended"] /\ UNCHANGED brokerVars
    /\ UNCHANGED <<tool, pc, lap, setupVars, linkVars, next, running, bad, countVars, endVars, faults>>

\* measure_level returns, with its result or the error of a sample; either way
\* the tasks are told to stop
Measured ==
    /\ pc = "measure"
    /\ pc' = "join"
    /\ running' = FALSE
    /\ \/ bad' = FALSE /\ UNCHANGED faults
       \/ bad' = TRUE /\ Fault
    /\ UNCHANGED <<tool, lap, setupVars, linkVars, next, task, countVars, brokerVars, endVars>>

\* what follows the end of the tasks
NextLap ==
    /\ IF bad THEN Fails ELSE pc' = IF lap = Laps THEN "cleanup" ELSE "connect"
    /\ lap' = IF lap = Laps \/ bad THEN lap ELSE lap + 1
    /\ got' = {} /\ extra' = 0
    /\ IF lap = Laps
       THEN link' = [i \in AllDevices |-> "none"] /\ wire' = {}
       ELSE UNCHANGED <<link, wire>>
    /\ UNCHANGED <<tool, setupVars, tries, loadVars, count, stored, endVars, faults>>

\* mutant: the tasks are not awaited
BugNoJoin == pc = "join" /\ NextLap

Join ==
    /\ pc = "join"
    /\ \A i \in AllDevices : task[i] \in {"none", "ended"}
    /\ NextLap

-----------------------------------------------------------------------------
(* Cleaning up. *)

\* mutant: the accounts of the last round
BugLastRound == (0 .. UserCount(Subscribers) - 1) \cup (Accounts \ Users)

Deleted == Accounts

\* delete_user ignores the answer
Delete(u) ==
    /\ pc = "cleanup" /\ made[u] = "ok"
    /\ Perf /\ u # PubUser => made[PubUser] = "gone"
    /\ made' = [made EXCEPT ![u] = "gone"]
    /\ \/ has' = has \ {u} /\ UNCHANGED <<undeleted, faults>>
       \/ Fault /\ undeleted' = undeleted \cup {u} /\ UNCHANGED has
    /\ UNCHANGED <<tool, pc, lap, linkVars, loadVars, countVars, brokerVars, endVars>>

AwaitDeleted ==
    /\ pc = "cleanup"
    /\ \A u \in Deleted : made[u] = "gone"
    /\ pc' = "done"
    /\ UNCHANGED <<tool, lap, setupVars, linkVars, loadVars, countVars, brokerVars, endVars, faults>>

-----------------------------------------------------------------------------
Init ==
    /\ tool \in Tools
    /\ pc = "provision" /\ lap = 1
    /\ made = [u \in Accounts |-> "todo"]
    /\ has = {} /\ undeleted = {}
    /\ link = [i \in AllDevices |-> "none"]
    /\ tries = [i \in AllDevices |-> 0]
    /\ next = [p \in 0 .. NumPubs - 1 |-> Begin(p)]
    /\ running = FALSE /\ bad = FALSE
    /\ task = [i \in AllDevices |-> "none"]
    /\ count = 0 /\ got = {} /\ extra = 0
    /\ stalled = FALSE /\ late = FALSE
    /\ wire = {} /\ stored = {}
    /\ faults = 0

Next ==
    \/ \E u \in Accounts : Create(u)
    \/ \E u \in Deleted : Delete(u)
    \/ AwaitCreated \/ AwaitConnected \/ AwaitDeleted
    \/ \E i \in AllDevices : TryConnect(i) \/ Subscribe(i) \/ SubscribeFails(i)
    \/ \E i \in AllDevices : LinkBreaks(i) \/ Tick(i) \/ Send(i)
    \/ \E c \in wire : Receive(c)
    \/ OpenPublishers \/ AwaitPublishers \/ Drained \/ Stall \/ Leave
    \/ \E p \in DOMAIN next : Publish(p) \/ PublisherStops(p)
    \/ Measured \/ Join

\* some task can always run, requests are answered or fail, timers expire
Spec == Init /\ [][Next]_vars /\ WF_vars(Next)

-----------------------------------------------------------------------------
(* Properties. *)

\* A run that ends regularly leaves no account behind, except where a deletion
\* failed: accounts are created for the largest number of subscribers of any round.
CleanEnd == pc = "done" => has \subseteq undeleted

\* Without a fault the program does not fail: every device of every round or level
\* finds the account it logs in with.
FailureExplained == pc = "failed" => faults > 0

\* A round that is not given up, and in which nothing but copies of its own messages
\* was counted, has delivered every message to every device of its user.  Counted
\* again were copies stored in an earlier round, as the client ids are the same.
RoundComplete ==
    pc = "leave" /\ ~ stalled /\ extra = 0 =>
        got = UNION {Copies(seq, seq % UserCount(Subscribers), 0 .. Subscribers - 1) :
                        seq \in 0 .. MessageCount - 1}

\* A round is only given up when copies were lost or late, or when the expected
\* number was never possible: no subscribers, or a last user with fewer devices.
StallExplained ==
    pc = "leave" /\ stalled =>
        late \/ faults > 0 \/ Subscribers = 0 \/ Subscribers % Devices # 0

\* The publishing tasks of a measurement never run into the next one.
NoOverlap ==
    IdleLap \/ pc \notin {"measure", "join"} =>
        \A i \in AllDevices : task[i] \in {"none", "ended"}

\* The program ends.
Ends == <>(pc \in {"done", "failed"})
=============================================================================
