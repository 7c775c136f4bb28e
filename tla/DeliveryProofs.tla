--------------------------- MODULE DeliveryProofs ---------------------------
(***************************************************************************)
(* What TLAPS proves of Delivery for every set of nodes, clients, records, *)
(* topics, filters and messages and every configuration.                   *)
(*                                                                         *)
(* A safety argument follows a subscription from the rules that granted it *)
(* through every place it can be kept in: the session, the handshake that  *)
(* carries it over, the queue and the work of the next session, the log of *)
(* the routes, a load and the requests to the peers (GrantedOk).           *)
(***************************************************************************)
EXTENDS Delivery, AclProofs, TLAPS

Item == [kind : {"carry", "auto"}, filters : SUBSET Filters]
Work == [kind : {"none", "carry", "auto", "ask"}, rest : SUBSET Filters]
Hello == [id : 0 .. MaxConnects, node : Nodes \cup {None}, clean : BOOLEAN,
          carry : (SUBSET Filters) \cup {None}, rec : Records \cup {None}, auth : Auths]
Get == [c : Clients, f : Filters, node : Nodes, live : BOOLEAN]
Entry == [op : {"add", "remove"}, c : Clients, f : Filters,
          id : 1 .. MaxConnects, node : Nodes]
Publication == [pc : {"none", "store", "done"}, topic : Topics \cup {None},
                node : Nodes \cup {None}]

ConfigType ==
    /\ conf \in Scenarios
    /\ account \in [Clients -> Records \cup {None}]
    /\ {asks, changes, faults} \subseteq Nat

LinkType ==
    /\ stage \in [Clients -> {"down", "authed", "kicked", "set", "up"}]
    /\ hello \in [Clients -> Hello]
    /\ sess \in [Clients -> Session \cup {None}]
    /\ inbox \in [Clients -> Seq(Item)]
    /\ work \in [Clients -> Work]

LoadType ==
    /\ load \in [Clients -> Load \cup {None}]
    /\ gets \subseteq Get

RouteType ==
    /\ rlog \in Seq(Entry)
    /\ applied \in [Nodes -> Nat]
    /\ removing \subseteq {e \in Entry : e.op = "remove"}

MessageType ==
    /\ msg \in [Messages -> Publication]
    /\ \A m \in Messages : msg[m].pc # "none" => msg[m].topic \in Topics /\ msg[m].node \in Nodes
    /\ marks \subseteq Clients \X Messages
    /\ wire \subseteq Messages \X Clients \X Nodes

HistoryType ==
    /\ sent \in [Clients -> SUBSET Messages]
    /\ logins \in [Clients -> SUBSET Records]
    /\ wanted \in [Clients -> SUBSET Filters]
    /\ since \in [Clients -> [Filters -> Nat]]
    /\ refused \in [Clients -> SUBSET Filters]
    /\ steady \in [Clients -> BOOLEAN]
    /\ passed \in [Clients -> SUBSET (Filters \X Nodes)]

\* Every variable stays in its type.
TypeOK == ConfigType /\ LinkType /\ LoadType /\ RouteType /\ MessageType /\ HistoryType

\* the handshake carries the outcome of the login
HelloAuth(h) == IF conf.auth THEN AuthInfo(h.rec) ELSE OpenAuth

\* What the stage of a connection says of its session, queue and work.
StageOf(c) ==
    /\ stage[c] \in {"authed", "kicked", "set"} =>
          /\ hello[c].id > 0 /\ hello[c].node \in Nodes
          /\ hello[c].auth = HelloAuth(hello[c])
          /\ conf.auth => hello[c].rec \in logins[c]
    /\ stage[c] = "kicked" => sess[c] = None
    /\ stage[c] \in {"set", "up"} => sess[c] # None /\ sess[c].id = hello[c].id
    /\ stage[c] = "set" => sess[c].auth = hello[c].auth /\ sess[c].node = hello[c].node
    /\ stage[c] # "up" => work[c] = NoWork /\ load[c] = None
    /\ stage[c] \in {"down", "authed", "kicked"} => inbox[c] = <<>>
    /\ stage[c] = "set" => \A i \in 1 .. Len(inbox[c]) : inbox[c][i].kind = "carry"
    /\ sess[c] # None /\ conf.auth => \E rec \in logins[c] : sess[c].auth = AuthInfo(rec)

StageOk == \A c \in Clients : StageOf(c)

\* A peer that is asked and still awaited belongs to the load under way; a load that
\* has not read the node's own store has nothing yet.
LoadOk ==
    /\ \A g \in gets : g.live =>
          /\ load[g.c] # None /\ load[g.c].f = g.f
          /\ load[g.c].wait # None /\ g.node \in load[g.c].wait
    /\ \A c \in Clients : load[c] # None /\ load[c].wait = None => load[c].got = {}

-----------------------------------------------------------------------------
(* DeliveredAuthorised. *)

\* some account c was admitted with may subscribe to f
Granted(c, f) == \E rec \in logins[c] : MaySubscribe(AuthInfo(rec), TRUE, f)

\* m was published, to a topic of an account c was admitted with
Entitled(c, m) == msg[m].pc # "none" /\ \E rec \in logins[c] : Belongs(msg[m].topic, rec)

\* Every subscription was granted once, wherever it is kept.
GrantedOf(c) ==
    /\ sess[c] # None => \A f \in sess[c].subs : Granted(c, f)
    /\ hello[c].carry # None => \A f \in hello[c].carry : Granted(c, f)
    /\ \A i \in 1 .. Len(inbox[c]) :
          inbox[c][i].kind = "carry" => \A f \in inbox[c][i].filters : Granted(c, f)
    /\ work[c].kind = "carry" => \A f \in work[c].rest : Granted(c, f)
    /\ load[c] # None => Granted(c, load[c].f)

GrantedOk == \A c \in Clients : GrantedOf(c)

\* The same of what the other nodes know of it.
RoutesOk ==
    /\ \A i \in 1 .. Len(rlog) : rlog[i].op = "add" => Granted(rlog[i].c, rlog[i].f)
    /\ \A g \in gets : Granted(g.c, g.f)

\* Every message handed over, loaded or on its way is one the device is entitled to.
EntitledOk ==
    /\ \A c \in Clients : \A m \in sent[c] : Entitled(c, m)
    /\ \A c \in Clients : load[c] # None => \A m \in load[c].got : Entitled(c, m)
    /\ \A w \in wire : Entitled(w[2], w[1])

AuthorisedOk == conf.auth /\ conf.acl => GrantedOk /\ RoutesOk /\ EntitledOk

-----------------------------------------------------------------------------
(* AutoGranted. *)

\* The filters of an automatic subscription that read the login's record are granted.
AutoOf(c) == steady[c] =>
    /\ refused[c] = {}
    /\ work[c].kind = "auto" => \A f \in work[c].rest : MaySubscribe(sess[c].auth, conf.acl, f)
    /\ \A i \in 1 .. Len(inbox[c]) : inbox[c][i].kind = "auto" =>
          \A f \in inbox[c][i].filters : MaySubscribe(sess[c].auth, conf.acl, f)

AutoOk == \A c \in Clients : AutoOf(c)

-----------------------------------------------------------------------------
(* SubscribedIsRouted. *)

\* within k entries of the log, entry i is the route of c to f
RoutedAt(k, c, f, i) ==
    /\ rlog[i].op = "add" /\ rlog[i].c = c /\ rlog[i].f = f
    /\ rlog[i].id = sess[c].id /\ rlog[i].node = sess[c].node
    /\ \A j \in i + 1 .. k :
          rlog[j].c = c /\ rlog[j].f = f => rlog[j].op = "remove" /\ rlog[j].id # sess[c].id

\* A subscription is routed for everyone who has its entry of the log, up to a Remove of its
\* own session.
RoutedTo(c, f) ==
    /\ since[c][f] \in 1 .. Len(rlog)
    /\ \A k \in since[c][f] .. Len(rlog) :
          Overtaken(k, c, f) \/ \E i \in 1 .. k : RoutedAt(k, c, f, i)

RoutedOf(c) == sess[c] # None => \A f \in sess[c].subs : RoutedTo(c, f)

RoutedOk == \A c \in Clients : RoutedOf(c)

-----------------------------------------------------------------------------
(* NoGap. *)

\* a subscription that the session still has to take over
Pending(c, f) ==
    \/ stage[c] = "kicked" /\ hello[c].carry # None /\ f \in hello[c].carry
    \/ \E i \in 1 .. Len(inbox[c]) : inbox[c][i].kind = "carry" /\ f \in inbox[c][i].filters
    \/ work[c].kind = "carry" /\ f \in work[c].rest

\* the load of f has still to ask n, or waits for its answer
Asking(c, f, n) ==
    load[c] # None /\ load[c].f = f /\ (load[c].wait = None \/ n \in load[c].wait)

\* the load of subscription f has just begun
Started(c, f) ==
    /\ sess[c] # None /\ f \in sess[c].subs
    /\ load[c] # None /\ load[c].f = f /\ load[c].wait = None

\* A filter that is wanted and not to be taken over is a subscription of the session.
WantedOk ==
    \A c \in Clients : \A f \in wanted[c] :
        (sess[c] # None /\ f \in sess[c].subs) \/ Pending(c, f)

\* The load of a subscription is done with every node, or is still under way there.
LoadedOk ==
    \A c \in Clients : sess[c] # None =>
        \A f \in sess[c].subs, n \in Nodes : <<f, n>> \in passed[c] \/ Asking(c, f, n)

\* What was stored before a load was done with its node is marked, or its load failed.
PassedOk ==
    \A c \in Clients : \A p \in passed[c], m \in Messages :
        msg[m].pc = "done" /\ msg[m].node = p[2] /\ StoreMatches(msg[m].topic, p[1]) =>
            <<c, m>> \in marks \/ \E why \in {"unstored", "failed"} : Missed(c, m, why)

\* A published message was forwarded to each client, or why it was not is recorded.
ForwardedOk ==
    \A c \in Clients, m \in Messages : msg[m].pc # "none" =>
        \/ m \in sent[c]
        \/ \E n \in Nodes : <<m, c, n>> \in wire
        \/ \E why \in {"unrouted", "overtaken", "moved", "lost"} : Missed(c, m, why)

\* The inductive invariant.
DeliveryInv ==
    /\ TypeOK /\ StageOk /\ LoadOk
    /\ AuthorisedOk /\ AutoOk /\ RoutedOk
    /\ MarkedIsSent /\ WantedOk /\ LoadedOk /\ PassedOk /\ ForwardedOk

-----------------------------------------------------------------------------
(* The proofs. *)

\* None is no value that a variable takes otherwise.
LEMMA NoneFacts ==
    /\ None \notin Records /\ None \notin SUBSET Nodes /\ None \notin SUBSET Filters
    /\ None \notin Session /\ None \notin Load
<1>1. \A v \in Records : v # None
  BY DeliveryAssumption
<1>2. \A v \in SUBSET Nodes : v # None
  BY DeliveryAssumption, Zenon
<1>3. \A v \in SUBSET Filters : v # None
  BY DeliveryAssumption, Zenon
<1>4. \A v \in Session : v # None
  BY DeliveryAssumption, Zenon
<1>5. \A v \in Load : v # None
  BY DeliveryAssumption, Zenon
<1>6. QED  BY <1>1, <1>2, <1>3, <1>4, <1>5, Zenon

\* The requested and the automatic filters are filters, and these are valid.
LEMMA FilterFacts ==
    /\ Requests \subseteq Filters
    /\ \A rec \in Records : AutoFilters(rec) \subseteq Filters
    /\ \A f \in Filters : ValidFilter(f)
<1>1. Requests \subseteq Filters
  BY DEF Filters
<1>2. ASSUME NEW rec \in Records PROVE AutoFilters(rec) \subseteq Filters
  BY Zenon DEF Filters
<1>3. QED  BY <1>1, <1>2, DeliveryAssumption

\* What the login hook answers is a possible answer.
LEMMA AuthFacts ==
    /\ OpenAuth \in Auths
    /\ \A rec \in Records : rec \in Account /\ AuthInfo(rec) \in Auths
BY DeliveryAssumption DEF Auths

\* A step is one of the actions; a device publishes on the node of its session.
LEMMA StepCases ==
    ASSUME TypeOK, StageOk, [Next]_vars
    PROVE  \/ \E c \in Clients, rec \in Records : CreateAccount(c, rec)
           \/ \E c \in Clients : DeleteAccount(c)
           \/ \E c \in Clients, n \in Nodes, clean \in BOOLEAN : Authenticate(c, n, clean)
           \/ \E c \in Clients : Kick(c)
           \/ \E c \in Clients : SetSession(c)
           \/ \E c \in Clients : AutoSubscribe(c)
           \/ \E c \in Clients : Disconnect(c)
           \/ \E c \in Clients : TakeMessage(c)
           \/ \E c \in Clients, f \in Requests : Ask(c, f)
           \/ \E c \in Clients, f \in Filters : Unsubscribe(c, f)
           \/ \E c \in Clients, f \in Filters : StartFilter(c, f)
           \/ \E c \in Clients : LoadLocal(c)
           \/ \E c \in Clients : LoadEnd(c)
           \/ \E g \in gets : PeerGet(g)
           \/ \E g \in gets : Timeout(g)
           \/ \E m \in Messages, t \in Topics, n \in Nodes : Forwards(m, t, n)
           \/ \E m \in Messages : Store(m)
           \/ \E e \in removing : Propose(e)
           \/ \E w \in wire : Arrive(w)
           \/ \E w \in wire : LoseForward(w)
           \/ UNCHANGED vars
<1>1. ASSUME NEW c \in Clients, NEW m \in Messages, NEW t \in Topics, DevicePublish(c, m, t)
      PROVE  \E n \in Nodes : Forwards(m, t, n)
  BY <1>1 DEF DevicePublish, Idle, StageOk, StageOf, TypeOK, LinkType, Session
<1>2. QED  BY <1>1, Zenon DEF Next, ClientNext, Publish

\* Every step keeps ConfigType.
LEMMA ConfigTypeKept == ASSUME TypeOK, StageOk, LoadOk, [Next]_vars PROVE ConfigType'
<1>1. ASSUME NEW c \in Clients, NEW rec \in Records, CreateAccount(c, rec) PROVE ConfigType'
  BY <1>1 DEF CreateAccount, TypeOK, ConfigType
<1>2. ASSUME NEW c \in Clients, DeleteAccount(c) PROVE ConfigType'
  BY <1>2 DEF DeleteAccount, TypeOK, ConfigType
<1>3. ASSUME NEW c \in Clients, NEW n \in Nodes, NEW clean \in BOOLEAN,
             Authenticate(c, n, clean)
      PROVE  ConfigType'
  BY <1>3 DEF Authenticate, ConfigType, TypeOK
<1>4. ASSUME NEW c \in Clients, Kick(c) PROVE ConfigType'
  BY <1>4 DEF Kick, ConfigType, TypeOK
<1>5. ASSUME NEW c \in Clients, SetSession(c) PROVE ConfigType'
  BY <1>5 DEF SetSession, ConfigType, TypeOK
<1>6. ASSUME NEW c \in Clients, AutoSubscribe(c) PROVE ConfigType'
  BY <1>6 DEF AutoSubscribe, ConfigType, TypeOK
<1>7. ASSUME NEW c \in Clients, Disconnect(c) PROVE ConfigType'
  BY <1>7 DEF Disconnect, ConfigType, TypeOK
<1>8. ASSUME NEW c \in Clients, TakeMessage(c) PROVE ConfigType'
  BY <1>8 DEF TakeMessage, ConfigType, TypeOK
<1>9. ASSUME NEW c \in Clients, NEW f \in Requests, Ask(c, f) PROVE ConfigType'
  BY <1>9 DEF Ask, TypeOK, ConfigType
<1>10. ASSUME NEW c \in Clients, NEW f \in Filters, Unsubscribe(c, f) PROVE ConfigType'
  BY <1>10 DEF Unsubscribe, ConfigType, TypeOK
<1>11. ASSUME NEW c \in Clients, NEW f \in Filters, StartFilter(c, f) PROVE ConfigType'
  BY <1>11 DEF StartFilter, ConfigType, TypeOK
<1>12. ASSUME NEW c \in Clients, LoadLocal(c) PROVE ConfigType'
  BY <1>12 DEF LoadLocal, ConfigType, TypeOK
<1>13. ASSUME NEW c \in Clients, LoadEnd(c) PROVE ConfigType'
  BY <1>13 DEF LoadEnd, ConfigType, TypeOK
<1>14. ASSUME NEW g \in gets, PeerGet(g) PROVE ConfigType'
  BY <1>14 DEF PeerGet, ConfigType, TypeOK
<1>15. ASSUME NEW g \in gets, Timeout(g) PROVE ConfigType'
  BY <1>15 DEF Timeout, TypeOK, ConfigType
<1>16. ASSUME NEW m \in Messages, NEW t \in Topics, NEW n \in Nodes, Forwards(m, t, n)
      PROVE  ConfigType'
  BY <1>16 DEF Forwards, ConfigType, TypeOK
<1>17. ASSUME NEW m \in Messages, Store(m) PROVE ConfigType'
  BY <1>17 DEF Store, ConfigType, TypeOK
<1>18. ASSUME NEW e \in removing, Propose(e) PROVE ConfigType'
  BY <1>18 DEF Propose, ConfigType, TypeOK
<1>19. ASSUME NEW w \in wire, Arrive(w) PROVE ConfigType'
  BY <1>19 DEF Arrive, ConfigType, TypeOK
<1>20. ASSUME NEW w \in wire, LoseForward(w) PROVE ConfigType'
  BY <1>20 DEF LoseForward, TypeOK, ConfigType
<1>21. ASSUME UNCHANGED vars PROVE ConfigType'
  BY <1>21 DEF vars, ConfigType, TypeOK
<1>22. QED
  BY <1>1, <1>2, <1>3, <1>4, <1>5, <1>6, <1>7, <1>8, <1>9, <1>10, <1>11, <1>12, <1>13, <1>14,
     <1>15, <1>16, <1>17, <1>18, <1>19, <1>20, <1>21, StepCases

\* Every step keeps LinkType.
LEMMA LinkTypeKept == ASSUME TypeOK, StageOk, LoadOk, [Next]_vars PROVE LinkType'
<1>1. ASSUME NEW c \in Clients, NEW rec \in Records, CreateAccount(c, rec) PROVE LinkType'
  BY <1>1 DEF CreateAccount, linkVars, LinkType, TypeOK
<1>2. ASSUME NEW c \in Clients, DeleteAccount(c) PROVE LinkType'
  BY <1>2 DEF DeleteAccount, linkVars, LinkType, TypeOK
<1>3. ASSUME NEW c \in Clients, NEW n \in Nodes, NEW clean \in BOOLEAN,
             Authenticate(c, n, clean)
      PROVE  LinkType'
  <2>1. hello' \in [Clients -> Hello]
    BY <1>3, NoneFacts, AuthFacts, DeliveryAssumption
    DEF Authenticate, TypeOK, ConfigType, LinkType, Hello
  <2>2. QED  BY <1>3, <2>1 DEF Authenticate, TypeOK, LinkType
<1>4. ASSUME NEW c \in Clients, Kick(c) PROVE LinkType'
  <2>1. hello' \in [Clients -> Hello]
    <3>. DEFINE subs == IF sess[c] = None \/ hello[c].clean THEN None ELSE sess[c].subs
    <3>1. subs \in (SUBSET Filters) \cup {None}
      BY DEF TypeOK, LinkType, Session
    <3>2. [hello[c] EXCEPT !.carry = subs] \in Hello
      BY <3>1 DEF TypeOK, LinkType, Hello
    <3>3. hello' = [hello EXCEPT ![c] = [hello[c] EXCEPT !.carry = subs]]
      BY <1>4 DEF Kick
    <3>4. QED  BY <3>2, <3>3 DEF TypeOK, LinkType
  <2>2. QED  BY <1>4, <2>1 DEF Kick, TypeOK, LinkType
<1>5. ASSUME NEW c \in Clients, SetSession(c) PROVE LinkType'
  <2>1. sess' \in [Clients -> Session \cup {None}]
    BY <1>5, DeliveryAssumption
    DEF SetSession, TypeOK, LinkType, StageOk, StageOf, Hello, Session
  <2>2. inbox' \in [Clients -> Seq(Item)]
    <3>1. CASE hello[c].carry = None
      BY <1>5, <3>1 DEF SetSession, TypeOK, LinkType
    <3>2. CASE hello[c].carry # None
      <4>1. hello[c].carry \in SUBSET Filters
        BY <3>2 DEF TypeOK, LinkType, Hello
      <4>2. [kind |-> "carry", filters |-> hello[c].carry] \in Item
        BY <4>1 DEF Item
      <4>3. <<[kind |-> "carry", filters |-> hello[c].carry]>> \in Seq(Item)
        BY <4>2
      <4>4. QED  BY <1>5, <3>2, <4>3 DEF SetSession, TypeOK, LinkType
    <3>3. QED  BY <3>1, <3>2
  <2>3. QED  BY <1>5, <2>1, <2>2 DEF SetSession, TypeOK, LinkType
<1>6. ASSUME NEW c \in Clients, AutoSubscribe(c) PROVE LinkType'
  <2>1. hello' \in [Clients -> Hello]
    BY <1>6, AuthFacts DEF AutoSubscribe, NoHello, TypeOK, LinkType, Hello
  <2>2. inbox' \in [Clients -> Seq(Item)]
    <3>1. CASE conf.auto /\ account[c] # None
      <4>1. [kind |-> "auto", filters |-> AutoFilters(account[c])] \in Item
        BY <3>1, FilterFacts DEF Item, TypeOK, ConfigType
      <4>2. Append(inbox[c], [kind |-> "auto", filters |-> AutoFilters(account[c])]) \in Seq(Item)
        BY <4>1 DEF TypeOK, LinkType
      <4>3. QED  BY <1>6, <3>1, <4>2 DEF AutoSubscribe, TypeOK, LinkType
    <3>2. CASE ~ (conf.auto /\ account[c] # None)
      BY <1>6, <3>2 DEF AutoSubscribe, TypeOK, LinkType
    <3>3. QED  BY <3>1, <3>2
  <2>3. QED  BY <1>6, <2>1, <2>2 DEF AutoSubscribe, TypeOK, LinkType
<1>7. ASSUME NEW c \in Clients, Disconnect(c) PROVE LinkType'
  BY <1>7 DEF Disconnect, TypeOK, LinkType
<1>8. ASSUME NEW c \in Clients, TakeMessage(c) PROVE LinkType'
  <2>1. Head(inbox[c]) \in Item /\ Tail(inbox[c]) \in Seq(Item)
    BY <1>8 DEF TakeMessage, TypeOK, LinkType
  <2>2. Job(Head(inbox[c]).kind, Head(inbox[c]).filters) \in Work
    BY <2>1 DEF Job, NoWork, Item, Work
  <2>3. QED  BY <1>8, <2>1, <2>2 DEF TakeMessage, TypeOK, LinkType
<1>9. ASSUME NEW c \in Clients, NEW f \in Requests, Ask(c, f) PROVE LinkType'
  <2>1. Job("ask", {f}) \in Work
    BY FilterFacts DEF Job, NoWork, Work
  <2>2. QED  BY <1>9, <2>1 DEF Ask, TypeOK, LinkType
<1>10. ASSUME NEW c \in Clients, NEW f \in Filters, Unsubscribe(c, f) PROVE LinkType'
  <2>1. sess' \in [Clients -> Session \cup {None}]
    <3>1. sess[c] \in Session
      BY <1>10 DEF Unsubscribe, Idle, StageOk, StageOf, TypeOK, LinkType
    <3>2. [sess[c] EXCEPT !.subs = @ \ {f}] \in Session
      BY <3>1 DEF Session
    <3>3. QED  BY <1>10, <3>2 DEF Unsubscribe, TypeOK, LinkType
  <2>2. QED  BY <1>10, <2>1 DEF Unsubscribe, TypeOK, LinkType
<1>11. ASSUME NEW c \in Clients, NEW f \in Filters, StartFilter(c, f) PROVE LinkType'
  <2>1. Job(work[c].kind, work[c].rest \ {f}) \in Work
    BY DEF Job, NoWork, Work, TypeOK, LinkType
  <2>2. work' \in [Clients -> Work]
    BY <1>11, <2>1 DEF StartFilter, TypeOK, LinkType
  <2>3. sess' \in [Clients -> Session \cup {None}]
    <3>1. sess[c] \in Session
      BY <1>11 DEF StartFilter, NoWork, StageOk, StageOf, TypeOK, LinkType
    <3>2. [sess[c] EXCEPT !.subs = @ \cup {f}] \in Session
      BY <3>1 DEF Session
    <3>3. QED  BY <1>11, <3>2 DEF StartFilter, TypeOK, LinkType
  <2>4. QED  BY <1>11, <2>2, <2>3 DEF StartFilter, TypeOK, LinkType
<1>12. ASSUME NEW c \in Clients, LoadLocal(c) PROVE LinkType'
  BY <1>12 DEF LoadLocal, linkVars, LinkType, TypeOK
<1>13. ASSUME NEW c \in Clients, LoadEnd(c) PROVE LinkType'
  BY <1>13 DEF LoadEnd, linkVars, LinkType, TypeOK
<1>14. ASSUME NEW g \in gets, PeerGet(g) PROVE LinkType'
  BY <1>14 DEF PeerGet, linkVars, LinkType, TypeOK
<1>15. ASSUME NEW g \in gets, Timeout(g) PROVE LinkType'
  BY <1>15 DEF Timeout, linkVars, LinkType, TypeOK
<1>16. ASSUME NEW m \in Messages, NEW t \in Topics, NEW n \in Nodes, Forwards(m, t, n)
      PROVE  LinkType'
  BY <1>16 DEF Forwards, linkVars, LinkType, TypeOK
<1>17. ASSUME NEW m \in Messages, Store(m) PROVE LinkType'
  BY <1>17 DEF Store, linkVars, LinkType, TypeOK
<1>18. ASSUME NEW e \in removing, Propose(e) PROVE LinkType'
  BY <1>18 DEF Propose, linkVars, LinkType, TypeOK
<1>19. ASSUME NEW w \in wire, Arrive(w) PROVE LinkType'
  BY <1>19 DEF Arrive, linkVars, LinkType, TypeOK
<1>20. ASSUME NEW w \in wire, LoseForward(w) PROVE LinkType'
  BY <1>20 DEF LoseForward, linkVars, LinkType, TypeOK
<1>21. ASSUME UNCHANGED vars PROVE LinkType'
  BY <1>21 DEF vars, LinkType, TypeOK
<1>22. QED
  BY <1>1, <1>2, <1>3, <1>4, <1>5, <1>6, <1>7, <1>8, <1>9, <1>10, <1>11, <1>12, <1>13, <1>14,
     <1>15, <1>16, <1>17, <1>18, <1>19, <1>20, <1>21, StepCases

\* Every step keeps LoadType.
LEMMA LoadTypeKept == ASSUME TypeOK, StageOk, LoadOk, [Next]_vars PROVE LoadType'
<1>1. ASSUME NEW c \in Clients, NEW rec \in Records, CreateAccount(c, rec) PROVE LoadType'
  BY <1>1 DEF CreateAccount, LoadType, TypeOK
<1>2. ASSUME NEW c \in Clients, DeleteAccount(c) PROVE LoadType'
  BY <1>2 DEF DeleteAccount, LoadType, TypeOK
<1>3. ASSUME NEW c \in Clients, NEW n \in Nodes, NEW clean \in BOOLEAN,
             Authenticate(c, n, clean)
      PROVE  LoadType'
  BY <1>3 DEF Authenticate, LoadType, TypeOK
<1>4. ASSUME NEW c \in Clients, Kick(c) PROVE LoadType'
  BY <1>4 DEF Kick, LoadType, TypeOK
<1>5. ASSUME NEW c \in Clients, SetSession(c) PROVE LoadType'
  BY <1>5 DEF SetSession, LoadType, TypeOK
<1>6. ASSUME NEW c \in Clients, AutoSubscribe(c) PROVE LoadType'
  BY <1>6 DEF AutoSubscribe, LoadType, TypeOK
<1>7. ASSUME NEW c \in Clients, Disconnect(c) PROVE LoadType'
  BY <1>7 DEF Disconnect, LoadType, TypeOK
<1>8. ASSUME NEW c \in Clients, TakeMessage(c) PROVE LoadType'
  BY <1>8 DEF TakeMessage, LoadType, TypeOK
<1>9. ASSUME NEW c \in Clients, NEW f \in Requests, Ask(c, f) PROVE LoadType'
  BY <1>9 DEF Ask, LoadType, TypeOK
<1>10. ASSUME NEW c \in Clients, NEW f \in Filters, Unsubscribe(c, f) PROVE LoadType'
  BY <1>10 DEF Unsubscribe, LoadType, TypeOK
<1>11. ASSUME NEW c \in Clients, NEW f \in Filters, StartFilter(c, f) PROVE LoadType'
  <2>1. NewLoad(f) \in Load
    BY DEF NewLoad, Load
  <2>2. QED  BY <1>11, <2>1 DEF StartFilter, TypeOK, LoadType
<1>12. ASSUME NEW c \in Clients, LoadLocal(c) PROVE LoadType'
  <2>1. load[c] \in Load /\ sess[c].node \in Nodes
    BY <1>12 DEF LoadLocal, StageOk, StageOf, TypeOK, LoadType, LinkType, Session
  <2>2. Hits(sess[c].node, c, load[c].f) \subseteq Messages
    BY DEF Hits, Stored
  <2>3. [load[c] EXCEPT !.got = Hits(sess[c].node, c, load[c].f),
                        !.wait = Nodes \ {sess[c].node}] \in Load
    BY <2>1, <2>2 DEF Load
  <2>4. load' \in [Clients -> Load \cup {None}]
    BY <1>12, <2>3 DEF LoadLocal, TypeOK, LoadType
  <2>5. gets' \subseteq Get
    <3>1. \A p \in Nodes : [c |-> c, f |-> load[c].f, node |-> p, live |-> TRUE] \in Get
      BY <2>1 DEF Load, Get
    <3>2. QED  BY <1>12, <3>1 DEF LoadLocal, TypeOK, LoadType
  <2>6. QED  BY <2>4, <2>5 DEF LoadType
<1>13. ASSUME NEW c \in Clients, LoadEnd(c) PROVE LoadType'
  BY <1>13 DEF LoadEnd, TypeOK, LoadType
<1>14. ASSUME NEW g \in gets, PeerGet(g) PROVE LoadType'
  <2>1. gets' \subseteq Get /\ g \in Get
    BY <1>14 DEF PeerGet, TypeOK, LoadType
  <2>2. CASE ~ g.live
    BY <1>14, <2>1, <2>2 DEF PeerGet, TypeOK, LoadType
  <2>3. CASE g.live
    <3>1. load[g.c] \in Load /\ load[g.c].wait \in SUBSET Nodes /\ g.c \in Clients
      BY <1>14, <2>1, <2>3 DEF LoadOk, TypeOK, LoadType, Get, Load
    <3>2. Hits(g.node, g.c, g.f) \subseteq Messages
      BY DEF Hits, Stored
    <3>3. [load[g.c] EXCEPT !.got = @ \cup Hits(g.node, g.c, g.f), !.wait = @ \ {g.node}] \in Load
      BY <3>1, <3>2 DEF Load
    <3>4. QED  BY <1>14, <2>1, <2>3, <3>1, <3>3 DEF PeerGet, TypeOK, LoadType
  <2>4. QED  BY <2>2, <2>3 DEF PeerGet, TypeOK, LoadType, Get
<1>15. ASSUME NEW g \in gets, Timeout(g) PROVE LoadType'
  <2>1. g \in Get /\ g.c \in Clients /\ [g EXCEPT !.live = FALSE] \in Get
    BY <1>15 DEF Timeout, TypeOK, LoadType, Get
  <2>2. gets' \subseteq Get
    BY <1>15, <2>1 DEF Timeout, TypeOK, LoadType
  <2>3. load[g.c] \in Load /\ load[g.c].wait \in SUBSET Nodes
    BY <1>15, <2>1 DEF Timeout, LoadOk, TypeOK, LoadType, Load
  <2>4. [load[g.c] EXCEPT !.wait = @ \ {g.node}, !.bad = TRUE] \in Load
    BY <2>3 DEF Load
  <2>5. QED  BY <1>15, <2>1, <2>2, <2>4 DEF Timeout, TypeOK, LoadType
<1>16. ASSUME NEW m \in Messages, NEW t \in Topics, NEW n \in Nodes, Forwards(m, t, n)
      PROVE  LoadType'
  BY <1>16 DEF Forwards, LoadType, TypeOK
<1>17. ASSUME NEW m \in Messages, Store(m) PROVE LoadType'
  BY <1>17 DEF Store, LoadType, TypeOK
<1>18. ASSUME NEW e \in removing, Propose(e) PROVE LoadType'
  BY <1>18 DEF Propose, LoadType, TypeOK
<1>19. ASSUME NEW w \in wire, Arrive(w) PROVE LoadType'
  BY <1>19 DEF Arrive, LoadType, TypeOK
<1>20. ASSUME NEW w \in wire, LoseForward(w) PROVE LoadType'
  BY <1>20 DEF LoseForward, LoadType, TypeOK
<1>21. ASSUME UNCHANGED vars PROVE LoadType'
  BY <1>21 DEF vars, LoadType, TypeOK
<1>22. QED
  BY <1>1, <1>2, <1>3, <1>4, <1>5, <1>6, <1>7, <1>8, <1>9, <1>10, <1>11, <1>12, <1>13, <1>14,
     <1>15, <1>16, <1>17, <1>18, <1>19, <1>20, <1>21, StepCases

\* Every step keeps RouteType.
LEMMA RouteTypeKept == ASSUME TypeOK, StageOk, LoadOk, [Next]_vars PROVE RouteType'
<1>1. ASSUME NEW c \in Clients, NEW rec \in Records, CreateAccount(c, rec) PROVE RouteType'
  BY <1>1 DEF CreateAccount, routeVars, RouteType, TypeOK
<1>2. ASSUME NEW c \in Clients, DeleteAccount(c) PROVE RouteType'
  BY <1>2 DEF DeleteAccount, routeVars, RouteType, TypeOK
<1>3. ASSUME NEW c \in Clients, NEW n \in Nodes, NEW clean \in BOOLEAN,
             Authenticate(c, n, clean)
      PROVE  RouteType'
  BY <1>3 DEF Authenticate, routeVars, RouteType, TypeOK
<1>4. ASSUME NEW c \in Clients, Kick(c) PROVE RouteType'
  <2>1. ASSUME sess[c] # None
        PROVE  Removals(c, sess[c].subs) \subseteq {e \in Entry : e.op = "remove"}
    BY <2>1 DEF Removals, Entry, TypeOK, LinkType, Session
  <2>2. QED  BY <1>4, <2>1 DEF Kick, TypeOK, RouteType
<1>5. ASSUME NEW c \in Clients, SetSession(c) PROVE RouteType'
  BY <1>5 DEF SetSession, routeVars, RouteType, TypeOK
<1>6. ASSUME NEW c \in Clients, AutoSubscribe(c) PROVE RouteType'
  BY <1>6 DEF AutoSubscribe, routeVars, RouteType, TypeOK
<1>7. ASSUME NEW c \in Clients, Disconnect(c) PROVE RouteType'
  <2>1. Removals(c, sess[c].subs) \subseteq {e \in Entry : e.op = "remove"}
    BY <1>7 DEF Disconnect, Idle, StageOk, StageOf, Removals, Entry, TypeOK, LinkType, Session
  <2>2. QED  BY <1>7, <2>1 DEF Disconnect, TypeOK, RouteType
<1>8. ASSUME NEW c \in Clients, TakeMessage(c) PROVE RouteType'
  BY <1>8 DEF TakeMessage, routeVars, RouteType, TypeOK
<1>9. ASSUME NEW c \in Clients, NEW f \in Requests, Ask(c, f) PROVE RouteType'
  BY <1>9 DEF Ask, routeVars, RouteType, TypeOK
<1>10. ASSUME NEW c \in Clients, NEW f \in Filters, Unsubscribe(c, f) PROVE RouteType'
  <2>1. Removals(c, {f}) \subseteq {e \in Entry : e.op = "remove"}
    BY <1>10 DEF Unsubscribe, Idle, StageOk, StageOf, Removals, Entry, TypeOK, LinkType, Session
  <2>2. QED  BY <1>10, <2>1 DEF Unsubscribe, TypeOK, RouteType
<1>11. ASSUME NEW c \in Clients, NEW f \in Filters, StartFilter(c, f) PROVE RouteType'
  <2>1. sess[c] \in Session
    BY <1>11 DEF StartFilter, NoWork, StageOk, StageOf, TypeOK, LinkType
  <2>2. [op |-> "add", c |-> c, f |-> f, id |-> sess[c].id, node |-> sess[c].node] \in Entry
    BY <2>1 DEF Session, Entry
  <2>3. rlog' \in Seq(Entry)
    <3>1. CASE AddRoute(c, f)
      BY <2>2, <3>1 DEF AddRoute, TypeOK, RouteType
    <3>2. QED  BY <1>11, <3>1 DEF StartFilter, TypeOK, RouteType
  <2>4. QED  BY <1>11, <2>3 DEF StartFilter, TypeOK, RouteType
<1>12. ASSUME NEW c \in Clients, LoadLocal(c) PROVE RouteType'
  BY <1>12 DEF LoadLocal, routeVars, RouteType, TypeOK
<1>13. ASSUME NEW c \in Clients, LoadEnd(c) PROVE RouteType'
  BY <1>13 DEF LoadEnd, routeVars, RouteType, TypeOK
<1>14. ASSUME NEW g \in gets, PeerGet(g) PROVE RouteType'
  BY <1>14 DEF PeerGet, routeVars, RouteType, TypeOK
<1>15. ASSUME NEW g \in gets, Timeout(g) PROVE RouteType'
  BY <1>15 DEF Timeout, routeVars, RouteType, TypeOK
<1>16. ASSUME NEW m \in Messages, NEW t \in Topics, NEW n \in Nodes, Forwards(m, t, n)
      PROVE  RouteType'
  <2>1. Len(rlog) \in Nat
    BY DEF TypeOK, RouteType
  <2>2. applied[n] \in Nat
    BY DEF TypeOK, RouteType
  <2>3. applied' \in [Nodes -> Nat]
    BY <1>16, <2>1, <2>2 DEF Forwards, TypeOK, RouteType
  <2>4. QED  BY <1>16, <2>3 DEF Forwards, TypeOK, RouteType
<1>17. ASSUME NEW m \in Messages, Store(m) PROVE RouteType'
  BY <1>17 DEF Store, routeVars, RouteType, TypeOK
<1>18. ASSUME NEW e \in removing, Propose(e) PROVE RouteType'
  BY <1>18 DEF Propose, TypeOK, RouteType
<1>19. ASSUME NEW w \in wire, Arrive(w) PROVE RouteType'
  BY <1>19 DEF Arrive, routeVars, RouteType, TypeOK
<1>20. ASSUME NEW w \in wire, LoseForward(w) PROVE RouteType'
  BY <1>20 DEF LoseForward, routeVars, RouteType, TypeOK
<1>21. ASSUME UNCHANGED vars PROVE RouteType'
  BY <1>21 DEF vars, RouteType, TypeOK
<1>22. QED
  BY <1>1, <1>2, <1>3, <1>4, <1>5, <1>6, <1>7, <1>8, <1>9, <1>10, <1>11, <1>12, <1>13, <1>14,
     <1>15, <1>16, <1>17, <1>18, <1>19, <1>20, <1>21, StepCases

\* A client is routed to nodes only.
LEMMA RoutesAreNodes ==
    ASSUME TypeOK, NEW k \in 0 .. Len(rlog), NEW c, NEW f
    PROVE  Routes(k, c, f) \subseteq Nodes
<1>1. \A i \in 1 .. k : rlog[i] \in Entry
  BY DEF TypeOK, RouteType
<1>2. QED  BY <1>1 DEF Routes, Entry

\* Every step keeps MessageType.
LEMMA MessageTypeKept == ASSUME TypeOK, StageOk, LoadOk, [Next]_vars PROVE MessageType'
<1>1. ASSUME NEW c \in Clients, NEW rec \in Records, CreateAccount(c, rec) PROVE MessageType'
  BY <1>1 DEF CreateAccount, msgVars, MessageType, TypeOK
<1>2. ASSUME NEW c \in Clients, DeleteAccount(c) PROVE MessageType'
  BY <1>2 DEF DeleteAccount, msgVars, MessageType, TypeOK
<1>3. ASSUME NEW c \in Clients, NEW n \in Nodes, NEW clean \in BOOLEAN,
             Authenticate(c, n, clean)
      PROVE  MessageType'
  BY <1>3 DEF Authenticate, msgVars, MessageType, TypeOK
<1>4. ASSUME NEW c \in Clients, Kick(c) PROVE MessageType'
  BY <1>4 DEF Kick, msgVars, MessageType, TypeOK
<1>5. ASSUME NEW c \in Clients, SetSession(c) PROVE MessageType'
  BY <1>5 DEF SetSession, msgVars, MessageType, TypeOK
<1>6. ASSUME NEW c \in Clients, AutoSubscribe(c) PROVE MessageType'
  BY <1>6 DEF AutoSubscribe, msgVars, MessageType, TypeOK
<1>7. ASSUME NEW c \in Clients, Disconnect(c) PROVE MessageType'
  BY <1>7 DEF Disconnect, msgVars, MessageType, TypeOK
<1>8. ASSUME NEW c \in Clients, TakeMessage(c) PROVE MessageType'
  BY <1>8 DEF TakeMessage, msgVars, MessageType, TypeOK
<1>9. ASSUME NEW c \in Clients, NEW f \in Requests, Ask(c, f) PROVE MessageType'
  BY <1>9 DEF Ask, msgVars, MessageType, TypeOK
<1>10. ASSUME NEW c \in Clients, NEW f \in Filters, Unsubscribe(c, f) PROVE MessageType'
  BY <1>10 DEF Unsubscribe, msgVars, MessageType, TypeOK
<1>11. ASSUME NEW c \in Clients, NEW f \in Filters, StartFilter(c, f) PROVE MessageType'
  BY <1>11 DEF StartFilter, msgVars, MessageType, TypeOK
<1>12. ASSUME NEW c \in Clients, LoadLocal(c) PROVE MessageType'
  <2>1. {c} \X Hits(sess[c].node, c, load[c].f) \subseteq Clients \X Messages
    BY DEF Hits, Stored
  <2>2. QED  BY <1>12, <2>1 DEF LoadLocal, TypeOK, MessageType
<1>13. ASSUME NEW c \in Clients, LoadEnd(c) PROVE MessageType'
  BY <1>13 DEF LoadEnd, msgVars, MessageType, TypeOK
<1>14. ASSUME NEW g \in gets, PeerGet(g) PROVE MessageType'
  <2>1. {g.c} \X Hits(g.node, g.c, g.f) \subseteq Clients \X Messages
    BY <1>14 DEF Hits, Stored, TypeOK, LoadType, Get
  <2>2. QED  BY <1>14, <2>1 DEF PeerGet, TypeOK, MessageType
<1>15. ASSUME NEW g \in gets, Timeout(g) PROVE MessageType'
  BY <1>15 DEF Timeout, msgVars, MessageType, TypeOK
<1>16. ASSUME NEW m \in Messages, NEW t \in Topics, NEW n \in Nodes, Forwards(m, t, n)
      PROVE  MessageType'
  <2>1. [pc |-> "store", topic |-> t, node |-> n] \in Publication
    BY DEF Publication
  <2>2. msg' \in [Messages -> Publication] /\ marks' = marks
    BY <1>16, <2>1 DEF Forwards, TypeOK, MessageType
  <2>3. \A i \in Messages : msg'[i].pc # "none" => msg'[i].topic \in Topics /\ msg'[i].node \in Nodes
    BY <1>16 DEF Forwards, TypeOK, MessageType
  <2>4. PICK k \in applied[n] .. Len(rlog) :
          wire' = wire \cup UNION {{<<m, d, p>> : p \in Targets(k, t, d) \ {n}} : d \in Clients}
    BY <1>16 DEF Forwards
  <2>5. wire' \subseteq Messages \X Clients \X Nodes
    <3>1. k \in 0 .. Len(rlog)
      BY DEF TypeOK, RouteType
    <3>2. \A d \in Clients : Targets(k, t, d) \subseteq Nodes
      BY <3>1, RoutesAreNodes DEF Targets
    <3>3. QED  BY <2>4, <3>2 DEF TypeOK, MessageType
  <2>6. QED  BY <2>2, <2>3, <2>5 DEF TypeOK, MessageType
<1>17. ASSUME NEW m \in Messages, Store(m) PROVE MessageType'
  BY <1>17 DEF Store, TypeOK, MessageType, Publication
<1>18. ASSUME NEW e \in removing, Propose(e) PROVE MessageType'
  BY <1>18 DEF Propose, msgVars, MessageType, TypeOK
<1>19. ASSUME NEW w \in wire, Arrive(w) PROVE MessageType'
  BY <1>19 DEF Arrive, TypeOK, MessageType
<1>20. ASSUME NEW w \in wire, LoseForward(w) PROVE MessageType'
  BY <1>20 DEF LoseForward, TypeOK, MessageType
<1>21. ASSUME UNCHANGED vars PROVE MessageType'
  BY <1>21 DEF vars, MessageType, TypeOK
<1>22. QED
  BY <1>1, <1>2, <1>3, <1>4, <1>5, <1>6, <1>7, <1>8, <1>9, <1>10, <1>11, <1>12, <1>13, <1>14,
     <1>15, <1>16, <1>17, <1>18, <1>19, <1>20, <1>21, StepCases

\* Every step keeps HistoryType.
LEMMA HistoryTypeKept == ASSUME TypeOK, StageOk, LoadOk, [Next]_vars PROVE HistoryType'
<1>1. ASSUME NEW c \in Clients, NEW rec \in Records, CreateAccount(c, rec) PROVE HistoryType'
  BY <1>1 DEF CreateAccount, histVars, HistoryType, TypeOK
<1>2. ASSUME NEW c \in Clients, DeleteAccount(c) PROVE HistoryType'
  BY <1>2 DEF DeleteAccount, histVars, HistoryType, TypeOK
<1>3. ASSUME NEW c \in Clients, NEW n \in Nodes, NEW clean \in BOOLEAN,
             Authenticate(c, n, clean)
      PROVE  HistoryType'
  BY <1>3 DEF Authenticate, TypeOK, ConfigType, HistoryType
<1>4. ASSUME NEW c \in Clients, Kick(c) PROVE HistoryType'
  BY <1>4 DEF Kick, TypeOK, HistoryType
<1>5. ASSUME NEW c \in Clients, SetSession(c) PROVE HistoryType'
  BY <1>5 DEF SetSession, histVars, HistoryType, TypeOK
<1>6. ASSUME NEW c \in Clients, AutoSubscribe(c) PROVE HistoryType'
  BY <1>6 DEF AutoSubscribe, TypeOK, HistoryType
<1>7. ASSUME NEW c \in Clients, Disconnect(c) PROVE HistoryType'
  BY <1>7 DEF Disconnect, TypeOK, HistoryType
<1>8. ASSUME NEW c \in Clients, TakeMessage(c) PROVE HistoryType'
  BY <1>8 DEF TakeMessage, histVars, HistoryType, TypeOK
<1>9. ASSUME NEW c \in Clients, NEW f \in Requests, Ask(c, f) PROVE HistoryType'
  BY <1>9 DEF Ask, histVars, HistoryType, TypeOK
<1>10. ASSUME NEW c \in Clients, NEW f \in Filters, Unsubscribe(c, f) PROVE HistoryType'
  BY <1>10 DEF Unsubscribe, TypeOK, HistoryType
<1>11. ASSUME NEW c \in Clients, NEW f \in Filters, StartFilter(c, f) PROVE HistoryType'
  <2>1. wanted' \in [Clients -> SUBSET Filters] /\ refused' \in [Clients -> SUBSET Filters]
    <3>1. wanted' = wanted \/ wanted' = [wanted EXCEPT ![c] = wanted[c] \cup {f}]
      BY <1>11 DEF StartFilter
    <3>2. refused' = refused \/ refused' = [refused EXCEPT ![c] = refused[c] \cup {f}]
                             \/ refused' = [refused EXCEPT ![c] = refused[c]]
      BY <1>11 DEF StartFilter
    <3>3. wanted \in [Clients -> SUBSET Filters] /\ refused \in [Clients -> SUBSET Filters]
      BY DEF TypeOK, HistoryType
    <3>4. wanted[c] \cup {f} \in SUBSET Filters /\ refused[c] \cup {f} \in SUBSET Filters
      BY <3>3
    <3>5. QED  BY <3>1, <3>2, <3>3, <3>4
  <2>2. passed' \in [Clients -> SUBSET (Filters \X Nodes)]
    <3>1. passed' = passed \/ passed' = [passed EXCEPT ![c] = passed[c] \ ({f} \X Nodes)]
      BY <1>11 DEF StartFilter
    <3>2. QED  BY <3>1 DEF TypeOK, HistoryType
  <2>3. since' \in [Clients -> [Filters -> Nat]]
    <3>1. Len(rlog) + 1 \in Nat /\ since[c][f] \in Nat
      BY DEF TypeOK, RouteType, HistoryType
    <3>2. since' = since \/ since' = [since EXCEPT ![c][f] = IF f \in sess[c].subs THEN since[c][f]
                                                             ELSE Len(rlog) + 1]
      BY <1>11 DEF StartFilter
    <3>3. since \in [Clients -> [Filters -> Nat]]
      BY DEF TypeOK, HistoryType
    <3>4. ASSUME NEW v \in Nat PROVE [since EXCEPT ![c][f] = v] \in [Clients -> [Filters -> Nat]]
      BY <3>3
    <3>5. QED  BY <3>1, <3>2, <3>3, <3>4
  <2>4. QED  BY <1>11, <2>1, <2>2, <2>3 DEF StartFilter, TypeOK, HistoryType
<1>12. ASSUME NEW c \in Clients, LoadLocal(c) PROVE HistoryType'
  <2>1. <<load[c].f, sess[c].node>> \in Filters \X Nodes
    BY <1>12 DEF LoadLocal, StageOk, StageOf, TypeOK, LoadType, Load, LinkType, Session
  <2>2. QED  BY <1>12, <2>1 DEF LoadLocal, TypeOK, HistoryType
<1>13. ASSUME NEW c \in Clients, LoadEnd(c) PROVE HistoryType'
  <2>1. load[c].got \subseteq Messages
    BY <1>13 DEF LoadEnd, TypeOK, LoadType, Load
  <2>2. QED  BY <1>13, <2>1 DEF LoadEnd, TypeOK, HistoryType
<1>14. ASSUME NEW g \in gets, PeerGet(g) PROVE HistoryType'
  <2>1. g.c \in Clients /\ <<g.f, g.node>> \in Filters \X Nodes
    BY <1>14 DEF TypeOK, LoadType, Get
  <2>2. QED  BY <1>14, <2>1 DEF PeerGet, TypeOK, HistoryType
<1>15. ASSUME NEW g \in gets, Timeout(g) PROVE HistoryType'
  <2>1. g.c \in Clients /\ <<g.f, g.node>> \in Filters \X Nodes
    BY <1>15 DEF TypeOK, LoadType, Get
  <2>2. QED  BY <1>15, <2>1 DEF Timeout, TypeOK, HistoryType
<1>16. ASSUME NEW m \in Messages, NEW t \in Topics, NEW n \in Nodes, Forwards(m, t, n)
      PROVE  HistoryType'
  BY <1>16 DEF Forwards, TypeOK, HistoryType
<1>17. ASSUME NEW m \in Messages, Store(m) PROVE HistoryType'
  BY <1>17 DEF Store, TypeOK, HistoryType
<1>18. ASSUME NEW e \in removing, Propose(e) PROVE HistoryType'
  BY <1>18 DEF Propose, histVars, HistoryType, TypeOK
<1>19. ASSUME NEW w \in wire, Arrive(w) PROVE HistoryType'
  BY <1>19 DEF Arrive, TypeOK, MessageType, HistoryType
<1>20. ASSUME NEW w \in wire, LoseForward(w) PROVE HistoryType'
  BY <1>20 DEF LoseForward, TypeOK, HistoryType
<1>21. ASSUME UNCHANGED vars PROVE HistoryType'
  BY <1>21 DEF vars, HistoryType, TypeOK
<1>22. QED
  BY <1>1, <1>2, <1>3, <1>4, <1>5, <1>6, <1>7, <1>8, <1>9, <1>10, <1>11, <1>12, <1>13, <1>14,
     <1>15, <1>16, <1>17, <1>18, <1>19, <1>20, <1>21, StepCases

\* A change of its subscriptions leaves the rest of a session alone.
LEMMA SubsUpdate ==
    ASSUME TypeOK, NEW c \in Clients, sess[c] \in Session, NEW S \in SUBSET Filters,
           sess' = [sess EXCEPT ![c].subs = S]
    PROVE  /\ sess'[c] \in Session /\ sess'[c].subs = S
           /\ sess'[c].id = sess[c].id /\ sess'[c].auth = sess[c].auth
           /\ sess'[c].node = sess[c].node
<1>1. [sess[c] EXCEPT !.subs = S] \in Session
  BY DEF Session
<1>2. sess'[c] = [sess[c] EXCEPT !.subs = S]
  BY DEF TypeOK, LinkType
<1>3. QED  BY <1>1, <1>2 DEF Session

\* Every step keeps StageOk.
LEMMA StageOkKept == ASSUME TypeOK, StageOk, LoadOk, [Next]_vars PROVE StageOk'
<1>1. ASSUME NEW c \in Clients, NEW rec \in Records, CreateAccount(c, rec) PROVE StageOk'
  BY <1>1 DEF CreateAccount, linkVars, histVars, StageOk, StageOf, HelloAuth
<1>2. ASSUME NEW c \in Clients, DeleteAccount(c) PROVE StageOk'
  BY <1>2 DEF DeleteAccount, linkVars, histVars, StageOk, StageOf, HelloAuth
<1>3. ASSUME NEW c \in Clients, NEW n \in Nodes, NEW clean \in BOOLEAN,
             Authenticate(c, n, clean)
      PROVE  StageOk'
  <2>1. ASSUME NEW d \in Clients, d # c PROVE StageOf(d)'
    BY <1>3, <2>1
    DEF Authenticate, HelloAuth, StageOk, StageOf, TypeOK, LinkType, LoadType, HistoryType
  <2>2. StageOf(c)'
    BY <1>3, NoneFacts
    DEF Authenticate, HelloAuth, StageOk, StageOf, TypeOK, LinkType, LoadType, HistoryType,
        ConfigType, Hello
  <2>3. QED  BY <2>1, <2>2 DEF StageOk
<1>4. ASSUME NEW c \in Clients, Kick(c) PROVE StageOk'
  BY <1>4 DEF Kick, HelloAuth, Hello, StageOk, StageOf, TypeOK, LinkType, LoadType
<1>5. ASSUME NEW c \in Clients, SetSession(c) PROVE StageOk'
  <2>1. ASSUME NEW d \in Clients, d # c PROVE StageOf(d)'
    BY <1>5, <2>1 DEF SetSession, histVars, HelloAuth, StageOk, StageOf, TypeOK, LinkType
  <2>2. StageOf(c)'
    <3>1. sess'[c] # None
      <4>1. [id |-> hello[c].id, node |-> hello[c].node, auth |-> hello[c].auth,
             keep |-> ~ hello[c].clean, subs |-> {}] \in Session
        BY <1>5, DeliveryAssumption
        DEF SetSession, StageOk, StageOf, TypeOK, LinkType, Hello, Session
      <4>2. QED  BY <1>5, <4>1, NoneFacts DEF SetSession, TypeOK, LinkType
    <3>2. /\ sess'[c].id = hello[c].id /\ sess'[c].auth = hello[c].auth
          /\ sess'[c].node = hello[c].node
      BY <1>5 DEF SetSession, TypeOK, LinkType
    <3>3. \A i \in 1 .. Len(inbox'[c]) : inbox'[c][i].kind = "carry"
      BY <1>5 DEF SetSession, TypeOK, LinkType
    <3>4. QED
      BY <1>5, <3>1, <3>2, <3>3
      DEF SetSession, histVars, HelloAuth, StageOk, StageOf, TypeOK, LinkType
  <2>3. QED  BY <2>1, <2>2 DEF StageOk
<1>6. ASSUME NEW c \in Clients, AutoSubscribe(c) PROVE StageOk'
  <2>1. ASSUME NEW d \in Clients, d # c PROVE StageOf(d)'
    BY <1>6, <2>1
    DEF AutoSubscribe, NoHello, HelloAuth, StageOk, StageOf, TypeOK, LinkType, LoadType
  <2>2. StageOf(c)'
    BY <1>6
    DEF AutoSubscribe, NoHello, HelloAuth, StageOk, StageOf, TypeOK, LinkType, LoadType, Hello
  <2>3. QED  BY <2>1, <2>2 DEF StageOk
<1>7. ASSUME NEW c \in Clients, Disconnect(c) PROVE StageOk'
  <2>1. ASSUME NEW d \in Clients, d # c PROVE StageOf(d)'
    BY <1>7, <2>1 DEF Disconnect, HelloAuth, StageOk, StageOf, TypeOK, LinkType, LoadType
  <2>2. StageOf(c)'
    BY <1>7 DEF Disconnect, HelloAuth, StageOk, StageOf, TypeOK, LinkType, LoadType, Idle
  <2>3. QED  BY <2>1, <2>2 DEF StageOk
<1>8. ASSUME NEW c \in Clients, TakeMessage(c) PROVE StageOk'
  <2>1. ASSUME NEW d \in Clients, d # c PROVE StageOf(d)'
    BY <1>8, <2>1
    DEF TakeMessage, histVars, HelloAuth, StageOk, StageOf, TypeOK, LinkType, LoadType
  <2>2. StageOf(c)'
    BY <1>8
    DEF TakeMessage, histVars, HelloAuth, StageOk, StageOf, TypeOK, LinkType, LoadType, Idle
  <2>3. QED  BY <2>1, <2>2 DEF StageOk
<1>9. ASSUME NEW c \in Clients, NEW f \in Requests, Ask(c, f) PROVE StageOk'
  <2>1. ASSUME NEW d \in Clients, d # c PROVE StageOf(d)'
    BY <1>9, <2>1 DEF Ask, histVars, HelloAuth, StageOk, StageOf, TypeOK, LinkType, LoadType
  <2>2. StageOf(c)'
    BY <1>9 DEF Ask, histVars, HelloAuth, StageOk, StageOf, TypeOK, LinkType, LoadType, Idle
  <2>3. QED  BY <2>1, <2>2 DEF StageOk
<1>10. ASSUME NEW c \in Clients, NEW f \in Filters, Unsubscribe(c, f) PROVE StageOk'
  <2>1. ASSUME NEW d \in Clients, d # c PROVE StageOf(d)'
    BY <1>10, <2>1 DEF Unsubscribe, HelloAuth, StageOk, StageOf, TypeOK, LinkType, LoadType
  <2>2. StageOf(c)'
    <3>1. sess[c] \in Session /\ stage[c] = "up"
      BY <1>10 DEF Unsubscribe, Idle, StageOk, StageOf, TypeOK, LinkType
    <3>2. sess'[c] \in Session /\ sess'[c].id = sess[c].id /\ sess'[c].auth = sess[c].auth
      <4>1. sess[c].subs \ {f} \in SUBSET Filters
        BY <3>1 DEF Session
      <4>2. sess' = [sess EXCEPT ![c].subs = sess[c].subs \ {f}]
        BY <1>10 DEF Unsubscribe, TypeOK, LinkType
      <4>3. QED  BY <3>1, <4>1, <4>2, SubsUpdate
    <3>3. QED  BY <1>10, <3>1, <3>2, NoneFacts DEF Unsubscribe, HelloAuth, StageOk, StageOf
  <2>3. QED  BY <2>1, <2>2 DEF StageOk
<1>11. ASSUME NEW c \in Clients, NEW f \in Filters, StartFilter(c, f) PROVE StageOk'
  <2>1. ASSUME NEW d \in Clients, d # c PROVE StageOf(d)'
    BY <1>11, <2>1 DEF StartFilter, HelloAuth, StageOk, StageOf, TypeOK, LinkType, LoadType
  <2>2. StageOf(c)'
    <3>1. sess[c] \in Session /\ stage[c] = "up"
      BY <1>11 DEF StartFilter, NoWork, StageOk, StageOf, TypeOK, LinkType
    <3>2. sess'[c] \in Session /\ sess'[c].id = sess[c].id /\ sess'[c].auth = sess[c].auth
      <4>1. sess[c].subs \cup {f} \in SUBSET Filters
        BY <3>1 DEF Session
      <4>2. sess' = [sess EXCEPT ![c].subs = sess[c].subs \cup {f}] \/ sess' = sess
        BY <1>11 DEF StartFilter, TypeOK, LinkType
      <4>3. QED  BY <3>1, <4>1, <4>2, SubsUpdate
    <3>3. QED  BY <1>11, <3>1, <3>2, NoneFacts DEF StartFilter, HelloAuth, StageOk, StageOf
  <2>3. QED  BY <2>1, <2>2 DEF StageOk
<1>12. ASSUME NEW c \in Clients, LoadLocal(c) PROVE StageOk'
  BY <1>12 DEF LoadLocal, HelloAuth, linkVars, StageOk, StageOf, TypeOK, LinkType, LoadType
<1>13. ASSUME NEW c \in Clients, LoadEnd(c) PROVE StageOk'
  BY <1>13 DEF LoadEnd, HelloAuth, linkVars, StageOk, StageOf, TypeOK, LinkType, LoadType
<1>14. ASSUME NEW g \in gets, PeerGet(g) PROVE StageOk'
  BY <1>14
  DEF PeerGet, LoadOk, HelloAuth, linkVars, Get, StageOk, StageOf, TypeOK, LinkType, LoadType
<1>15. ASSUME NEW g \in gets, Timeout(g) PROVE StageOk'
  <2>1. g.c \in Clients /\ load[g.c] # None
    BY <1>15 DEF Timeout, LoadOk, Get, TypeOK, LoadType
  <2>2. ASSUME NEW d \in Clients PROVE load'[d] = None <=> load[d] = None
    <3>1. CASE d # g.c
      BY <1>15, <3>1 DEF Timeout, TypeOK, LoadType
    <3>2. CASE d = g.c
      <4>1. [load[d] EXCEPT !.wait = @ \ {g.node}, !.bad = TRUE] \in Load
        BY <1>15, <2>1, <3>2 DEF Timeout, LoadOk, TypeOK, LoadType, Load
      <4>2. QED  BY <1>15, <2>1, <3>2, <4>1, NoneFacts DEF Timeout, TypeOK, LoadType
    <3>3. QED  BY <3>1, <3>2
  <2>3. QED
    BY <1>15, <2>2
    DEF Timeout, HelloAuth, linkVars, histVars, StageOk, StageOf, TypeOK, LoadType
<1>16. ASSUME NEW m \in Messages, NEW t \in Topics, NEW n \in Nodes, Forwards(m, t, n)
      PROVE  StageOk'
  BY <1>16 DEF Forwards, linkVars, StageOk, StageOf, HelloAuth
<1>17. ASSUME NEW m \in Messages, Store(m) PROVE StageOk'
  BY <1>17 DEF Store, linkVars, StageOk, StageOf, HelloAuth
<1>18. ASSUME NEW e \in removing, Propose(e) PROVE StageOk'
  BY <1>18 DEF Propose, linkVars, histVars, StageOk, StageOf, HelloAuth
<1>19. ASSUME NEW w \in wire, Arrive(w) PROVE StageOk'
  BY <1>19 DEF Arrive, linkVars, StageOk, StageOf, HelloAuth
<1>20. ASSUME NEW w \in wire, LoseForward(w) PROVE StageOk'
  BY <1>20 DEF LoseForward, linkVars, StageOk, StageOf, HelloAuth
<1>21. ASSUME UNCHANGED vars PROVE StageOk'
  BY <1>21 DEF vars, StageOk, StageOf, HelloAuth
<1>22. QED
  BY <1>1, <1>2, <1>3, <1>4, <1>5, <1>6, <1>7, <1>8, <1>9, <1>10, <1>11, <1>12, <1>13, <1>14,
     <1>15, <1>16, <1>17, <1>18, <1>19, <1>20, <1>21, StepCases

\* LoadLocal: the load that has read the store of the session's node.
LEMMA LocalRead ==
    ASSUME TypeOK, StageOk, NEW c \in Clients, LoadLocal(c)
    PROVE  /\ load[c] \in Load /\ load'[c] \in Load /\ sess[c].node \in Nodes
           /\ load'[c].f = load[c].f /\ load'[c].got = Hits(sess[c].node, c, load[c].f)
           /\ load'[c].wait = Nodes \ {sess[c].node} /\ load'[c].wait # None
           /\ \A d \in Clients : d # c => load'[d] = load[d]
<1>1. load[c] \in Load /\ sess[c].node \in Nodes
  BY DEF LoadLocal, StageOk, StageOf, TypeOK, LoadType, LinkType, Session
<1>2. /\ load'[c] = [load[c] EXCEPT !.got = Hits(sess[c].node, c, load[c].f),
                                     !.wait = Nodes \ {sess[c].node}]
      /\ \A d \in Clients : d # c => load'[d] = load[d]
  BY <1>1 DEF LoadLocal, TypeOK, LoadType
<1>3. load'[c] \in Load
  BY <1>1, <1>2 DEF Load, Hits, Stored
<1>4. Nodes \ {sess[c].node} # None
  BY NoneFacts
<1>5. QED  BY <1>1, <1>2, <1>3, <1>4 DEF Load

\* PeerGet and Timeout: the load after an answer came, or did not come.
LEMMA Answered ==
    ASSUME TypeOK, LoadOk, NEW g \in gets, g.live, PeerGet(g) \/ Timeout(g)
    PROVE  /\ g.c \in Clients /\ g.f \in Filters /\ g.node \in Nodes
           /\ load[g.c] \in Load /\ load[g.c].f = g.f
           /\ load[g.c].wait \in SUBSET Nodes /\ g.node \in load[g.c].wait
           /\ load'[g.c] \in Load /\ load'[g.c].f = g.f
           /\ load'[g.c].wait = load[g.c].wait \ {g.node} /\ load'[g.c].wait # None
           /\ PeerGet(g) => /\ load'[g.c].got = load[g.c].got \cup Hits(g.node, g.c, g.f)
                            /\ load'[g.c].bad = load[g.c].bad
           /\ Timeout(g) => load'[g.c].got = load[g.c].got /\ load'[g.c].bad
           /\ \A d \in Clients : d # g.c => load'[d] = load[d]
<1>1. g.c \in Clients /\ g.f \in Filters /\ g.node \in Nodes
  BY DEF TypeOK, LoadType, Get
<1>2. /\ load[g.c] \in Load /\ load[g.c].f = g.f
      /\ load[g.c].wait \in SUBSET Nodes /\ g.node \in load[g.c].wait
  BY <1>1 DEF LoadOk, TypeOK, LoadType, Load
<1>3. load[g.c].wait \ {g.node} # None
  BY <1>2, NoneFacts
<1>4. CASE PeerGet(g)
  <2>1. /\ load'[g.c] = [load[g.c] EXCEPT !.got = @ \cup Hits(g.node, g.c, g.f),
                                          !.wait = @ \ {g.node}]
        /\ \A d \in Clients : d # g.c => load'[d] = load[d]
    BY <1>1, <1>4 DEF PeerGet, TypeOK, LoadType
  <2>2. load'[g.c] \in Load
    BY <1>2, <2>1 DEF Load, Hits, Stored
  <2>3. ~ Timeout(g)
    BY <1>4 DEF PeerGet, Timeout, TypeOK, ConfigType
  <2>4. QED  BY <1>1, <1>2, <1>3, <1>4, <2>1, <2>2, <2>3 DEF Load
<1>5. CASE Timeout(g)
  <2>1. /\ load'[g.c] = [load[g.c] EXCEPT !.wait = @ \ {g.node}, !.bad = TRUE]
        /\ \A d \in Clients : d # g.c => load'[d] = load[d]
    BY <1>1, <1>5 DEF Timeout, TypeOK, LoadType
  <2>2. load'[g.c] \in Load
    BY <1>2, <2>1 DEF Load
  <2>3. ~ PeerGet(g)
    BY <1>5 DEF PeerGet, Timeout, TypeOK, ConfigType
  <2>4. QED  BY <1>1, <1>2, <1>3, <1>5, <2>1, <2>2, <2>3 DEF Load
<1>6. QED  BY <1>4, <1>5

\* The requests still awaited after an answer came, or did not come.
LEMMA AnsweredOk ==
    ASSUME TypeOK, LoadOk, NEW g \in gets, g.live, PeerGet(g) \/ Timeout(g)
    PROVE  LoadOk'
<1>1. ASSUME NEW h \in gets', h.live PROVE
         /\ load'[h.c] # None /\ load'[h.c].f = h.f
         /\ load'[h.c].wait # None /\ h.node \in load'[h.c].wait
  <2>1. h \in gets /\ h # g /\ h \in Get /\ g \in Get
    BY <1>1 DEF PeerGet, Timeout, TypeOK, LoadType, Get
  <2>2. CASE h.c # g.c
    BY <1>1, <2>1, <2>2, Answered DEF LoadOk, Get
  <2>3. CASE h.c = g.c
    <3>1. h.f = load[g.c].f /\ g.f = load[g.c].f /\ h.node \in load[g.c].wait
      BY <1>1, <2>1, <2>3, Answered DEF LoadOk
    <3>2. h.node # g.node
      BY <1>1, <2>1, <2>3, <3>1 DEF Get
    <3>3. QED  BY <2>3, <3>1, <3>2, Answered, NoneFacts
  <2>4. QED  BY <2>2, <2>3
<1>2. QED  BY <1>1, Answered DEF LoadOk

\* Every step keeps LoadOk.
LEMMA LoadOkKept == ASSUME TypeOK, StageOk, LoadOk, [Next]_vars PROVE LoadOk'
<1>1. ASSUME NEW c \in Clients, NEW rec \in Records, CreateAccount(c, rec) PROVE LoadOk'
  BY <1>1 DEF CreateAccount, LoadOk
<1>2. ASSUME NEW c \in Clients, DeleteAccount(c) PROVE LoadOk'
  BY <1>2 DEF DeleteAccount, LoadOk
<1>3. ASSUME NEW c \in Clients, NEW n \in Nodes, NEW clean \in BOOLEAN,
             Authenticate(c, n, clean)
      PROVE  LoadOk'
  BY <1>3 DEF Authenticate, LoadOk
<1>4. ASSUME NEW c \in Clients, Kick(c) PROVE LoadOk'
  BY <1>4 DEF Kick, LoadOk
<1>5. ASSUME NEW c \in Clients, SetSession(c) PROVE LoadOk'
  BY <1>5 DEF SetSession, LoadOk
<1>6. ASSUME NEW c \in Clients, AutoSubscribe(c) PROVE LoadOk'
  BY <1>6 DEF AutoSubscribe, LoadOk
<1>7. ASSUME NEW c \in Clients, Disconnect(c) PROVE LoadOk'
  BY <1>7 DEF Disconnect, LoadOk
<1>8. ASSUME NEW c \in Clients, TakeMessage(c) PROVE LoadOk'
  BY <1>8 DEF TakeMessage, LoadOk
<1>9. ASSUME NEW c \in Clients, NEW f \in Requests, Ask(c, f) PROVE LoadOk'
  BY <1>9 DEF Ask, LoadOk
<1>10. ASSUME NEW c \in Clients, NEW f \in Filters, Unsubscribe(c, f) PROVE LoadOk'
  BY <1>10 DEF Unsubscribe, LoadOk
<1>11. ASSUME NEW c \in Clients, NEW f \in Filters, StartFilter(c, f) PROVE LoadOk'
  <2>1. \A g \in gets : g.live => g.c # c /\ g.c \in Clients
    BY <1>11 DEF StartFilter, LoadOk, TypeOK, LoadType, Get
  <2>2. load' = load \/ load' = [load EXCEPT ![c] = NewLoad(f)]
    BY <1>11 DEF StartFilter
  <2>3. gets' = gets
    BY <1>11 DEF StartFilter
  <2>4. QED  BY <2>1, <2>2, <2>3 DEF NewLoad, LoadOk, TypeOK, LoadType
<1>12. ASSUME NEW c \in Clients, LoadLocal(c) PROVE LoadOk'
  <2>1. \A g \in gets : g.live => g.c # c /\ g.c \in Clients
    BY <1>12 DEF LoadLocal, LoadOk, TypeOK, LoadType, Get
  <2>2. ASSUME NEW g \in gets', g.live PROVE
           /\ load'[g.c] # None /\ load'[g.c].f = g.f
           /\ load'[g.c].wait # None /\ g.node \in load'[g.c].wait
    <3>1. CASE g \in gets
      BY <1>12, <2>1, <2>2, <3>1, LocalRead DEF LoadOk
    <3>2. CASE g \notin gets
      <4>1. PICK p \in Nodes \ {sess[c].node} :
               g = [c |-> c, f |-> load[c].f, node |-> p, live |-> TRUE]
        BY <1>12, <3>2 DEF LoadLocal
      <4>2. QED  BY <1>12, <4>1, LocalRead, NoneFacts
    <3>3. QED  BY <3>1, <3>2
  <2>3. QED  BY <1>12, <2>2, LocalRead DEF LoadOk
<1>13. ASSUME NEW c \in Clients, LoadEnd(c) PROVE LoadOk'
  <2>1. \A g \in gets : g.live => g.c # c /\ g.c \in Clients
    BY <1>13 DEF LoadEnd, LoadOk, TypeOK, LoadType, Get
  <2>2. QED  BY <1>13, <2>1 DEF LoadEnd, LoadOk, TypeOK, LoadType
<1>14. ASSUME NEW g \in gets, PeerGet(g) PROVE LoadOk'
  <2>1. CASE ~ g.live
    BY <1>14, <2>1 DEF PeerGet, LoadOk
  <2>2. QED  BY <1>14, <2>1, AnsweredOk
<1>15. ASSUME NEW g \in gets, Timeout(g) PROVE LoadOk'
  <2>1. g.live
    BY <1>15 DEF Timeout
  <2>2. QED  BY <1>15, <2>1, AnsweredOk
<1>16. ASSUME NEW m \in Messages, NEW t \in Topics, NEW n \in Nodes, Forwards(m, t, n)
      PROVE  LoadOk'
  BY <1>16 DEF Forwards, LoadOk
<1>17. ASSUME NEW m \in Messages, Store(m) PROVE LoadOk'
  BY <1>17 DEF Store, LoadOk
<1>18. ASSUME NEW e \in removing, Propose(e) PROVE LoadOk'
  BY <1>18 DEF Propose, LoadOk
<1>19. ASSUME NEW w \in wire, Arrive(w) PROVE LoadOk'
  BY <1>19 DEF Arrive, LoadOk
<1>20. ASSUME NEW w \in wire, LoseForward(w) PROVE LoadOk'
  BY <1>20 DEF LoseForward, LoadOk
<1>21. ASSUME UNCHANGED vars PROVE LoadOk'
  BY <1>21 DEF vars, LoadOk
<1>22. QED
  BY <1>1, <1>2, <1>3, <1>4, <1>5, <1>6, <1>7, <1>8, <1>9, <1>10, <1>11, <1>12, <1>13, <1>14,
     <1>15, <1>16, <1>17, <1>18, <1>19, <1>20, <1>21, StepCases

\* Every step keeps MarkedIsSent.
LEMMA MarkedIsSentKept ==
    ASSUME TypeOK, StageOk, LoadOk, MarkedIsSent, [Next]_vars
    PROVE  MarkedIsSent'
<1>1. ASSUME NEW c \in Clients, NEW rec \in Records, CreateAccount(c, rec) PROVE MarkedIsSent'
  BY <1>1 DEF CreateAccount, msgVars, histVars, MarkedIsSent
<1>2. ASSUME NEW c \in Clients, DeleteAccount(c) PROVE MarkedIsSent'
  BY <1>2 DEF DeleteAccount, msgVars, histVars, MarkedIsSent
<1>3. ASSUME NEW c \in Clients, NEW n \in Nodes, NEW clean \in BOOLEAN,
             Authenticate(c, n, clean)
      PROVE  MarkedIsSent'
  BY <1>3 DEF Authenticate, msgVars, MarkedIsSent
<1>4. ASSUME NEW c \in Clients, Kick(c) PROVE MarkedIsSent'
  BY <1>4 DEF Kick, msgVars, MarkedIsSent
<1>5. ASSUME NEW c \in Clients, SetSession(c) PROVE MarkedIsSent'
  BY <1>5 DEF SetSession, msgVars, histVars, MarkedIsSent
<1>6. ASSUME NEW c \in Clients, AutoSubscribe(c) PROVE MarkedIsSent'
  BY <1>6 DEF AutoSubscribe, msgVars, MarkedIsSent
<1>7. ASSUME NEW c \in Clients, Disconnect(c) PROVE MarkedIsSent'
  BY <1>7 DEF Disconnect, msgVars, MarkedIsSent
<1>8. ASSUME NEW c \in Clients, TakeMessage(c) PROVE MarkedIsSent'
  BY <1>8 DEF TakeMessage, msgVars, histVars, MarkedIsSent
<1>9. ASSUME NEW c \in Clients, NEW f \in Requests, Ask(c, f) PROVE MarkedIsSent'
  BY <1>9 DEF Ask, msgVars, histVars, MarkedIsSent
<1>10. ASSUME NEW c \in Clients, NEW f \in Filters, Unsubscribe(c, f) PROVE MarkedIsSent'
  BY <1>10 DEF Unsubscribe, msgVars, MarkedIsSent
<1>11. ASSUME NEW c \in Clients, NEW f \in Filters, StartFilter(c, f) PROVE MarkedIsSent'
  <2>1. load[c] = None /\ marks' = marks /\ sent' = sent /\ missed \subseteq missed'
    BY <1>11 DEF StartFilter, msgVars
  <2>2. load' = load \/ load' = [load EXCEPT ![c] = NewLoad(f)]
    BY <1>11 DEF StartFilter
  <2>3. ASSUME NEW p \in marks
        PROVE  \/ p[2] \in sent[p[1]]
               \/ load'[p[1]] # None /\ p[2] \in load'[p[1]].got
               \/ <<p[1], p[2], "failed">> \in missed
    <3>1. CASE p[1] = c
      BY <2>1, <3>1 DEF MarkedIsSent
    <3>2. CASE p[1] # c
      BY <2>2, <3>2 DEF MarkedIsSent, TypeOK, MessageType, LoadType
    <3>3. QED  BY <3>1, <3>2
  <2>4. QED  BY <2>1, <2>3 DEF MarkedIsSent
<1>12. ASSUME NEW c \in Clients, LoadLocal(c) PROVE MarkedIsSent'
  <2>1. sent' = sent /\ missed' = missed
    BY <1>12 DEF LoadLocal
  <2>2. load[c] # None /\ load'[c] # None /\ load[c].got = {}
    BY <1>12, LocalRead, NoneFacts DEF LoadLocal, LoadOk
  <2>3. ASSUME NEW p \in marks'
        PROVE  \/ p[2] \in sent[p[1]]
               \/ load'[p[1]] # None /\ p[2] \in load'[p[1]].got
               \/ <<p[1], p[2], "failed">> \in missed
    <3>1. CASE p \in marks
      BY <1>12, <2>2, <3>1, LocalRead DEF MarkedIsSent, TypeOK, MessageType
    <3>2. CASE p \notin marks
      <4>1. p[1] = c /\ p[2] \in Hits(sess[c].node, c, load[c].f)
        BY <1>12, <3>2 DEF LoadLocal
      <4>2. QED  BY <1>12, <2>2, <4>1, LocalRead
    <3>3. QED  BY <3>1, <3>2
  <2>4. QED  BY <2>1, <2>3 DEF MarkedIsSent
<1>13. ASSUME NEW c \in Clients, LoadEnd(c) PROVE MarkedIsSent'
  <2>1. marks' = marks /\ missed \subseteq missed' /\ \A d \in Clients : sent[d] \subseteq sent'[d]
    BY <1>13 DEF LoadEnd, msgVars, TypeOK, HistoryType
  <2>2. \A d \in Clients : d # c => load'[d] = load[d]
    BY <1>13 DEF LoadEnd, TypeOK, LoadType
  <2>3. ASSUME NEW p \in marks, p[1] = c, p[2] \in load[c].got
        PROVE  p[2] \in sent'[c] \/ <<c, p[2], "failed">> \in missed'
    BY <1>13, <2>3 DEF LoadEnd, TypeOK, HistoryType, MessageType
  <2>4. QED  BY <2>1, <2>2, <2>3 DEF MarkedIsSent, TypeOK, MessageType
<1>14. ASSUME NEW g \in gets, PeerGet(g) PROVE MarkedIsSent'
  <2>1. sent' = sent /\ missed \subseteq missed'
    BY <1>14 DEF PeerGet
  <2>2. ASSUME NEW p \in marks'
        PROVE  \/ p[2] \in sent[p[1]]
               \/ load'[p[1]] # None /\ p[2] \in load'[p[1]].got
               \/ <<p[1], p[2], "failed">> \in missed'
    <3>1. p \in marks \/ (p[1] = g.c /\ p[2] \in Hits(g.node, g.c, g.f))
      <4>1. marks' = marks \cup ({g.c} \X Hits(g.node, g.c, g.f))
        BY <1>14 DEF PeerGet
      <4>2. QED  BY <4>1
    <3>2. CASE g.live
      <4>1. CASE p \in marks
        BY <1>14, <2>1, <3>2, <4>1, Answered, NoneFacts DEF MarkedIsSent, TypeOK, MessageType
      <4>2. CASE p[1] = g.c /\ p[2] \in Hits(g.node, g.c, g.f)
        BY <1>14, <3>2, <4>2, Answered, NoneFacts
      <4>3. QED  BY <3>1, <4>1, <4>2
    <3>3. CASE ~ g.live
      <4>1. load' = load
        BY <1>14, <3>3 DEF PeerGet
      <4>2. CASE p \in marks
        BY <2>1, <4>1, <4>2 DEF MarkedIsSent
      <4>3. CASE p[1] = g.c /\ p[2] \in Hits(g.node, g.c, g.f)
        BY <1>14, <3>3, <4>3 DEF PeerGet
      <4>4. QED  BY <3>1, <4>2, <4>3
    <3>4. QED  BY <3>2, <3>3
  <2>3. QED  BY <2>1, <2>2 DEF MarkedIsSent
<1>15. ASSUME NEW g \in gets, Timeout(g) PROVE MarkedIsSent'
  <2>1. sent' = sent /\ missed \subseteq missed' /\ marks' = marks /\ g.live
    BY <1>15 DEF Timeout, msgVars
  <2>2. load'[g.c] # None /\ load'[g.c].got = load[g.c].got
    BY <1>15, <2>1, Answered, NoneFacts
  <2>3. \A d \in Clients : d # g.c => load'[d] = load[d]
    BY <1>15, <2>1, Answered
  <2>4. QED  BY <2>1, <2>2, <2>3 DEF MarkedIsSent, TypeOK, MessageType
<1>16. ASSUME NEW m \in Messages, NEW t \in Topics, NEW n \in Nodes, Forwards(m, t, n)
      PROVE  MarkedIsSent'
  <2>1. /\ marks' = marks /\ load' = load /\ missed \subseteq missed'
        /\ \A d \in Clients : sent[d] \subseteq sent'[d]
    BY <1>16 DEF Forwards, TypeOK, HistoryType
  <2>2. QED  BY <2>1 DEF MarkedIsSent, TypeOK, MessageType
<1>17. ASSUME NEW m \in Messages, Store(m) PROVE MarkedIsSent'
  BY <1>17 DEF Store, MarkedIsSent
<1>18. ASSUME NEW e \in removing, Propose(e) PROVE MarkedIsSent'
  BY <1>18 DEF Propose, msgVars, histVars, MarkedIsSent
<1>19. ASSUME NEW w \in wire, Arrive(w) PROVE MarkedIsSent'
  <2>1. /\ marks' = marks /\ load' = load /\ missed \subseteq missed'
        /\ \A d \in Clients : sent[d] \subseteq sent'[d]
    BY <1>19 DEF Arrive, TypeOK, HistoryType
  <2>2. QED  BY <2>1 DEF MarkedIsSent, TypeOK, MessageType
<1>20. ASSUME NEW w \in wire, LoseForward(w) PROVE MarkedIsSent'
  BY <1>20 DEF LoseForward, MarkedIsSent
<1>21. ASSUME UNCHANGED vars PROVE MarkedIsSent'
  BY <1>21 DEF vars, MarkedIsSent
<1>22. QED
  BY <1>1, <1>2, <1>3, <1>4, <1>5, <1>6, <1>7, <1>8, <1>9, <1>10, <1>11, <1>12, <1>13, <1>14,
     <1>15, <1>16, <1>17, <1>18, <1>19, <1>20, <1>21, StepCases

\* The configuration stays, logins are only added, and a publication keeps its topic.
LEMMA HistoryGrows ==
    ASSUME TypeOK, StageOk, [Next]_vars
    PROVE  /\ conf' = conf
           /\ \A c \in Clients : logins[c] \subseteq logins'[c]
           /\ \A m \in Messages : msg[m].pc # "none" =>
                 msg'[m].pc # "none" /\ msg'[m].topic = msg[m].topic /\ msg'[m].node = msg[m].node
<1>. DEFINE Goal ==
        /\ conf' = conf
        /\ \A d \in Clients : logins[d] \subseteq logins'[d]
        /\ \A i \in Messages : msg[i].pc # "none" =>
              msg'[i].pc # "none" /\ msg'[i].topic = msg[i].topic /\ msg'[i].node = msg[i].node
<1>1. ASSUME NEW c \in Clients, NEW rec \in Records, CreateAccount(c, rec) PROVE Goal
  BY <1>1 DEF CreateAccount, msgVars, histVars
<1>2. ASSUME NEW c \in Clients, DeleteAccount(c) PROVE Goal
  BY <1>2 DEF DeleteAccount, msgVars, histVars
<1>3. ASSUME NEW c \in Clients, NEW n \in Nodes, NEW clean \in BOOLEAN,
             Authenticate(c, n, clean)
      PROVE  Goal
  BY <1>3 DEF Authenticate, msgVars, TypeOK, HistoryType
<1>4. ASSUME NEW c \in Clients, Kick(c) PROVE Goal
  BY <1>4 DEF Kick, msgVars
<1>5. ASSUME NEW c \in Clients, SetSession(c) PROVE Goal
  BY <1>5 DEF SetSession, msgVars, histVars
<1>6. ASSUME NEW c \in Clients, AutoSubscribe(c) PROVE Goal
  BY <1>6 DEF AutoSubscribe, msgVars
<1>7. ASSUME NEW c \in Clients, Disconnect(c) PROVE Goal
  BY <1>7 DEF Disconnect, msgVars
<1>8. ASSUME NEW c \in Clients, TakeMessage(c) PROVE Goal
  BY <1>8 DEF TakeMessage, msgVars, histVars
<1>9. ASSUME NEW c \in Clients, NEW f \in Requests, Ask(c, f) PROVE Goal
  BY <1>9 DEF Ask, msgVars, histVars
<1>10. ASSUME NEW c \in Clients, NEW f \in Filters, Unsubscribe(c, f) PROVE Goal
  BY <1>10 DEF Unsubscribe, msgVars
<1>11. ASSUME NEW c \in Clients, NEW f \in Filters, StartFilter(c, f) PROVE Goal
  BY <1>11 DEF StartFilter, msgVars
<1>12. ASSUME NEW c \in Clients, LoadLocal(c) PROVE Goal
  BY <1>12 DEF LoadLocal
<1>13. ASSUME NEW c \in Clients, LoadEnd(c) PROVE Goal
  BY <1>13 DEF LoadEnd, msgVars
<1>14. ASSUME NEW g \in gets, PeerGet(g) PROVE Goal
  BY <1>14 DEF PeerGet
<1>15. ASSUME NEW g \in gets, Timeout(g) PROVE Goal
  BY <1>15 DEF Timeout, msgVars, histVars
<1>16. ASSUME NEW m \in Messages, NEW t \in Topics, NEW n \in Nodes, Forwards(m, t, n)
       PROVE  Goal
  BY <1>16 DEF Forwards, TypeOK, MessageType, Publication
<1>17. ASSUME NEW m \in Messages, Store(m) PROVE Goal
  BY <1>17 DEF Store, TypeOK, MessageType, Publication
<1>18. ASSUME NEW e \in removing, Propose(e) PROVE Goal
  BY <1>18 DEF Propose, msgVars, histVars
<1>19. ASSUME NEW w \in wire, Arrive(w) PROVE Goal
  BY <1>19 DEF Arrive
<1>20. ASSUME NEW w \in wire, LoseForward(w) PROVE Goal
  BY <1>20 DEF LoseForward
<1>21. ASSUME UNCHANGED vars PROVE Goal
  BY <1>21 DEF vars
<1>22. QED
  BY <1>1, <1>2, <1>3, <1>4, <1>5, <1>6, <1>7, <1>8, <1>9, <1>10, <1>11, <1>12, <1>13, <1>14,
     <1>15, <1>16, <1>17, <1>18, <1>19, <1>20, <1>21, StepCases

\* A filter once granted to a client, and a message it was once entitled to, stay so.
LEMMA GrantsStay ==
    ASSUME TypeOK, StageOk, [Next]_vars, NEW c \in Clients
    PROVE  /\ \A f : Granted(c, f) => Granted(c, f)'
           /\ \A m \in Messages : Entitled(c, m) => Entitled(c, m)'
<1>1. ASSUME NEW f, Granted(c, f) PROVE Granted(c, f)'
  BY <1>1, HistoryGrows DEF Granted
<1>2. ASSUME NEW m \in Messages, Entitled(c, m) PROVE Entitled(c, m)'
  BY <1>2, HistoryGrows DEF Entitled
<1>3. QED  BY <1>1, <1>2

\* A client a step does not concern keeps what it was granted.
LEMMA GrantedFrame ==
    ASSUME TypeOK, StageOk, [Next]_vars, NEW c \in Clients, GrantedOf(c),
           sess'[c] = sess[c], hello'[c] = hello[c], inbox'[c] = inbox[c], work'[c] = work[c],
           \/ load'[c] = None
           \/ load[c] # None /\ load'[c].f = load[c].f
    PROVE  GrantedOf(c)'
BY GrantsStay DEF GrantedOf

\* StartFilter: the session it is for, and when the filter is granted.
LEMMA StartSession ==
    ASSUME TypeOK, StageOk, NEW c \in Clients, NEW f \in Filters, StartFilter(c, f)
    PROVE  sess[c] \in Session /\ stage[c] = "up" /\ f \in work[c].rest /\ load[c] = None
BY DEF StartFilter, NoWork, StageOk, StageOf, TypeOK, LinkType

\* A filter that is subscribed to was granted, now or when it was first subscribed to.
LEMMA StartGranted ==
    ASSUME TypeOK, StageOk, conf.auth, conf.acl, GrantedOk,
           NEW c \in Clients, NEW f \in Filters, StartFilter(c, f),
           work[c].kind = "carry" \/ MaySubscribe(sess[c].auth, conf.acl, f)
    PROVE  Granted(c, f)
<1>1. CASE work[c].kind = "carry"
  BY <1>1, StartSession DEF GrantedOk, GrantedOf
<1>2. CASE MaySubscribe(sess[c].auth, conf.acl, f)
  <2>1. conf.acl = TRUE
    BY DeliveryAssumption DEF TypeOK, ConfigType, Scenario
  <2>2. QED  BY <1>2, <2>1, StartSession, NoneFacts DEF StageOk, StageOf, Granted
<1>3. QED  BY <1>1, <1>2

\* Every step keeps GrantedOk.
LEMMA GrantedOkKept ==
    ASSUME TypeOK, StageOk, LoadOk, conf.auth, conf.acl, GrantedOk, [Next]_vars
    PROVE  GrantedOk'
<1>1. ASSUME NEW c \in Clients, NEW rec \in Records, CreateAccount(c, rec) PROVE GrantedOk'
  BY <1>1, GrantedFrame DEF CreateAccount, linkVars, GrantedOk
<1>2. ASSUME NEW c \in Clients, DeleteAccount(c) PROVE GrantedOk'
  BY <1>2, GrantedFrame DEF DeleteAccount, linkVars, GrantedOk
<1>3. ASSUME NEW c \in Clients, NEW n \in Nodes, NEW clean \in BOOLEAN,
             Authenticate(c, n, clean)
      PROVE  GrantedOk'
  <2>1. ASSUME NEW d \in Clients, d # c PROVE GrantedOf(d)'
    BY <1>3, <2>1, GrantedFrame DEF Authenticate, GrantedOk, TypeOK, LinkType
  <2>2. GrantedOf(c)'
    BY <1>3, GrantsStay DEF Authenticate, GrantedOk, GrantedOf, TypeOK, LinkType
  <2>3. QED  BY <2>1, <2>2 DEF GrantedOk
<1>4. ASSUME NEW c \in Clients, Kick(c) PROVE GrantedOk'
  <2>1. ASSUME NEW d \in Clients, d # c PROVE GrantedOf(d)'
    BY <1>4, <2>1, GrantedFrame DEF Kick, GrantedOk, TypeOK, LinkType
  <2>2. GrantedOf(c)'
    <3>1. sess'[c] = None /\ inbox'[c] = inbox[c] /\ work'[c] = work[c] /\ load'[c] = load[c]
      BY <1>4 DEF Kick, TypeOK, LinkType
    <3>2. hello'[c].carry = None \/ (sess[c] # None /\ hello'[c].carry = sess[c].subs)
      BY <1>4 DEF Kick, TypeOK, LinkType, Hello
    <3>3. QED  BY <3>1, <3>2, GrantsStay DEF GrantedOk, GrantedOf
  <2>3. QED  BY <2>1, <2>2 DEF GrantedOk
<1>5. ASSUME NEW c \in Clients, SetSession(c) PROVE GrantedOk'
  <2>1. ASSUME NEW d \in Clients, d # c PROVE GrantedOf(d)'
    BY <1>5, <2>1, GrantedFrame DEF SetSession, GrantedOk, TypeOK, LinkType
  <2>2. GrantedOf(c)'
    <3>1. hello'[c] = hello[c] /\ work'[c] = work[c] /\ load'[c] = load[c] /\ sess'[c].subs = {}
      BY <1>5 DEF SetSession, TypeOK, LinkType
    <3>2. \A i \in 1 .. Len(inbox'[c]) :
            inbox'[c][i].filters = hello[c].carry /\ hello[c].carry # None
      BY <1>5 DEF SetSession, TypeOK, LinkType
    <3>3. QED  BY <3>1, <3>2, GrantsStay DEF GrantedOk, GrantedOf
  <2>3. QED  BY <2>1, <2>2 DEF GrantedOk
<1>6. ASSUME NEW c \in Clients, AutoSubscribe(c) PROVE GrantedOk'
  <2>1. ASSUME NEW d \in Clients, d # c PROVE GrantedOf(d)'
    BY <1>6, <2>1, GrantedFrame DEF AutoSubscribe, GrantedOk, TypeOK, LinkType
  <2>2. GrantedOf(c)'
    <3>1. /\ hello'[c].carry = None /\ work'[c] = work[c] /\ load'[c] = load[c] /\ sess'[c] = sess[c]
      BY <1>6 DEF AutoSubscribe, NoHello, TypeOK, LinkType
    <3>2. \A i \in 1 .. Len(inbox'[c]) : inbox'[c][i].kind = "carry" =>
             i \in 1 .. Len(inbox[c]) /\ inbox'[c][i] = inbox[c][i]
      BY <1>6 DEF AutoSubscribe, TypeOK, LinkType
    <3>3. QED  BY <3>1, <3>2, GrantsStay DEF GrantedOk, GrantedOf
  <2>3. QED  BY <2>1, <2>2 DEF GrantedOk
<1>7. ASSUME NEW c \in Clients, Disconnect(c) PROVE GrantedOk'
  <2>1. ASSUME NEW d \in Clients, d # c PROVE GrantedOf(d)'
    BY <1>7, <2>1, GrantedFrame DEF Disconnect, GrantedOk, TypeOK, LinkType
  <2>2. GrantedOf(c)'
    BY <1>7, GrantsStay DEF Disconnect, GrantedOk, GrantedOf, TypeOK, LinkType
  <2>3. QED  BY <2>1, <2>2 DEF GrantedOk
<1>8. ASSUME NEW c \in Clients, TakeMessage(c) PROVE GrantedOk'
  <2>1. ASSUME NEW d \in Clients, d # c PROVE GrantedOf(d)'
    BY <1>8, <2>1, GrantedFrame DEF TakeMessage, GrantedOk, TypeOK, LinkType
  <2>2. GrantedOf(c)'
    <3>1. /\ sess'[c] = sess[c] /\ hello'[c] = hello[c] /\ load'[c] = load[c]
          /\ inbox'[c] = Tail(inbox[c]) /\ inbox[c] # <<>> /\ inbox[c] \in Seq(Item)
          /\ work'[c] = Job(inbox[c][1].kind, inbox[c][1].filters)
      BY <1>8 DEF TakeMessage, TypeOK, LinkType
    <3>2. work'[c].kind = "carry" => inbox[c][1].kind = "carry" /\ work'[c].rest = inbox[c][1].filters
      BY <3>1 DEF Job, NoWork
    <3>3. 1 \in 1 .. Len(inbox[c])
      BY <3>1
    <3>4. \A i \in 1 .. Len(inbox'[c]) :
            i + 1 \in 1 .. Len(inbox[c]) /\ inbox'[c][i] = inbox[c][i + 1]
      BY <3>1
    <3>5. QED  BY <3>1, <3>2, <3>3, <3>4, GrantsStay DEF GrantedOk, GrantedOf
  <2>3. QED  BY <2>1, <2>2 DEF GrantedOk
<1>9. ASSUME NEW c \in Clients, NEW f \in Requests, Ask(c, f) PROVE GrantedOk'
  <2>1. ASSUME NEW d \in Clients, d # c PROVE GrantedOf(d)'
    BY <1>9, <2>1, GrantedFrame DEF Ask, GrantedOk, TypeOK, LinkType
  <2>2. GrantedOf(c)'
    BY <1>9, GrantsStay DEF Ask, Job, NoWork, GrantedOk, GrantedOf, TypeOK, LinkType
  <2>3. QED  BY <2>1, <2>2 DEF GrantedOk
<1>10. ASSUME NEW c \in Clients, NEW f \in Filters, Unsubscribe(c, f) PROVE GrantedOk'
  <2>1. ASSUME NEW d \in Clients, d # c PROVE GrantedOf(d)'
    BY <1>10, <2>1, GrantedFrame DEF Unsubscribe, GrantedOk, TypeOK, LinkType
  <2>2. GrantedOf(c)'
    <3>1. sess[c] \in Session
      BY <1>10 DEF Unsubscribe, Idle, StageOk, StageOf, TypeOK, LinkType
    <3>2. sess'[c].subs = sess[c].subs \ {f} /\ sess[c] # None
      BY <1>10, <3>1, NoneFacts DEF Unsubscribe, TypeOK, LinkType, Session
    <3>3. QED  BY <1>10, <3>2, GrantsStay DEF Unsubscribe, GrantedOk, GrantedOf
  <2>3. QED  BY <2>1, <2>2 DEF GrantedOk
<1>11. ASSUME NEW c \in Clients, NEW f \in Filters, StartFilter(c, f) PROVE GrantedOk'
  <2>1. ASSUME NEW d \in Clients, d # c PROVE GrantedOf(d)'
    BY <1>11, <2>1, GrantedFrame DEF StartFilter, GrantedOk, TypeOK, LinkType, LoadType
  <2>2. GrantedOf(c)'
    <3>1. sess[c] \in Session
      BY <1>11, StartSession
    <3>2. hello'[c] = hello[c] /\ inbox'[c] = inbox[c]
      BY <1>11 DEF StartFilter
    <3>3. f \in work[c].rest /\ work'[c] = Job(work[c].kind, work[c].rest \ {f})
      BY <1>11 DEF StartFilter, TypeOK, LinkType
    <3>4. work'[c].kind = "carry" => work[c].kind = "carry" /\ work'[c].rest \subseteq work[c].rest
      BY <3>3 DEF Job, NoWork
    <3>5. CASE sess' = sess /\ load' = load
      BY <3>2, <3>4, <3>5, GrantsStay DEF GrantedOk, GrantedOf
    <3>6. CASE ~ (sess' = sess /\ load' = load)
      <4>1. work[c].kind = "carry" \/ MaySubscribe(sess[c].auth, conf.acl, f)
        BY <1>11, <3>6 DEF StartFilter
      <4>2. Granted(c, f)
        BY <1>11, <4>1, StartGranted
      <4>3. sess'[c].subs = sess[c].subs \cup {f} /\ load'[c].f = f
        <5>1. /\ sess' = [sess EXCEPT ![c].subs = sess[c].subs \cup {f}]
              /\ load' = [load EXCEPT ![c] = NewLoad(f)]
          BY <1>11, <3>6 DEF StartFilter, TypeOK, LinkType
        <5>2. sess[c].subs \cup {f} \in SUBSET Filters
          BY <3>1 DEF Session
        <5>3. QED  BY <3>1, <5>1, <5>2, SubsUpdate DEF NewLoad, TypeOK, LoadType
      <4>4. QED  BY <3>1, <3>2, <3>4, <4>2, <4>3, NoneFacts, GrantsStay DEF GrantedOk, GrantedOf
    <3>7. QED  BY <3>5, <3>6
  <2>3. QED  BY <2>1, <2>2 DEF GrantedOk
<1>12. ASSUME NEW c \in Clients, LoadLocal(c) PROVE GrantedOk'
  BY <1>12, LocalRead, NoneFacts, GrantedFrame DEF LoadLocal, linkVars, GrantedOk
<1>13. ASSUME NEW c \in Clients, LoadEnd(c) PROVE GrantedOk'
  BY <1>13, GrantedFrame DEF LoadEnd, linkVars, GrantedOk, TypeOK, LoadType
<1>14. ASSUME NEW g \in gets, PeerGet(g) PROVE GrantedOk'
  <2>1. CASE ~ g.live
    BY <1>14, <2>1, GrantedFrame DEF PeerGet, linkVars, GrantedOk
  <2>2. CASE g.live
    <3>1. \A d \in Clients : load'[d] = load[d] \/ (load[d] # None /\ load'[d].f = load[d].f)
      BY <1>14, <2>2, Answered, NoneFacts
    <3>2. QED  BY <1>14, <3>1, GrantedFrame DEF PeerGet, linkVars, GrantedOk
  <2>3. QED  BY <2>1, <2>2
<1>15. ASSUME NEW g \in gets, Timeout(g) PROVE GrantedOk'
  <2>1. g.live
    BY <1>15 DEF Timeout
  <2>2. QED  BY <1>15, <2>1, Answered, NoneFacts, GrantedFrame DEF Timeout, linkVars, GrantedOk
<1>16. ASSUME NEW m \in Messages, NEW t \in Topics, NEW n \in Nodes, Forwards(m, t, n)
      PROVE  GrantedOk'
  BY <1>16, GrantedFrame DEF Forwards, linkVars, GrantedOk
<1>17. ASSUME NEW m \in Messages, Store(m) PROVE GrantedOk'
  BY <1>17, GrantedFrame DEF Store, linkVars, GrantedOk
<1>18. ASSUME NEW e \in removing, Propose(e) PROVE GrantedOk'
  BY <1>18, GrantedFrame DEF Propose, linkVars, GrantedOk
<1>19. ASSUME NEW w \in wire, Arrive(w) PROVE GrantedOk'
  BY <1>19, GrantedFrame DEF Arrive, linkVars, GrantedOk
<1>20. ASSUME NEW w \in wire, LoseForward(w) PROVE GrantedOk'
  BY <1>20, GrantedFrame DEF LoseForward, linkVars, GrantedOk
<1>21. ASSUME UNCHANGED vars PROVE GrantedOk'
  BY <1>21, GrantedFrame DEF vars, GrantedOk
<1>22. QED
  BY <1>1, <1>2, <1>3, <1>4, <1>5, <1>6, <1>7, <1>8, <1>9, <1>10, <1>11, <1>12, <1>13, <1>14,
     <1>15, <1>16, <1>17, <1>18, <1>19, <1>20, <1>21, StepCases

\* A route in the log stays granted.
LEMMA OldRoutesStay ==
    ASSUME TypeOK, StageOk, [Next]_vars, RoutesOk
    PROVE  \A i \in 1 .. Len(rlog) : rlog[i].op = "add" =>
              \A d, h : d = rlog[i].c /\ h = rlog[i].f => Granted(d, h)'
<1>. SUFFICES ASSUME NEW i \in 1 .. Len(rlog), rlog[i].op = "add", NEW d, NEW h,
                     d = rlog[i].c, h = rlog[i].f
              PROVE  Granted(d, h)'
  OBVIOUS
<1>1. d \in Clients
  <2>1. rlog[i] \in Entry
    BY DEF TypeOK, RouteType
  <2>2. QED  BY <2>1 DEF Entry
<1>2. Granted(d, h)
  BY DEF RoutesOk
<1>3. QED  BY <1>1, <1>2, GrantsStay

\* A step that adds no route and no request leaves them granted.
LEMMA RoutesFrame ==
    ASSUME TypeOK, StageOk, [Next]_vars, RoutesOk, rlog' = rlog,
           \A h \in gets' : \E i \in gets : h.c = i.c /\ h.f = i.f
    PROVE  RoutesOk'
<1>1. \A i \in 1 .. Len(rlog) : rlog[i].op = "add" =>
          \A d, h : d = rlog[i].c /\ h = rlog[i].f => Granted(d, h)'
  BY OldRoutesStay
<1>2. \A g \in gets : Granted(g.c, g.f)'
  BY GrantsStay DEF RoutesOk, TypeOK, LoadType, Get
<1>3. QED  BY <1>1, <1>2 DEF RoutesOk

\* Every step keeps RoutesOk.
LEMMA RoutesOkKept ==
    ASSUME TypeOK, StageOk, LoadOk, conf.auth, conf.acl, GrantedOk, RoutesOk, [Next]_vars
    PROVE  RoutesOk'
<1>1. ASSUME NEW c \in Clients, NEW rec \in Records, CreateAccount(c, rec) PROVE RoutesOk'
  BY <1>1, RoutesFrame DEF CreateAccount, routeVars, RoutesOk
<1>2. ASSUME NEW c \in Clients, DeleteAccount(c) PROVE RoutesOk'
  BY <1>2, RoutesFrame DEF DeleteAccount, routeVars, RoutesOk
<1>3. ASSUME NEW c \in Clients, NEW n \in Nodes, NEW clean \in BOOLEAN,
             Authenticate(c, n, clean)
      PROVE  RoutesOk'
  BY <1>3, RoutesFrame DEF Authenticate, routeVars, RoutesOk
<1>4. ASSUME NEW c \in Clients, Kick(c) PROVE RoutesOk'
  BY <1>4, RoutesFrame DEF Kick, RoutesOk
<1>5. ASSUME NEW c \in Clients, SetSession(c) PROVE RoutesOk'
  BY <1>5, RoutesFrame DEF SetSession, routeVars, RoutesOk
<1>6. ASSUME NEW c \in Clients, AutoSubscribe(c) PROVE RoutesOk'
  BY <1>6, RoutesFrame DEF AutoSubscribe, routeVars, RoutesOk
<1>7. ASSUME NEW c \in Clients, Disconnect(c) PROVE RoutesOk'
  BY <1>7, RoutesFrame DEF Disconnect, RoutesOk
<1>8. ASSUME NEW c \in Clients, TakeMessage(c) PROVE RoutesOk'
  BY <1>8, RoutesFrame DEF TakeMessage, routeVars, RoutesOk
<1>9. ASSUME NEW c \in Clients, NEW f \in Requests, Ask(c, f) PROVE RoutesOk'
  BY <1>9, RoutesFrame DEF Ask, routeVars, RoutesOk
<1>10. ASSUME NEW c \in Clients, NEW f \in Filters, Unsubscribe(c, f) PROVE RoutesOk'
  BY <1>10, RoutesFrame DEF Unsubscribe, RoutesOk
<1>11. ASSUME NEW c \in Clients, NEW f \in Filters, StartFilter(c, f) PROVE RoutesOk'
  <2>1. \A i \in 1 .. Len(rlog) : rlog[i].op = "add" =>
          \A d, h : d = rlog[i].c /\ h = rlog[i].f => Granted(d, h)'
    BY OldRoutesStay
  <2>2. gets' = gets /\ \A g \in gets : Granted(g.c, g.f)'
    BY <1>11, GrantsStay DEF StartFilter, RoutesOk, TypeOK, LoadType, Get
  <2>3. CASE rlog' = rlog
    BY <2>1, <2>2, <2>3 DEF RoutesOk
  <2>4. CASE rlog' # rlog
    <3>1. AddRoute(c, f) /\ Granted(c, f)
      BY <1>11, <2>4, StartGranted DEF StartFilter
    <3>2. /\ Len(rlog') = Len(rlog) + 1 /\ Len(rlog) \in Nat
          /\ rlog'[Len(rlog')].c = c /\ rlog'[Len(rlog')].f = f
          /\ \A i \in 1 .. Len(rlog) : rlog'[i] = rlog[i]
      BY <3>1 DEF AddRoute, TypeOK, RouteType
    <3>3. QED  BY <2>1, <2>2, <3>1, <3>2, GrantsStay DEF RoutesOk
  <2>5. QED  BY <2>3, <2>4
<1>12. ASSUME NEW c \in Clients, LoadLocal(c) PROVE RoutesOk'
  <2>1. \A i \in 1 .. Len(rlog) : rlog[i].op = "add" =>
          \A d, h : d = rlog[i].c /\ h = rlog[i].f => Granted(d, h)'
    BY OldRoutesStay
  <2>2. ASSUME NEW g \in gets' PROVE Granted(g.c, g.f)'
    <3>1. CASE g \in gets
      BY <3>1, GrantsStay DEF RoutesOk, TypeOK, LoadType, Get
    <3>2. CASE g \notin gets
      <4>1. g.c = c /\ g.f = load[c].f /\ load[c] # None
        BY <1>12, <3>2 DEF LoadLocal
      <4>2. QED  BY <4>1, GrantsStay DEF GrantedOk, GrantedOf
    <3>3. QED  BY <3>1, <3>2
  <2>3. QED  BY <1>12, <2>1, <2>2 DEF LoadLocal, routeVars, RoutesOk
<1>13. ASSUME NEW c \in Clients, LoadEnd(c) PROVE RoutesOk'
  BY <1>13, RoutesFrame DEF LoadEnd, routeVars, RoutesOk
<1>14. ASSUME NEW g \in gets, PeerGet(g) PROVE RoutesOk'
  BY <1>14, RoutesFrame DEF PeerGet, routeVars
<1>15. ASSUME NEW g \in gets, Timeout(g) PROVE RoutesOk'
  <2>1. \A h \in gets' : \E i \in gets : h.c = i.c /\ h.f = i.f
    BY <1>15 DEF Timeout, TypeOK, LoadType, Get
  <2>2. QED  BY <1>15, <2>1, RoutesFrame DEF Timeout, routeVars
<1>16. ASSUME NEW m \in Messages, NEW t \in Topics, NEW n \in Nodes, Forwards(m, t, n)
      PROVE  RoutesOk'
  BY <1>16, RoutesFrame DEF Forwards, RoutesOk
<1>17. ASSUME NEW m \in Messages, Store(m) PROVE RoutesOk'
  BY <1>17, RoutesFrame DEF Store, routeVars, RoutesOk
<1>18. ASSUME NEW e \in removing, Propose(e) PROVE RoutesOk'
  <2>1. \A i \in 1 .. Len(rlog) : rlog[i].op = "add" =>
          \A d, h : d = rlog[i].c /\ h = rlog[i].f => Granted(d, h)'
    BY OldRoutesStay
  <2>2. gets' = gets /\ \A g \in gets : Granted(g.c, g.f)'
    BY <1>18, GrantsStay DEF Propose, RoutesOk, TypeOK, LoadType, Get
  <2>3. /\ Len(rlog') = Len(rlog) + 1 /\ Len(rlog) \in Nat
        /\ rlog'[Len(rlog')].op = "remove"
        /\ \A i \in 1 .. Len(rlog) : rlog'[i] = rlog[i]
    BY <1>18 DEF Propose, TypeOK, RouteType
  <2>4. QED  BY <2>1, <2>2, <2>3 DEF RoutesOk
<1>19. ASSUME NEW w \in wire, Arrive(w) PROVE RoutesOk'
  BY <1>19, RoutesFrame DEF Arrive, routeVars, RoutesOk
<1>20. ASSUME NEW w \in wire, LoseForward(w) PROVE RoutesOk'
  BY <1>20, RoutesFrame DEF LoseForward, routeVars, RoutesOk
<1>21. ASSUME UNCHANGED vars PROVE RoutesOk'
  BY <1>21, RoutesFrame DEF vars, RoutesOk
<1>22. QED
  BY <1>1, <1>2, <1>3, <1>4, <1>5, <1>6, <1>7, <1>8, <1>9, <1>10, <1>11, <1>12, <1>13, <1>14,
     <1>15, <1>16, <1>17, <1>18, <1>19, <1>20, <1>21, StepCases

\* A granted filter only matches topics of an account the client was admitted with.
LEMMA MatchEntitles ==
    ASSUME TypeOK, NEW c \in Clients, NEW f \in Filters, NEW t \in Topics, Granted(c, f),
           StoreMatches(t, f) \/ RouteMatches(t, f)
    PROVE  \E rec \in logins[c] : Belongs(t, rec)
<1>1. PICK rec \in logins[c] : MaySubscribe(AuthInfo(rec), TRUE, f)
  BY DEF Granted
<1>2. rec \in Account /\ t \in Topic /\ ValidFilter(f)
  BY FilterFacts, AuthFacts, DeliveryAssumption DEF TypeOK, HistoryType
<1>3. Belongs(t, rec)
  BY <1>1, <1>2, RulesAdmitOwnTopics
<1>4. QED  BY <1>3

\* What get returns for a granted filter the client is entitled to.
LEMMA HitsEntitled ==
    ASSUME TypeOK, NEW c \in Clients, NEW f \in Filters, Granted(c, f),
           NEW n, NEW m \in Hits(n, c, f)
    PROVE  Entitled(c, m)
<1>1. m \in Messages /\ msg[m].pc = "done" /\ StoreMatches(msg[m].topic, f)
  BY DEF Hits, Stored
<1>2. msg[m].topic \in Topics
  BY <1>1 DEF TypeOK, MessageType
<1>3. QED  BY <1>1, <1>2, MatchEntitles DEF Entitled

\* A publication is routed to clients that are entitled to it.
LEMMA TargetsEntitled ==
    ASSUME TypeOK, RoutesOk, NEW k \in 0 .. Len(rlog), NEW t \in Topics, NEW c \in Clients,
           NEW n \in Targets(k, t, c)
    PROVE  \E rec \in logins[c] : Belongs(t, rec)
<1>1. PICK f \in Filters : RouteMatches(t, f) /\ n \in Routes(k, c, f)
  BY DEF Targets
<1>2. PICK i \in 1 .. k : rlog[i].op = "add" /\ rlog[i].c = c /\ rlog[i].f = f
  BY <1>1 DEF Routes
<1>3. i \in 1 .. Len(rlog)
  BY DEF TypeOK, RouteType
<1>4. Granted(c, f)
  BY <1>2, <1>3 DEF RoutesOk
<1>5. QED  BY <1>1, <1>4, MatchEntitles

\* A step that hands over, loads and forwards nothing new.
LEMMA EntitledFrame ==
    ASSUME TypeOK, StageOk, [Next]_vars, EntitledOk, sent' = sent, wire' \subseteq wire,
           \A c \in Clients :
              \/ load'[c] = None
              \/ load'[c].got = {}
              \/ load[c] # None /\ load'[c].got = load[c].got
    PROVE  EntitledOk'
<1>1. \A c \in Clients, m \in Messages : Entitled(c, m) => Entitled(c, m)'
  BY GrantsStay
<1>2. \A c \in Clients : sent[c] \subseteq Messages
  BY DEF TypeOK, HistoryType
<1>3. \A c \in Clients : load[c] # None => load[c].got \subseteq Messages
  BY DEF TypeOK, LoadType, Load
<1>4. \A w \in wire : w[1] \in Messages /\ w[2] \in Clients
  BY DEF TypeOK, MessageType
<1>5. QED  BY <1>1, <1>2, <1>3, <1>4 DEF EntitledOk

\* Every step keeps EntitledOk.
LEMMA EntitledOkKept ==
    ASSUME TypeOK, StageOk, LoadOk, conf.auth, conf.acl, GrantedOk, RoutesOk, EntitledOk,
           [Next]_vars
    PROVE  EntitledOk'
<1>1. ASSUME NEW c \in Clients, NEW rec \in Records, CreateAccount(c, rec) PROVE EntitledOk'
  BY <1>1, EntitledFrame DEF CreateAccount, msgVars, histVars, EntitledOk
<1>2. ASSUME NEW c \in Clients, DeleteAccount(c) PROVE EntitledOk'
  BY <1>2, EntitledFrame DEF DeleteAccount, msgVars, histVars, EntitledOk
<1>3. ASSUME NEW c \in Clients, NEW n \in Nodes, NEW clean \in BOOLEAN,
             Authenticate(c, n, clean)
      PROVE  EntitledOk'
  BY <1>3, EntitledFrame DEF Authenticate, msgVars, EntitledOk
<1>4. ASSUME NEW c \in Clients, Kick(c) PROVE EntitledOk'
  BY <1>4, EntitledFrame DEF Kick, msgVars, EntitledOk
<1>5. ASSUME NEW c \in Clients, SetSession(c) PROVE EntitledOk'
  BY <1>5, EntitledFrame DEF SetSession, msgVars, histVars, EntitledOk
<1>6. ASSUME NEW c \in Clients, AutoSubscribe(c) PROVE EntitledOk'
  BY <1>6, EntitledFrame DEF AutoSubscribe, msgVars, EntitledOk
<1>7. ASSUME NEW c \in Clients, Disconnect(c) PROVE EntitledOk'
  BY <1>7, EntitledFrame DEF Disconnect, msgVars, EntitledOk
<1>8. ASSUME NEW c \in Clients, TakeMessage(c) PROVE EntitledOk'
  BY <1>8, EntitledFrame DEF TakeMessage, msgVars, histVars, EntitledOk
<1>9. ASSUME NEW c \in Clients, NEW f \in Requests, Ask(c, f) PROVE EntitledOk'
  BY <1>9, EntitledFrame DEF Ask, msgVars, histVars, EntitledOk
<1>10. ASSUME NEW c \in Clients, NEW f \in Filters, Unsubscribe(c, f) PROVE EntitledOk'
  BY <1>10, EntitledFrame DEF Unsubscribe, msgVars, EntitledOk
<1>11. ASSUME NEW c \in Clients, NEW f \in Filters, StartFilter(c, f) PROVE EntitledOk'
  <2>1. load' = load \/ load' = [load EXCEPT ![c] = NewLoad(f)]
    BY <1>11 DEF StartFilter
  <2>2. ASSUME NEW d \in Clients
        PROVE  \/ load'[d] = None
               \/ load'[d].got = {}
               \/ load[d] # None /\ load'[d].got = load[d].got
    BY <2>1 DEF NewLoad, TypeOK, LoadType
  <2>3. sent' = sent /\ wire' = wire
    BY <1>11 DEF StartFilter, msgVars
  <2>4. QED  BY <2>2, <2>3, EntitledFrame
<1>12. ASSUME NEW c \in Clients, LoadLocal(c) PROVE EntitledOk'
  <2>1. \A d \in Clients, i \in Messages : Entitled(d, i) => Entitled(d, i)'
    BY GrantsStay
  <2>2. sent' = sent /\ wire' = wire /\ load[c] # None
    BY <1>12 DEF LoadLocal
  <2>3. Hits(sess[c].node, c, load[c].f) \subseteq Messages
    BY DEF Hits, Stored
  <2>4. \A i \in Hits(sess[c].node, c, load[c].f) : Entitled(c, i)
    BY <1>12, LocalRead, <2>2, HitsEntitled DEF GrantedOk, GrantedOf, Load
  <2>5. ASSUME NEW d \in Clients, load'[d] # None, NEW i \in load'[d].got PROVE Entitled(d, i)'
    <3>1. CASE d = c
      BY <1>12, <2>1, <2>3, <2>4, <2>5, <3>1, LocalRead
    <3>2. CASE d # c
      <4>1. load[d] # None /\ i \in load[d].got /\ i \in Messages
        BY <1>12, <2>5, <3>2, LocalRead DEF TypeOK, LoadType, Load
      <4>2. QED  BY <2>1, <4>1 DEF EntitledOk
    <3>3. QED  BY <3>1, <3>2
  <2>6. QED  BY <2>1, <2>2, <2>5 DEF EntitledOk, TypeOK, HistoryType, MessageType
<1>13. ASSUME NEW c \in Clients, LoadEnd(c) PROVE EntitledOk'
  <2>1. \A d \in Clients, i \in Messages : Entitled(d, i) => Entitled(d, i)'
    BY GrantsStay
  <2>2. wire' = wire /\ load[c] # None /\ load[c].got \subseteq Messages
    BY <1>13 DEF LoadEnd, msgVars, TypeOK, LoadType, Load
  <2>3. ASSUME NEW d \in Clients, NEW i \in sent'[d] PROVE i \in Messages /\ Entitled(d, i)
    BY <1>13, <2>2 DEF LoadEnd, EntitledOk, TypeOK, HistoryType
  <2>4. ASSUME NEW d \in Clients, load'[d] # None, NEW i \in load'[d].got
        PROVE  i \in Messages /\ Entitled(d, i)
    BY <1>13, <2>4 DEF LoadEnd, EntitledOk, TypeOK, LoadType, Load
  <2>5. QED  BY <2>1, <2>2, <2>3, <2>4 DEF EntitledOk, TypeOK, MessageType
<1>14. ASSUME NEW g \in gets, PeerGet(g) PROVE EntitledOk'
  <2>1. CASE ~ g.live
    BY <1>14, <2>1, EntitledFrame DEF PeerGet, EntitledOk
  <2>2. CASE g.live
    <3>1. \A d \in Clients, i \in Messages : Entitled(d, i) => Entitled(d, i)'
      BY GrantsStay
    <3>2. sent' = sent /\ wire' = wire
      BY <1>14 DEF PeerGet
    <3>3. Hits(g.node, g.c, g.f) \subseteq Messages
      BY DEF Hits, Stored
    <3>4. \A i \in Hits(g.node, g.c, g.f) : Entitled(g.c, i)
      BY <1>14, <2>2, Answered, HitsEntitled DEF RoutesOk
    <3>5. ASSUME NEW d \in Clients, load'[d] # None, NEW i \in load'[d].got
          PROVE  Entitled(d, i)'
      <4>1. CASE d = g.c
        <5>1. i \in load[d].got \/ i \in Hits(g.node, g.c, g.f)
          BY <1>14, <2>2, <3>5, <4>1, Answered
        <5>2. load[d] # None /\ load[d].got \subseteq Messages
          BY <1>14, <2>2, <4>1, Answered, NoneFacts DEF Load
        <5>3. QED  BY <3>1, <3>3, <3>4, <4>1, <5>1, <5>2 DEF EntitledOk
      <4>2. CASE d # g.c
        <5>1. load[d] # None /\ i \in load[d].got /\ i \in Messages
          BY <1>14, <2>2, <3>5, <4>2, Answered DEF TypeOK, LoadType, Load
        <5>2. QED  BY <3>1, <5>1 DEF EntitledOk
      <4>3. QED  BY <4>1, <4>2
    <3>6. QED  BY <3>1, <3>2, <3>5 DEF EntitledOk, TypeOK, HistoryType, MessageType
  <2>3. QED  BY <2>1, <2>2
<1>15. ASSUME NEW g \in gets, Timeout(g) PROVE EntitledOk'
  <2>1. g.live
    BY <1>15 DEF Timeout
  <2>2. \A d \in Clients : load'[d] = load[d] \/ (load[d] # None /\ load'[d].got = load[d].got)
    BY <1>15, <2>1, Answered, NoneFacts
  <2>3. QED  BY <1>15, <2>2, EntitledFrame DEF Timeout, msgVars, histVars
<1>16. ASSUME NEW m \in Messages, NEW t \in Topics, NEW n \in Nodes, Forwards(m, t, n)
      PROVE  EntitledOk'
  <2>1. \A d \in Clients, i \in Messages : Entitled(d, i) => Entitled(d, i)'
    BY GrantsStay
  <2>2. load' = load /\ msg'[m].pc = "store" /\ msg'[m].topic = t /\ logins' = logins
    BY <1>16 DEF Forwards, TypeOK, MessageType
  <2>3. PICK k \in applied[n] .. Len(rlog) :
          /\ wire' = wire \cup UNION {{<<m, d, p>> : p \in Targets(k, t, d) \ {n}} : d \in Clients}
          /\ \A d \in Clients :
                sent'[d] = sent[d] \/ (sent'[d] = sent[d] \cup {m} /\ n \in Targets(k, t, d))
    BY <1>16 DEF Forwards
  <2>4. k \in 0 .. Len(rlog)
    BY DEF TypeOK, RouteType
  <2>5. ASSUME NEW d \in Clients, NEW p \in Targets(k, t, d) PROVE Entitled(d, m)'
    BY <2>2, <2>4, TargetsEntitled DEF Entitled
  <2>6. ASSUME NEW d \in Clients, NEW i \in sent'[d] PROVE Entitled(d, i)'
    <3>1. CASE i \in sent[d]
      BY <2>1, <3>1 DEF EntitledOk, TypeOK, HistoryType
    <3>2. CASE i \notin sent[d]
      <4>1. i = m /\ n \in Targets(k, t, d)
        BY <2>3, <3>2
      <4>2. QED  BY <2>5, <4>1
    <3>3. QED  BY <3>1, <3>2
  <2>7. ASSUME NEW w \in wire' PROVE Entitled(w[2], w[1])'
    <3>1. CASE w \in wire
      BY <2>1, <3>1 DEF EntitledOk, TypeOK, MessageType
    <3>2. CASE w \notin wire
      <4>1. PICK d \in Clients : \E p \in Targets(k, t, d) : w = <<m, d, p>>
        BY <2>3, <3>2
      <4>2. QED  BY <2>5, <4>1
    <3>3. QED  BY <3>1, <3>2
  <2>8. \A d \in Clients : load[d] # None => load[d].got \subseteq Messages
    BY DEF TypeOK, LoadType, Load
  <2>9. QED  BY <2>1, <2>2, <2>6, <2>7, <2>8 DEF EntitledOk
<1>17. ASSUME NEW m \in Messages, Store(m) PROVE EntitledOk'
  BY <1>17, EntitledFrame DEF Store, EntitledOk
<1>18. ASSUME NEW e \in removing, Propose(e) PROVE EntitledOk'
  BY <1>18, EntitledFrame DEF Propose, msgVars, histVars, EntitledOk
<1>19. ASSUME NEW w \in wire, Arrive(w) PROVE EntitledOk'
  <2>1. \A d \in Clients, i \in Messages : Entitled(d, i) => Entitled(d, i)'
    BY GrantsStay
  <2>2. w[1] \in Messages /\ w[2] \in Clients /\ Entitled(w[2], w[1])
    BY <1>19 DEF EntitledOk, TypeOK, MessageType
  <2>3. wire' \subseteq wire /\ load' = load
    BY <1>19 DEF Arrive
  <2>4. ASSUME NEW d \in Clients, NEW i \in sent'[d] PROVE Entitled(d, i) /\ i \in Messages
    BY <1>19, <2>2 DEF Arrive, EntitledOk, TypeOK, HistoryType
  <2>5. \A d \in Clients : load[d] # None => load[d].got \subseteq Messages
    BY DEF TypeOK, LoadType, Load
  <2>6. QED  BY <2>1, <2>3, <2>4, <2>5 DEF EntitledOk, TypeOK, MessageType
<1>20. ASSUME NEW w \in wire, LoseForward(w) PROVE EntitledOk'
  BY <1>20, EntitledFrame DEF LoseForward
<1>21. ASSUME UNCHANGED vars PROVE EntitledOk'
  BY <1>21, EntitledFrame DEF vars, EntitledOk
<1>22. QED
  BY <1>1, <1>2, <1>3, <1>4, <1>5, <1>6, <1>7, <1>8, <1>9, <1>10, <1>11, <1>12, <1>13, <1>14,
     <1>15, <1>16, <1>17, <1>18, <1>19, <1>20, <1>21, StepCases

\* The record of the login grants every filter of its automatic subscription.
LEMMA LoginGrantsAuto ==
    ASSUME TypeOK, NEW rec \in Records, NEW f \in AutoFilters(rec)
    PROVE  MaySubscribe(IF conf.auth THEN AuthInfo(rec) ELSE OpenAuth, conf.acl, f)
<1>1. CASE conf.auth
  <2>1. rec \in Account /\ ValidFilter(f)
    BY FilterFacts, AuthFacts
  <2>2. MaySubscribe(AuthInfo(rec), TRUE, f)
    BY <2>1, AutoSubscriptionGranted
  <2>3. QED  BY <1>1, <2>2 DEF MaySubscribe
<1>2. CASE ~ conf.auth
  BY <1>2 DEF MaySubscribe, OpenAuth
<1>3. QED  BY <1>1, <1>2

\* A connection that is not set up has nothing to do yet.
LEMMA StageEmpty ==
    ASSUME TypeOK, StageOk, NEW c \in Clients, Kick(c)
    PROVE  work'[c].kind = "none" /\ Len(inbox'[c]) = 0
BY DEF Kick, StageOk, StageOf, NoWork

\* Every step keeps AutoOk.
LEMMA AutoOkKept == ASSUME TypeOK, StageOk, LoadOk, AutoOk, [Next]_vars PROVE AutoOk'
<1>1. ASSUME NEW c \in Clients, NEW rec \in Records, CreateAccount(c, rec) PROVE AutoOk'
  BY <1>1 DEF CreateAccount, linkVars, histVars, AutoOk, AutoOf
<1>2. ASSUME NEW c \in Clients, DeleteAccount(c) PROVE AutoOk'
  BY <1>2 DEF DeleteAccount, linkVars, histVars, AutoOk, AutoOf
<1>3. ASSUME NEW c \in Clients, NEW n \in Nodes, NEW clean \in BOOLEAN,
             Authenticate(c, n, clean)
      PROVE  AutoOk'
  BY <1>3 DEF Authenticate, AutoOk, AutoOf
<1>4. ASSUME NEW c \in Clients, Kick(c) PROVE AutoOk'
  <2>1. ASSUME NEW d \in Clients, d # c PROVE AutoOf(d)'
    BY <1>4, <2>1 DEF Kick, AutoOk, AutoOf, TypeOK, LinkType
  <2>2. AutoOf(c)'
    BY <1>4, StageEmpty DEF Kick, AutoOf, StageOk, StageOf, NoWork, AutoOk
  <2>3. QED  BY <2>1, <2>2 DEF AutoOk
<1>5. ASSUME NEW c \in Clients, SetSession(c) PROVE AutoOk'
  <2>1. ASSUME NEW d \in Clients, d # c PROVE AutoOf(d)'
    BY <1>5, <2>1 DEF SetSession, histVars, AutoOk, AutoOf, TypeOK, LinkType
  <2>2. AutoOf(c)'
    <3>1. \A i \in 1 .. Len(inbox'[c]) : inbox'[c][i].kind = "carry"
      BY <1>5 DEF SetSession, TypeOK, LinkType
    <3>2. QED  BY <1>5, <3>1 DEF SetSession, histVars, AutoOk, AutoOf, StageOk, StageOf, NoWork
  <2>3. QED  BY <2>1, <2>2 DEF AutoOk
<1>6. ASSUME NEW c \in Clients, AutoSubscribe(c) PROVE AutoOk'
  <2>1. ASSUME NEW d \in Clients, d # c PROVE AutoOf(d)'
    BY <1>6, <2>1 DEF AutoSubscribe, AutoOk, AutoOf, TypeOK, LinkType, HistoryType
  <2>2. AutoOf(c)'
    <3>1. work'[c].kind = "none" /\ sess' = sess /\ conf' = conf /\ refused'[c] = {}
      BY <1>6 DEF AutoSubscribe, StageOk, StageOf, NoWork, TypeOK, HistoryType
    <3>2. SUFFICES ASSUME steady'[c], NEW i \in 1 .. Len(inbox'[c]), inbox'[c][i].kind = "auto",
                          NEW f \in inbox'[c][i].filters
                   PROVE  MaySubscribe(sess[c].auth, conf.acl, f)
      BY <3>1 DEF AutoOf
    <3>3. account[c] = hello[c].rec
      BY <1>6, <3>2 DEF AutoSubscribe, TypeOK, HistoryType
    <3>4. account[c] \in Records /\ f \in AutoFilters(account[c])
      BY <1>6, <3>2 DEF AutoSubscribe, StageOk, StageOf, TypeOK, LinkType, ConfigType
    <3>5. sess[c].auth = IF conf.auth THEN AuthInfo(account[c]) ELSE OpenAuth
      BY <1>6, <3>3 DEF AutoSubscribe, StageOk, StageOf, HelloAuth
    <3>6. QED  BY <3>4, <3>5, LoginGrantsAuto
  <2>3. QED  BY <2>1, <2>2 DEF AutoOk
<1>7. ASSUME NEW c \in Clients, Disconnect(c) PROVE AutoOk'
  <2>1. ASSUME NEW d \in Clients, d # c PROVE AutoOf(d)'
    BY <1>7, <2>1 DEF Disconnect, AutoOk, AutoOf, TypeOK, LinkType
  <2>2. AutoOf(c)'
    BY <1>7 DEF Disconnect, Idle, AutoOk, AutoOf, NoWork, TypeOK, LinkType
  <2>3. QED  BY <2>1, <2>2 DEF AutoOk
<1>8. ASSUME NEW c \in Clients, TakeMessage(c) PROVE AutoOk'
  <2>1. ASSUME NEW d \in Clients, d # c PROVE AutoOf(d)'
    BY <1>8, <2>1 DEF TakeMessage, histVars, AutoOk, AutoOf, TypeOK, LinkType
  <2>2. AutoOf(c)'
    <3>1. /\ sess' = sess /\ conf' = conf /\ refused' = refused /\ steady' = steady
          /\ inbox'[c] = Tail(inbox[c]) /\ inbox[c] # <<>> /\ inbox[c] \in Seq(Item)
          /\ work'[c] = Job(inbox[c][1].kind, inbox[c][1].filters)
      BY <1>8 DEF TakeMessage, histVars, TypeOK, LinkType
    <3>2. work'[c].kind = "auto" => inbox[c][1].kind = "auto" /\ work'[c].rest = inbox[c][1].filters
      BY <3>1 DEF Job, NoWork
    <3>3. 1 \in 1 .. Len(inbox[c])
      BY <3>1
    <3>4. \A i \in 1 .. Len(inbox'[c]) :
            i + 1 \in 1 .. Len(inbox[c]) /\ inbox'[c][i] = inbox[c][i + 1]
      BY <3>1
    <3>5. QED  BY <3>1, <3>2, <3>3, <3>4 DEF AutoOk, AutoOf
  <2>3. QED  BY <2>1, <2>2 DEF AutoOk
<1>9. ASSUME NEW c \in Clients, NEW f \in Requests, Ask(c, f) PROVE AutoOk'
  <2>1. ASSUME NEW d \in Clients, d # c PROVE AutoOf(d)'
    BY <1>9, <2>1 DEF Ask, histVars, AutoOk, AutoOf, TypeOK, LinkType
  <2>2. AutoOf(c)'
    BY <1>9 DEF Ask, histVars, Job, AutoOk, AutoOf, TypeOK, LinkType
  <2>3. QED  BY <2>1, <2>2 DEF AutoOk
<1>10. ASSUME NEW c \in Clients, NEW f \in Filters, Unsubscribe(c, f) PROVE AutoOk'
  <2>1. ASSUME NEW d \in Clients, d # c PROVE AutoOf(d)'
    BY <1>10, <2>1 DEF Unsubscribe, AutoOk, AutoOf, TypeOK, LinkType
  <2>2. AutoOf(c)'
    <3>1. sess[c] \in Session
      BY <1>10 DEF Unsubscribe, Idle, StageOk, StageOf, TypeOK, LinkType
    <3>2. sess'[c].auth = sess[c].auth
      BY <1>10, <3>1 DEF Unsubscribe, TypeOK, LinkType, Session
    <3>3. QED  BY <1>10, <3>2 DEF Unsubscribe, AutoOk, AutoOf
  <2>3. QED  BY <2>1, <2>2 DEF AutoOk
<1>11. ASSUME NEW c \in Clients, NEW f \in Filters, StartFilter(c, f) PROVE AutoOk'
  <2>1. ASSUME NEW d \in Clients, d # c PROVE AutoOf(d)'
    BY <1>11, <2>1 DEF StartFilter, AutoOk, AutoOf, TypeOK, LinkType, HistoryType
  <2>2. AutoOf(c)'
    <3>1. sess[c] \in Session /\ f \in work[c].rest
      BY <1>11, StartSession
    <3>2. inbox' = inbox /\ conf' = conf /\ steady' = steady
      BY <1>11 DEF StartFilter
    <3>3. sess'[c].auth = sess[c].auth
      BY <1>11, <3>1 DEF StartFilter, TypeOK, LinkType, Session
    <3>4. work'[c] = Job(work[c].kind, work[c].rest \ {f})
      BY <1>11 DEF StartFilter, TypeOK, LinkType
    <3>5. work'[c].kind = "auto" => work[c].kind = "auto" /\ work'[c].rest \subseteq work[c].rest
      BY <3>4 DEF Job, NoWork
    <3>6. steady[c] => refused'[c] = refused[c]
      BY <1>11, <3>1 DEF StartFilter, AutoOk, AutoOf, TypeOK, HistoryType
    <3>7. QED  BY <3>2, <3>3, <3>5, <3>6 DEF AutoOk, AutoOf
  <2>3. QED  BY <2>1, <2>2 DEF AutoOk
<1>12. ASSUME NEW c \in Clients, LoadLocal(c) PROVE AutoOk'
  BY <1>12 DEF LoadLocal, linkVars, AutoOk, AutoOf
<1>13. ASSUME NEW c \in Clients, LoadEnd(c) PROVE AutoOk'
  BY <1>13 DEF LoadEnd, linkVars, AutoOk, AutoOf
<1>14. ASSUME NEW g \in gets, PeerGet(g) PROVE AutoOk'
  BY <1>14 DEF PeerGet, linkVars, AutoOk, AutoOf
<1>15. ASSUME NEW g \in gets, Timeout(g) PROVE AutoOk'
  BY <1>15 DEF Timeout, linkVars, histVars, AutoOk, AutoOf
<1>16. ASSUME NEW m \in Messages, NEW t \in Topics, NEW n \in Nodes, Forwards(m, t, n)
      PROVE  AutoOk'
  BY <1>16 DEF Forwards, linkVars, AutoOk, AutoOf
<1>17. ASSUME NEW m \in Messages, Store(m) PROVE AutoOk'
  BY <1>17 DEF Store, linkVars, AutoOk, AutoOf
<1>18. ASSUME NEW e \in removing, Propose(e) PROVE AutoOk'
  BY <1>18 DEF Propose, linkVars, histVars, AutoOk, AutoOf
<1>19. ASSUME NEW w \in wire, Arrive(w) PROVE AutoOk'
  BY <1>19 DEF Arrive, linkVars, AutoOk, AutoOf
<1>20. ASSUME NEW w \in wire, LoseForward(w) PROVE AutoOk'
  BY <1>20 DEF LoseForward, linkVars, AutoOk, AutoOf
<1>21. ASSUME UNCHANGED vars PROVE AutoOk'
  BY <1>21 DEF vars, AutoOk, AutoOf
<1>22. QED
  BY <1>1, <1>2, <1>3, <1>4, <1>5, <1>6, <1>7, <1>8, <1>9, <1>10, <1>11, <1>12, <1>13, <1>14,
     <1>15, <1>16, <1>17, <1>18, <1>19, <1>20, <1>21, StepCases

\* Marks, what was sent and what was missed are only added.
LEMMA RecordsGrow ==
    ASSUME TypeOK, StageOk, [Next]_vars
    PROVE  /\ marks \subseteq marks' /\ missed \subseteq missed'
           /\ \A c \in Clients : sent[c] \subseteq sent'[c]
<1>. DEFINE Goal ==
        /\ marks \subseteq marks' /\ missed \subseteq missed'
        /\ \A d \in Clients : sent[d] \subseteq sent'[d]
<1>1. ASSUME NEW c \in Clients, NEW rec \in Records, CreateAccount(c, rec) PROVE Goal
  BY <1>1 DEF CreateAccount, msgVars, histVars
<1>2. ASSUME NEW c \in Clients, DeleteAccount(c) PROVE Goal
  BY <1>2 DEF DeleteAccount, msgVars, histVars
<1>3. ASSUME NEW c \in Clients, NEW n \in Nodes, NEW clean \in BOOLEAN,
             Authenticate(c, n, clean)
      PROVE  Goal
  BY <1>3 DEF Authenticate, msgVars
<1>4. ASSUME NEW c \in Clients, Kick(c) PROVE Goal
  BY <1>4 DEF Kick, msgVars
<1>5. ASSUME NEW c \in Clients, SetSession(c) PROVE Goal
  BY <1>5 DEF SetSession, msgVars, histVars
<1>6. ASSUME NEW c \in Clients, AutoSubscribe(c) PROVE Goal
  BY <1>6 DEF AutoSubscribe, msgVars
<1>7. ASSUME NEW c \in Clients, Disconnect(c) PROVE Goal
  BY <1>7 DEF Disconnect, msgVars
<1>8. ASSUME NEW c \in Clients, TakeMessage(c) PROVE Goal
  BY <1>8 DEF TakeMessage, msgVars, histVars
<1>9. ASSUME NEW c \in Clients, NEW f \in Requests, Ask(c, f) PROVE Goal
  BY <1>9 DEF Ask, msgVars, histVars
<1>10. ASSUME NEW c \in Clients, NEW f \in Filters, Unsubscribe(c, f) PROVE Goal
  BY <1>10 DEF Unsubscribe, msgVars
<1>11. ASSUME NEW c \in Clients, NEW f \in Filters, StartFilter(c, f) PROVE Goal
  BY <1>11 DEF StartFilter, msgVars
<1>12. ASSUME NEW c \in Clients, LoadLocal(c) PROVE Goal
  BY <1>12 DEF LoadLocal
<1>13. ASSUME NEW c \in Clients, LoadEnd(c) PROVE Goal
  BY <1>13 DEF LoadEnd, msgVars, TypeOK, HistoryType
<1>14. ASSUME NEW g \in gets, PeerGet(g) PROVE Goal
  BY <1>14 DEF PeerGet
<1>15. ASSUME NEW g \in gets, Timeout(g) PROVE Goal
  BY <1>15 DEF Timeout, msgVars, histVars
<1>16. ASSUME NEW m \in Messages, NEW t \in Topics, NEW n \in Nodes, Forwards(m, t, n)
       PROVE  Goal
  BY <1>16 DEF Forwards, TypeOK, HistoryType
<1>17. ASSUME NEW m \in Messages, Store(m) PROVE Goal
  BY <1>17 DEF Store
<1>18. ASSUME NEW e \in removing, Propose(e) PROVE Goal
  BY <1>18 DEF Propose, msgVars, histVars
<1>19. ASSUME NEW w \in wire, Arrive(w) PROVE Goal
  BY <1>19 DEF Arrive, TypeOK, HistoryType
<1>20. ASSUME NEW w \in wire, LoseForward(w) PROVE Goal
  BY <1>20 DEF LoseForward
<1>21. ASSUME UNCHANGED vars PROVE Goal
  BY <1>21 DEF vars
<1>22. QED
  BY <1>1, <1>2, <1>3, <1>4, <1>5, <1>6, <1>7, <1>8, <1>9, <1>10, <1>11, <1>12, <1>13, <1>14,
     <1>15, <1>16, <1>17, <1>18, <1>19, <1>20, <1>21, StepCases

\* A session a step does not concern keeps its routes.
LEMMA RoutedFrame ==
    ASSUME NEW c \in Clients, RoutedOf(c), rlog' = rlog, since' = since,
           \/ sess'[c] = None
           \/ /\ sess[c] # None /\ sess'[c].subs \subseteq sess[c].subs
              /\ sess'[c].id = sess[c].id /\ sess'[c].node = sess[c].node
    PROVE  RoutedOf(c)'
<1>. SUFFICES ASSUME sess'[c] # None, NEW f \in sess'[c].subs
              PROVE  RoutedTo(c, f)'
  BY DEF RoutedOf
<1>1. RoutedTo(c, f)
  BY DEF RoutedOf
<1>2. ASSUME NEW k, Overtaken(k, c, f) PROVE Overtaken(k, c, f)'
  BY <1>2 DEF Overtaken, Own
<1>3. ASSUME NEW k, NEW i, RoutedAt(k, c, f, i) PROVE RoutedAt(k, c, f, i)'
  BY <1>3 DEF RoutedAt
<1>4. QED  BY <1>1, <1>2, <1>3 DEF RoutedTo

\* A subscription stays routed, or is overtaken, when anything but a route of another session
\* of the client is appended.
LEMMA RoutedAppend ==
    ASSUME TypeOK, NEW c \in Clients, NEW f, RoutedTo(c, f),
           NEW e \in Entry, rlog' = Append(rlog, e), since'[c][f] = since[c][f],
           sess'[c].id = sess[c].id, sess'[c].node = sess[c].node,
           e.c = c /\ e.f = f /\ e.op = "add" => e.id = sess[c].id /\ e.node = sess[c].node
    PROVE  RoutedTo(c, f)'
<1>1. PICK L \in Nat : L = Len(rlog)
  BY DEF TypeOK, RouteType
<1>2. /\ Len(rlog') = L + 1 /\ rlog'[L + 1] = e
      /\ \A j \in 1 .. L : rlog'[j] = rlog[j]
  BY <1>1 DEF TypeOK, RouteType
<1>3. PICK s \in 1 .. L : s = since[c][f]
  BY <1>1 DEF RoutedTo
<1>4. ASSUME NEW k \in s .. L
      PROVE  Overtaken(k, c, f)' \/ \E i \in 1 .. k : RoutedAt(k, c, f, i)'
  <2>1. CASE Overtaken(k, c, f)
    <3>1. PICK i \in s + 1 .. k :
            Own(i, "remove", c, f) /\ \A j \in i + 1 .. k : ~ Own(j, "add", c, f)
      BY <1>3, <2>1 DEF Overtaken
    <3>2. \A j \in 1 .. L : \A op : Own(j, op, c, f)' <=> Own(j, op, c, f)
      BY <1>2 DEF Own
    <3>3. Own(i, "remove", c, f)' /\ \A j \in i + 1 .. k : ~ Own(j, "add", c, f)'
      BY <3>1, <3>2
    <3>4. QED  BY <1>3, <3>3 DEF Overtaken
  <2>2. CASE \E i \in 1 .. k : RoutedAt(k, c, f, i)
    <3>1. PICK i \in 1 .. k : RoutedAt(k, c, f, i)
      BY <2>2
    <3>2. RoutedAt(k, c, f, i)'
      BY <1>2, <3>1 DEF RoutedAt
    <3>3. QED  BY <3>2
  <2>3. QED  BY <1>1, <1>3, <2>1, <2>2 DEF RoutedTo
<1>5. PICK k \in Nat : k = L + 1
  OBVIOUS
<1>6. Overtaken(k, c, f)' \/ \E i \in 1 .. k : RoutedAt(k, c, f, i)'
  <2>1. CASE e.c = c /\ e.f = f /\ e.op = "add"
    <3>1. RoutedAt(k, c, f, k)'
      BY <1>2, <1>5, <2>1 DEF RoutedAt
    <3>2. QED  BY <1>5, <3>1
  <2>2. CASE e.c = c /\ e.f = f /\ e.op = "remove" /\ e.id = sess[c].id
    <3>1. Own(k, "remove", c, f)'
      BY <1>2, <1>5, <2>2 DEF Own
    <3>2. k \in s + 1 .. k
      BY <1>5
    <3>3. QED  BY <1>3, <1>5, <3>1, <3>2 DEF Overtaken
  <2>3. CASE e.c = c /\ e.f = f => e.op = "remove" /\ e.id # sess[c].id
    <3>1. L \in s .. L
      OBVIOUS
    <3>2. CASE Overtaken(L, c, f)
      <4>1. PICK i \in s + 1 .. L :
              Own(i, "remove", c, f) /\ \A j \in i + 1 .. L : ~ Own(j, "add", c, f)
        BY <1>3, <3>2 DEF Overtaken
      <4>2. \A j \in 1 .. L : \A op : Own(j, op, c, f)' <=> Own(j, op, c, f)
        BY <1>2 DEF Own
      <4>3. ~ Own(k, "add", c, f)'
        BY <1>2, <1>5, <2>3 DEF Own
      <4>4. Own(i, "remove", c, f)' /\ \A j \in i + 1 .. k : ~ Own(j, "add", c, f)'
        BY <1>5, <4>1, <4>2, <4>3
      <4>5. i \in s + 1 .. k
        BY <1>5, <4>1
      <4>6. QED  BY <1>3, <4>4, <4>5 DEF Overtaken
    <3>3. CASE \E i \in 1 .. L : RoutedAt(L, c, f, i)
      <4>1. PICK i \in 1 .. L : RoutedAt(L, c, f, i)
        BY <3>3
      <4>2. ASSUME NEW j \in i + 1 .. k, rlog'[j].c = c, rlog'[j].f = f
            PROVE  rlog'[j].op = "remove" /\ rlog'[j].id # sess[c].id
        <5>1. CASE j \in i + 1 .. L
          BY <1>2, <4>1, <4>2, <5>1 DEF RoutedAt
        <5>2. CASE j = L + 1
          BY <1>2, <2>3, <4>2, <5>2
        <5>3. j \in i + 1 .. L \/ j = L + 1
          BY <1>5
        <5>4. QED  BY <5>1, <5>2, <5>3
      <4>3. RoutedAt(k, c, f, i)'
        BY <1>2, <4>1, <4>2 DEF RoutedAt
      <4>4. QED  BY <1>5, <4>1, <4>3
    <3>4. QED  BY <1>1, <1>3, <3>1, <3>2, <3>3 DEF RoutedTo
  <2>4. QED  BY <2>1, <2>2, <2>3 DEF Entry
<1>7. ASSUME NEW l \in s .. L + 1
      PROVE  Overtaken(l, c, f)' \/ \E i \in 1 .. l : RoutedAt(l, c, f, i)'
  <2>1. CASE l \in s .. L
    BY <1>4, <2>1
  <2>2. CASE l = k
    BY <1>6, <2>2
  <2>3. QED  BY <1>5, <1>7, <2>1, <2>2
<1>8. QED  BY <1>2, <1>3, <1>7 DEF RoutedTo

\* Every step keeps RoutedOk.
LEMMA RoutedOkKept ==
    ASSUME TypeOK, StageOk, LoadOk, RoutedOk, [Next]_vars
    PROVE  RoutedOk'
<1>1. ASSUME NEW c \in Clients, NEW rec \in Records, CreateAccount(c, rec) PROVE RoutedOk'
  BY <1>1, RoutedFrame DEF CreateAccount, histVars, linkVars, routeVars, RoutedOk
<1>2. ASSUME NEW c \in Clients, DeleteAccount(c) PROVE RoutedOk'
  BY <1>2, RoutedFrame DEF DeleteAccount, histVars, linkVars, routeVars, RoutedOk
<1>3. ASSUME NEW c \in Clients, NEW n \in Nodes, NEW clean \in BOOLEAN,
             Authenticate(c, n, clean)
      PROVE  RoutedOk'
  BY <1>3, RoutedFrame DEF Authenticate, routeVars, RoutedOk
<1>4. ASSUME NEW c \in Clients, Kick(c) PROVE RoutedOk'
  <2>1. ASSUME NEW d \in Clients, d # c PROVE RoutedOf(d)'
    <3>1. sess'[d] = sess[d] /\ rlog' = rlog /\ since' = since
      BY <1>4, <2>1 DEF Kick, TypeOK, LinkType
    <3>2. QED  BY <3>1, RoutedFrame DEF RoutedOk
  <2>2. RoutedOf(c)'
    BY <1>4 DEF Kick, RoutedOf, TypeOK, LinkType
  <2>3. QED  BY <2>1, <2>2 DEF RoutedOk
<1>5. ASSUME NEW c \in Clients, SetSession(c) PROVE RoutedOk'
  <2>1. ASSUME NEW d \in Clients, d # c PROVE RoutedOf(d)'
    <3>1. sess'[d] = sess[d] /\ rlog' = rlog /\ since' = since
      BY <1>5, <2>1 DEF SetSession, routeVars, histVars, TypeOK, LinkType
    <3>2. QED  BY <3>1, RoutedFrame DEF RoutedOk
  <2>2. RoutedOf(c)'
    BY <1>5 DEF SetSession, RoutedOf, TypeOK, LinkType
  <2>3. QED  BY <2>1, <2>2 DEF RoutedOk
<1>6. ASSUME NEW c \in Clients, AutoSubscribe(c) PROVE RoutedOk'
  BY <1>6, RoutedFrame DEF AutoSubscribe, routeVars, RoutedOk
<1>7. ASSUME NEW c \in Clients, Disconnect(c) PROVE RoutedOk'
  <2>1. ASSUME NEW d \in Clients, d # c PROVE RoutedOf(d)'
    <3>1. sess'[d] = sess[d] /\ rlog' = rlog /\ since' = since
      BY <1>7, <2>1 DEF Disconnect, TypeOK, LinkType
    <3>2. QED  BY <3>1, RoutedFrame DEF RoutedOk
  <2>2. RoutedOf(c)'
    <3>1. CASE sess[c].keep
      BY <1>7, <3>1, RoutedFrame DEF Disconnect, RoutedOk, TypeOK, LinkType
    <3>2. CASE ~ sess[c].keep
      BY <1>7, <3>2 DEF Disconnect, RoutedOf, TypeOK, LinkType
    <3>3. QED  BY <3>1, <3>2
  <2>3. QED  BY <2>1, <2>2 DEF RoutedOk
<1>8. ASSUME NEW c \in Clients, TakeMessage(c) PROVE RoutedOk'
  BY <1>8, RoutedFrame DEF TakeMessage, histVars, routeVars, RoutedOk
<1>9. ASSUME NEW c \in Clients, NEW f \in Requests, Ask(c, f) PROVE RoutedOk'
  BY <1>9, RoutedFrame DEF Ask, histVars, routeVars, RoutedOk
<1>10. ASSUME NEW c \in Clients, NEW f \in Filters, Unsubscribe(c, f) PROVE RoutedOk'
  <2>1. ASSUME NEW d \in Clients, d # c PROVE RoutedOf(d)'
    <3>1. sess'[d] = sess[d] /\ rlog' = rlog /\ since' = since
      BY <1>10, <2>1 DEF Unsubscribe, TypeOK, LinkType
    <3>2. QED  BY <3>1, RoutedFrame DEF RoutedOk
  <2>2. RoutedOf(c)'
    <3>1. sess[c] \in Session
      BY <1>10 DEF Unsubscribe, Idle, StageOk, StageOf, TypeOK, LinkType
    <3>2. /\ sess'[c].subs = sess[c].subs \ {f}
          /\ sess'[c].id = sess[c].id /\ sess'[c].node = sess[c].node
      BY <1>10, <3>1 DEF Unsubscribe, TypeOK, LinkType, Session
    <3>3. rlog' = rlog /\ since' = since
      BY <1>10 DEF Unsubscribe
    <3>4. QED  BY <3>1, <3>2, <3>3, NoneFacts, RoutedFrame DEF RoutedOk
  <2>3. QED  BY <2>1, <2>2 DEF RoutedOk
<1>11. ASSUME NEW c \in Clients, NEW f \in Filters, StartFilter(c, f) PROVE RoutedOk'
  <2>1. sess[c] \in Session
    BY <1>11, StartSession
  <2>2. CASE rlog' = rlog /\ sess' = sess /\ since' = since
    BY <2>1, <2>2, RoutedFrame DEF RoutedOk
  <2>3. CASE ~ (rlog' = rlog /\ sess' = sess /\ since' = since)
    <3>. DEFINE e == [op |-> "add", c |-> c, f |-> f, id |-> sess[c].id, node |-> sess[c].node]
    <3>1. /\ rlog' = Append(rlog, e) /\ sess' = [sess EXCEPT ![c].subs = sess[c].subs \cup {f}]
          /\ since' = [since EXCEPT ![c][f] = IF f \in sess[c].subs THEN since[c][f] ELSE Len(rlog) + 1]
      BY <1>11, <2>3 DEF StartFilter, AddRoute, TypeOK, LinkType
    <3>2. sess[c].subs \cup {f} \in SUBSET Filters /\ e \in Entry
      BY <2>1 DEF Session, Entry
    <3>3. /\ sess'[c] \in Session /\ sess'[c].subs = sess[c].subs \cup {f}
          /\ sess'[c].id = sess[c].id /\ sess'[c].node = sess[c].node
      BY <2>1, <3>1, <3>2, SubsUpdate
    <3>4. \A d \in Clients : d # c => sess'[d] = sess[d]
      BY <3>1 DEF TypeOK, LinkType
    <3>5. ASSUME NEW d \in Clients, sess[d] # None, NEW h \in sess[d].subs PROVE RoutedTo(d, h)'
      <4>1. RoutedTo(d, h) /\ h \in Filters
        BY <3>5 DEF RoutedOk, RoutedOf, TypeOK, LinkType, Session
      <4>2. sess'[d].id = sess[d].id /\ sess'[d].node = sess[d].node
        BY <3>3, <3>4
      <4>3. since'[d][h] = since[d][h]
        BY <3>1, <3>5, <4>1 DEF TypeOK, HistoryType
      <4>4. e.c = d /\ e.f = h /\ e.op = "add" => e.id = sess[d].id /\ e.node = sess[d].node
        OBVIOUS
      <4>5. QED  BY <3>1, <3>2, <4>1, <4>2, <4>3, <4>4, RoutedAppend
    <3>6. CASE f \notin sess[c].subs
      <4>1. PICK k \in Nat : k = Len(rlog')
        BY <3>1, <3>2 DEF TypeOK, RouteType
      <4>2. k = Len(rlog) + 1 /\ k \in 1 .. k /\ rlog'[k] = e
        BY <3>1, <3>2, <4>1 DEF TypeOK, RouteType
      <4>3. since'[c][f] = k
        BY <3>1, <3>6, <4>2 DEF TypeOK, HistoryType
      <4>4. RoutedAt(k, c, f, k)'
        BY <3>3, <4>1, <4>2 DEF RoutedAt
      <4>5. RoutedTo(c, f)'
        BY <4>1, <4>2, <4>3, <4>4 DEF RoutedTo
      <4>6. ASSUME NEW d \in Clients, sess'[d] # None, NEW h \in sess'[d].subs
            PROVE  RoutedTo(d, h)'
        BY <2>1, <3>3, <3>4, <3>5, <4>5, <4>6, NoneFacts
      <4>7. QED  BY <4>6 DEF RoutedOk, RoutedOf
    <3>7. CASE f \in sess[c].subs
      <4>1. ASSUME NEW d \in Clients, sess'[d] # None, NEW h \in sess'[d].subs
            PROVE  RoutedTo(d, h)'
        BY <2>1, <3>3, <3>4, <3>5, <3>7, <4>1, NoneFacts
      <4>2. QED  BY <4>1 DEF RoutedOk, RoutedOf
    <3>8. QED  BY <3>6, <3>7
  <2>4. QED  BY <2>2, <2>3
<1>12. ASSUME NEW c \in Clients, LoadLocal(c) PROVE RoutedOk'
  BY <1>12, RoutedFrame DEF LoadLocal, linkVars, routeVars, RoutedOk
<1>13. ASSUME NEW c \in Clients, LoadEnd(c) PROVE RoutedOk'
  BY <1>13, RoutedFrame DEF LoadEnd, linkVars, routeVars, RoutedOk
<1>14. ASSUME NEW g \in gets, PeerGet(g) PROVE RoutedOk'
  BY <1>14, RoutedFrame DEF PeerGet, linkVars, routeVars, RoutedOk
<1>15. ASSUME NEW g \in gets, Timeout(g) PROVE RoutedOk'
  BY <1>15, RoutedFrame DEF Timeout, linkVars, routeVars, RoutedOk
<1>16. ASSUME NEW m \in Messages, NEW t \in Topics, NEW n \in Nodes, Forwards(m, t, n)
      PROVE  RoutedOk'
  BY <1>16, RoutedFrame DEF Forwards, linkVars, RoutedOk
<1>17. ASSUME NEW m \in Messages, Store(m) PROVE RoutedOk'
  BY <1>17, RoutedFrame DEF Store, linkVars, routeVars, RoutedOk
<1>18. ASSUME NEW e \in removing, Propose(e) PROVE RoutedOk'
  <2>1. sess' = sess /\ rlog' = Append(rlog, e) /\ since' = since
    BY <1>18 DEF Propose, linkVars, histVars
  <2>2. e \in Entry /\ e.op = "remove"
    BY DEF TypeOK, RouteType
  <2>3. ASSUME NEW d \in Clients, sess[d] # None, NEW h \in sess[d].subs PROVE RoutedTo(d, h)'
    <3>1. RoutedTo(d, h)
      BY <2>3 DEF RoutedOk, RoutedOf
    <3>2. QED  BY <2>1, <2>2, <3>1, RoutedAppend
  <2>4. QED  BY <2>1, <2>3 DEF RoutedOk, RoutedOf
<1>19. ASSUME NEW w \in wire, Arrive(w) PROVE RoutedOk'
  BY <1>19, RoutedFrame DEF Arrive, linkVars, routeVars, RoutedOk
<1>20. ASSUME NEW w \in wire, LoseForward(w) PROVE RoutedOk'
  BY <1>20, RoutedFrame DEF LoseForward, linkVars, routeVars, RoutedOk
<1>21. ASSUME UNCHANGED vars PROVE RoutedOk'
  BY <1>21, RoutedFrame DEF vars, RoutedOk
<1>22. QED
  BY <1>1, <1>2, <1>3, <1>4, <1>5, <1>6, <1>7, <1>8, <1>9, <1>10, <1>11, <1>12, <1>13, <1>14,
     <1>15, <1>16, <1>17, <1>18, <1>19, <1>20, <1>21, StepCases

\* A route in the log is the only one of its client and filter.
LEMMA RouteIsOne ==
    ASSUME TypeOK, NEW c, NEW f, NEW k \in Nat, NEW i \in 1 .. k, RoutedAt(k, c, f, i)
    PROVE  Routes(k, c, f) = {sess[c].node}
<1>1. sess[c].node \in Routes(k, c, f)
  BY DEF Routes, RoutedAt
<1>2. ASSUME NEW n \in Routes(k, c, f) PROVE n = sess[c].node
  <2>1. PICK j \in 1 .. k :
          /\ rlog[j].op = "add" /\ rlog[j].c = c /\ rlog[j].f = f /\ n = rlog[j].node
          /\ \A l \in j + 1 .. k : rlog[l].c = c /\ rlog[l].f = f => rlog[l].op = "remove"
    BY <1>2 DEF Routes
  <2>2. ~ (i < j) /\ ~ (j < i)
    BY <2>1 DEF RoutedAt
  <2>3. i = j
    BY <2>2
  <2>4. QED  BY <2>1, <2>3 DEF RoutedAt
<1>3. QED  BY <1>1, <1>2

\* A subscription that was not overtaken has one route, to its node.
LEMMA SubscribedRoutes == ASSUME TypeOK, RoutedOk PROVE SubscribedIsRouted
<1>. SUFFICES ASSUME NEW c \in Clients, sess[c] # None, NEW f \in sess[c].subs,
                     ~ Overtaken(Len(rlog), c, f)
              PROVE  Routes(Len(rlog), c, f) = {sess[c].node}
  BY DEF SubscribedIsRouted
<1>1. PICK k \in Nat : k = Len(rlog)
  BY DEF TypeOK, RouteType
<1>2. PICK i \in 1 .. k : RoutedAt(k, c, f, i)
  BY <1>1 DEF RoutedOk, RoutedOf, RoutedTo
<1>3. QED  BY <1>1, <1>2, RouteIsOne

\* What is to be taken over stays so until its load starts, or the connection ends; then it
\* is a subscription by another way or no longer wanted.
LEMMA PendingStep ==
    ASSUME TypeOK, StageOk, [Next]_vars
    PROVE  \A d \in Clients, h \in Filters : Pending(d, h) =>
              \/ Pending(d, h)' \/ Started(d, h)'
              \/ h \notin wanted'[d] \/ (sess'[d] # None /\ h \in sess'[d].subs)
<1>. DEFINE Goal ==
        \A d \in Clients, h \in Filters : Pending(d, h) =>
           \/ Pending(d, h)' \/ Started(d, h)'
           \/ h \notin wanted'[d] \/ (sess'[d] # None /\ h \in sess'[d].subs)
<1>1. ASSUME NEW c \in Clients, NEW rec \in Records, CreateAccount(c, rec) PROVE Goal
  BY <1>1 DEF CreateAccount, linkVars, Pending
<1>2. ASSUME NEW c \in Clients, DeleteAccount(c) PROVE Goal
  BY <1>2 DEF DeleteAccount, linkVars, Pending
<1>3. ASSUME NEW c \in Clients, NEW n \in Nodes, NEW clean \in BOOLEAN,
             Authenticate(c, n, clean)
      PROVE  Goal
  <2>1. ASSUME NEW h PROVE ~ Pending(c, h)
    BY <1>3 DEF Authenticate, Pending, StageOk, StageOf, NoWork
  <2>2. QED  BY <1>3, <2>1 DEF Authenticate, Pending, TypeOK, LinkType
<1>4. ASSUME NEW c \in Clients, Kick(c) PROVE Goal
  <2>1. ASSUME NEW h PROVE ~ Pending(c, h)
    BY <1>4 DEF Kick, Pending, StageOk, StageOf, NoWork
  <2>2. \A d \in Clients : d # c => stage'[d] = stage[d] /\ hello'[d] = hello[d]
    BY <1>4 DEF Kick, TypeOK, LinkType
  <2>3. inbox' = inbox /\ work' = work
    BY <1>4 DEF Kick
  <2>4. QED  BY <2>1, <2>2, <2>3 DEF Pending
<1>5. ASSUME NEW c \in Clients, SetSession(c) PROVE Goal
  <2>1. /\ \A d \in Clients : d # c => stage'[d] = stage[d] /\ inbox'[d] = inbox[d]
        /\ hello' = hello /\ work' = work
    BY <1>5 DEF SetSession, TypeOK, LinkType
  <2>2. ASSUME NEW h, Pending(c, h) PROVE Pending(c, h)'
    <3>1. hello[c].carry # None /\ h \in hello[c].carry
      BY <1>5, <2>2 DEF SetSession, Pending, StageOk, StageOf, NoWork
    <3>2. inbox'[c] = <<[kind |-> "carry", filters |-> hello[c].carry]>>
      BY <1>5, <3>1 DEF SetSession, TypeOK, LinkType
    <3>3. QED  BY <3>1, <3>2 DEF Pending
  <2>3. QED  BY <2>1, <2>2 DEF Pending
<1>6. ASSUME NEW c \in Clients, AutoSubscribe(c) PROVE Goal
  <2>1. /\ \A d \in Clients : d # c =>
              stage'[d] = stage[d] /\ inbox'[d] = inbox[d] /\ hello'[d] = hello[d]
        /\ work' = work /\ stage[c] # "kicked"
    BY <1>6 DEF AutoSubscribe, TypeOK, LinkType
  <2>2. inbox'[c] = inbox[c] \/ \E x : inbox'[c] = Append(inbox[c], x)
    BY <1>6 DEF AutoSubscribe, TypeOK, LinkType
  <2>3. inbox[c] \in Seq(Item)
    BY DEF TypeOK, LinkType
  <2>4. \A i \in 1 .. Len(inbox[c]) : i \in 1 .. Len(inbox'[c]) /\ inbox'[c][i] = inbox[c][i]
    BY <2>2, <2>3
  <2>5. QED  BY <2>1, <2>4 DEF Pending
<1>7. ASSUME NEW c \in Clients, Disconnect(c) PROVE Goal
  <2>1. /\ \A d \in Clients : d # c => stage'[d] = stage[d] /\ inbox'[d] = inbox[d]
        /\ hello' = hello /\ work' = work
    BY <1>7 DEF Disconnect, TypeOK, LinkType
  <2>2. ASSUME NEW h, Pending(c, h), h \in wanted'[c] PROVE sess'[c] # None /\ h \in sess'[c].subs
    <3>1. PICK i \in 1 .. Len(inbox[c]) : inbox[c][i].kind = "carry" /\ h \in inbox[c][i].filters
      BY <1>7, <2>2 DEF Disconnect, Idle, NoWork, Pending
    <3>2. i \in DOMAIN inbox[c]
      BY <3>1 DEF TypeOK, LinkType
    <3>3. h \in Waiting(c)
      BY <3>1, <3>2 DEF Waiting
    <3>4. sess[c].keep /\ h \notin Waiting(c) \ sess[c].subs
      BY <1>7, <2>2 DEF Disconnect, TypeOK, HistoryType
    <3>5. sess[c] # None
      BY <1>7 DEF Disconnect, Idle, StageOk, StageOf
    <3>6. sess'[c] = sess[c]
      BY <1>7, <3>4 DEF Disconnect, TypeOK, LinkType
    <3>7. QED  BY <3>3, <3>4, <3>5, <3>6
  <2>3. QED  BY <2>1, <2>2 DEF Pending
<1>8. ASSUME NEW c \in Clients, TakeMessage(c) PROVE Goal
  <2>1. /\ \A d \in Clients : d # c => inbox'[d] = inbox[d] /\ work'[d] = work[d]
        /\ hello' = hello /\ stage' = stage
        /\ inbox[c] \in Seq(Item) /\ inbox[c] # <<>> /\ work[c] = NoWork /\ stage[c] = "up"
        /\ inbox'[c] = Tail(inbox[c]) /\ work'[c] = Job(Head(inbox[c]).kind, Head(inbox[c]).filters)
    BY <1>8 DEF TakeMessage, Idle, TypeOK, LinkType
  <2>2. ASSUME NEW h, Pending(c, h) PROVE Pending(c, h)'
    <3>1. PICK i \in 1 .. Len(inbox[c]) : inbox[c][i].kind = "carry" /\ h \in inbox[c][i].filters
      BY <2>1, <2>2 DEF Pending, NoWork
    <3>2. CASE i = 1
      BY <2>1, <3>1, <3>2 DEF Pending, Job
    <3>3. CASE i # 1
      <4>1. PICK j \in 1 .. Len(inbox'[c]) : inbox'[c][j] = inbox[c][i]
        <5>1. i - 1 \in 1 .. Len(Tail(inbox[c])) /\ Tail(inbox[c])[i - 1] = inbox[c][i]
          BY <2>1, <3>3
        <5>2. QED  BY <2>1, <5>1
      <4>2. QED  BY <3>1, <4>1 DEF Pending
    <3>4. QED  BY <3>2, <3>3
  <2>3. QED  BY <2>1, <2>2 DEF Pending
<1>9. ASSUME NEW c \in Clients, NEW f \in Requests, Ask(c, f) PROVE Goal
  BY <1>9 DEF Ask, Idle, NoWork, Job, Pending, TypeOK, LinkType
<1>10. ASSUME NEW c \in Clients, NEW f \in Filters, Unsubscribe(c, f) PROVE Goal
  BY <1>10 DEF Unsubscribe, Pending
<1>11. ASSUME NEW c \in Clients, NEW f \in Filters, StartFilter(c, f) PROVE Goal
  <2>1. /\ \A d \in Clients : d # c => work'[d] = work[d]
        /\ hello' = hello /\ stage' = stage /\ inbox' = inbox
        /\ work'[c] = Job(work[c].kind, work[c].rest \ {f})
    BY <1>11 DEF StartFilter, TypeOK, LinkType
  <2>2. ASSUME NEW h, Pending(c, h), ~ Pending(c, h)' PROVE Started(c, h)'
    <3>1. work[c].kind = "carry" /\ h = f
      BY <2>1, <2>2 DEF Pending, Job
    <3>2. load'[c] = NewLoad(f) /\ sess' = [sess EXCEPT ![c].subs = sess[c].subs \cup {f}]
      BY <1>11, <3>1 DEF StartFilter, TypeOK, LoadType
    <3>3. sess[c] \in Session /\ sess[c].subs \cup {f} \in SUBSET Filters
      BY <1>11, StartSession DEF Session
    <3>4. sess'[c] \in Session /\ f \in sess'[c].subs
      BY <3>2, <3>3, SubsUpdate
    <3>5. NewLoad(f) \in Load
      BY DEF NewLoad, Load
    <3>6. load'[c] # None /\ sess'[c] # None
      BY <3>2, <3>4, <3>5, NoneFacts
    <3>7. load'[c].f = f /\ load'[c].wait = None
      BY <3>2 DEF NewLoad
    <3>8. QED  BY <3>1, <3>4, <3>6, <3>7 DEF Started
  <2>3. ASSUME NEW d \in Clients, NEW h, d # c, Pending(d, h) PROVE Pending(d, h)'
    BY <2>1, <2>3 DEF Pending
  <2>4. QED  BY <2>2, <2>3
<1>12. ASSUME NEW c \in Clients, LoadLocal(c) PROVE Goal
  BY <1>12 DEF LoadLocal, linkVars, Pending
<1>13. ASSUME NEW c \in Clients, LoadEnd(c) PROVE Goal
  BY <1>13 DEF LoadEnd, linkVars, Pending
<1>14. ASSUME NEW g \in gets, PeerGet(g) PROVE Goal
  BY <1>14 DEF PeerGet, linkVars, Pending
<1>15. ASSUME NEW g \in gets, Timeout(g) PROVE Goal
  BY <1>15 DEF Timeout, linkVars, Pending
<1>16. ASSUME NEW m \in Messages, NEW t \in Topics, NEW n \in Nodes, Forwards(m, t, n)
       PROVE  Goal
  BY <1>16 DEF Forwards, linkVars, Pending
<1>17. ASSUME NEW m \in Messages, Store(m) PROVE Goal
  BY <1>17 DEF Store, linkVars, Pending
<1>18. ASSUME NEW e \in removing, Propose(e) PROVE Goal
  BY <1>18 DEF Propose, linkVars, Pending
<1>19. ASSUME NEW w \in wire, Arrive(w) PROVE Goal
  BY <1>19 DEF Arrive, linkVars, Pending
<1>20. ASSUME NEW w \in wire, LoseForward(w) PROVE Goal
  BY <1>20 DEF LoseForward, linkVars, Pending
<1>21. ASSUME UNCHANGED vars PROVE Goal
  BY <1>21 DEF vars, Pending
<1>22. QED
  BY <1>1, <1>2, <1>3, <1>4, <1>5, <1>6, <1>7, <1>8, <1>9, <1>10, <1>11, <1>12, <1>13, <1>14,
     <1>15, <1>16, <1>17, <1>18, <1>19, <1>20, <1>21, StepCases

\* What is wanted was wanted or is a new subscription; a subscription that goes is
\* given up, or to be taken over.
LEMMA WantedStep ==
    ASSUME TypeOK, StageOk, [Next]_vars
    PROVE  \A d \in Clients :
              \/ sess'[d] = sess[d] /\ wanted'[d] \subseteq wanted[d]
              \/ \A h \in wanted'[d] :
                    \/ sess'[d] # None /\ h \in sess'[d].subs
                    \/ h \in wanted[d] /\ (sess[d] # None /\ h \in sess[d].subs => Pending(d, h)')
<1>. DEFINE Goal ==
        \A d \in Clients :
           \/ sess'[d] = sess[d] /\ wanted'[d] \subseteq wanted[d]
           \/ \A h \in wanted'[d] :
                 \/ sess'[d] # None /\ h \in sess'[d].subs
                 \/ h \in wanted[d] /\ (sess[d] # None /\ h \in sess[d].subs => Pending(d, h)')
<1>1. ASSUME NEW c \in Clients, NEW rec \in Records, CreateAccount(c, rec) PROVE Goal
  BY <1>1 DEF CreateAccount, linkVars, histVars
<1>2. ASSUME NEW c \in Clients, DeleteAccount(c) PROVE Goal
  BY <1>2 DEF DeleteAccount, linkVars, histVars
<1>3. ASSUME NEW c \in Clients, NEW n \in Nodes, NEW clean \in BOOLEAN,
             Authenticate(c, n, clean)
      PROVE  Goal
  BY <1>3 DEF Authenticate
<1>4. ASSUME NEW c \in Clients, Kick(c) PROVE Goal
  <2>1. \A d \in Clients : d # c => sess'[d] = sess[d] /\ wanted'[d] = wanted[d]
    BY <1>4 DEF Kick, TypeOK, LinkType, HistoryType
  <2>2. ASSUME NEW h \in wanted'[c], sess[c] # None, h \in sess[c].subs PROVE Pending(c, h)'
    <3>1. hello[c] \in Hello /\ ~ hello[c].clean
      BY <1>4, <2>2 DEF Kick, TypeOK, LinkType, HistoryType
    <3>2. stage'[c] = "kicked" /\ hello'[c].carry = sess[c].subs
      BY <1>4, <2>2, <3>1 DEF Kick, TypeOK, LinkType, Hello
    <3>3. sess[c].subs # None
      BY <2>2, NoneFacts DEF TypeOK, LinkType, Session
    <3>4. QED  BY <2>2, <3>2, <3>3 DEF Pending
  <2>3. wanted'[c] \subseteq wanted[c]
    BY <1>4 DEF Kick, TypeOK, HistoryType
  <2>4. QED  BY <2>1, <2>2, <2>3
<1>5. ASSUME NEW c \in Clients, SetSession(c) PROVE Goal
  <2>1. \A d \in Clients : d # c => sess'[d] = sess[d] /\ wanted'[d] = wanted[d]
    BY <1>5 DEF SetSession, histVars, TypeOK, LinkType, HistoryType
  <2>2. sess[c] = None /\ wanted' = wanted
    BY <1>5 DEF SetSession, histVars, StageOk, StageOf
  <2>3. QED  BY <2>1, <2>2
<1>6. ASSUME NEW c \in Clients, AutoSubscribe(c) PROVE Goal
  BY <1>6 DEF AutoSubscribe
<1>7. ASSUME NEW c \in Clients, Disconnect(c) PROVE Goal
  <2>1. \A d \in Clients : d # c => sess'[d] = sess[d] /\ wanted'[d] = wanted[d]
    BY <1>7 DEF Disconnect, TypeOK, LinkType, HistoryType
  <2>2. CASE sess[c].keep
    BY <1>7, <2>1, <2>2 DEF Disconnect, TypeOK, LinkType, HistoryType
  <2>3. CASE ~ sess[c].keep
    BY <1>7, <2>1, <2>3 DEF Disconnect, TypeOK, HistoryType
  <2>4. QED  BY <2>2, <2>3
<1>8. ASSUME NEW c \in Clients, TakeMessage(c) PROVE Goal
  BY <1>8 DEF TakeMessage, histVars
<1>9. ASSUME NEW c \in Clients, NEW f \in Requests, Ask(c, f) PROVE Goal
  BY <1>9 DEF Ask, histVars
<1>10. ASSUME NEW c \in Clients, NEW f \in Filters, Unsubscribe(c, f) PROVE Goal
  <2>1. \A d \in Clients : d # c => sess'[d] = sess[d] /\ wanted'[d] = wanted[d]
    BY <1>10 DEF Unsubscribe, TypeOK, LinkType, HistoryType
  <2>2. sess[c] \in Session /\ sess[c].subs \ {f} \in SUBSET Filters
    BY <1>10 DEF Unsubscribe, Idle, StageOk, StageOf, TypeOK, LinkType, Session
  <2>3. sess'[c] = [sess[c] EXCEPT !.subs = sess[c].subs \ {f}]
    BY <1>10, <2>2 DEF Unsubscribe, TypeOK, LinkType
  <2>4. sess'[c] \in Session /\ sess'[c].subs = sess[c].subs \ {f}
    BY <2>2, <2>3 DEF Session
  <2>5. wanted'[c] = wanted[c] \ {f}
    BY <1>10 DEF Unsubscribe, TypeOK, HistoryType
  <2>6. QED  BY <2>1, <2>4, <2>5, NoneFacts
<1>11. ASSUME NEW c \in Clients, NEW f \in Filters, StartFilter(c, f) PROVE Goal
  <2>1. \A d \in Clients : d # c => sess'[d] = sess[d] /\ wanted'[d] = wanted[d]
    BY <1>11 DEF StartFilter, TypeOK, LinkType, HistoryType
  <2>2. CASE sess' = sess /\ wanted' = wanted
    BY <2>2
  <2>3. CASE ~ (sess' = sess /\ wanted' = wanted)
    <3>1. /\ sess' = [sess EXCEPT ![c].subs = sess[c].subs \cup {f}]
          /\ wanted'[c] = wanted[c] \cup {f}
      BY <1>11, <2>3 DEF StartFilter, TypeOK, LinkType, HistoryType
    <3>2. sess[c] \in Session /\ sess[c].subs \cup {f} \in SUBSET Filters
      BY <1>11, StartSession DEF Session
    <3>3. sess'[c] \in Session /\ sess'[c].subs = sess[c].subs \cup {f}
      BY <3>1, <3>2, SubsUpdate
    <3>4. QED  BY <2>1, <3>1, <3>3, NoneFacts
  <2>4. QED  BY <2>2, <2>3
<1>12. ASSUME NEW c \in Clients, LoadLocal(c) PROVE Goal
  BY <1>12 DEF LoadLocal, linkVars
<1>13. ASSUME NEW c \in Clients, LoadEnd(c) PROVE Goal
  BY <1>13 DEF LoadEnd, linkVars
<1>14. ASSUME NEW g \in gets, PeerGet(g) PROVE Goal
  BY <1>14 DEF PeerGet, linkVars
<1>15. ASSUME NEW g \in gets, Timeout(g) PROVE Goal
  BY <1>15 DEF Timeout, linkVars, histVars
<1>16. ASSUME NEW m \in Messages, NEW t \in Topics, NEW n \in Nodes, Forwards(m, t, n)
       PROVE  Goal
  BY <1>16 DEF Forwards, linkVars
<1>17. ASSUME NEW m \in Messages, Store(m) PROVE Goal
  BY <1>17 DEF Store, linkVars
<1>18. ASSUME NEW e \in removing, Propose(e) PROVE Goal
  BY <1>18 DEF Propose, linkVars, histVars
<1>19. ASSUME NEW w \in wire, Arrive(w) PROVE Goal
  BY <1>19 DEF Arrive, linkVars
<1>20. ASSUME NEW w \in wire, LoseForward(w) PROVE Goal
  BY <1>20 DEF LoseForward, linkVars
<1>21. ASSUME UNCHANGED vars PROVE Goal
  BY <1>21 DEF vars
<1>22. QED
  BY <1>1, <1>2, <1>3, <1>4, <1>5, <1>6, <1>7, <1>8, <1>9, <1>10, <1>11, <1>12, <1>13, <1>14,
     <1>15, <1>16, <1>17, <1>18, <1>19, <1>20, <1>21, StepCases

\* Every step keeps WantedOk.
LEMMA WantedOkKept == ASSUME TypeOK, StageOk, WantedOk, [Next]_vars PROVE WantedOk'
<1>. SUFFICES ASSUME NEW c \in Clients, NEW f \in wanted'[c],
                     ~ (sess'[c] # None /\ f \in sess'[c].subs), ~ Pending(c, f)'
              PROVE  FALSE
  BY DEF WantedOk
<1>1. f \in wanted[c] /\ ~ (sess[c] # None /\ f \in sess[c].subs)
  BY WantedStep
<1>2. Pending(c, f) /\ f \in Filters
  BY <1>1 DEF WantedOk, TypeOK, HistoryType
<1>3. QED  BY <1>2, PendingStep DEF Started

\* A node that a load is done with, or will be, stays so until the subscription goes; a new
\* subscription begins its load.
LEMMA LoadedStep ==
    ASSUME TypeOK, StageOk, LoadOk, [Next]_vars
    PROVE  \A d \in Clients, h \in Filters, n \in Nodes :
              /\ <<h, n>> \in passed[d] \/ Asking(d, h, n) =>
                   \/ <<h, n>> \in passed'[d] \/ Asking(d, h, n)'
                   \/ sess'[d] = None \/ h \notin sess'[d].subs
              /\ sess'[d] # None /\ h \in sess'[d].subs =>
                   (sess[d] # None /\ h \in sess[d].subs) \/ Started(d, h)'
<1>. DEFINE Goal ==
        \A d \in Clients, h \in Filters, n \in Nodes :
           /\ <<h, n>> \in passed[d] \/ Asking(d, h, n) =>
                \/ <<h, n>> \in passed'[d] \/ Asking(d, h, n)'
                \/ sess'[d] = None \/ h \notin sess'[d].subs
           /\ sess'[d] # None /\ h \in sess'[d].subs =>
                (sess[d] # None /\ h \in sess[d].subs) \/ Started(d, h)'
<1>1. ASSUME NEW c \in Clients, NEW rec \in Records, CreateAccount(c, rec) PROVE Goal
  BY <1>1 DEF CreateAccount, linkVars, histVars, Asking
<1>2. ASSUME NEW c \in Clients, DeleteAccount(c) PROVE Goal
  BY <1>2 DEF DeleteAccount, linkVars, histVars, Asking
<1>3. ASSUME NEW c \in Clients, NEW n \in Nodes, NEW clean \in BOOLEAN,
             Authenticate(c, n, clean)
      PROVE  Goal
  BY <1>3 DEF Authenticate, Asking
<1>4. ASSUME NEW c \in Clients, Kick(c) PROVE Goal
  BY <1>4 DEF Kick, Asking, TypeOK, LinkType, HistoryType
<1>5. ASSUME NEW c \in Clients, SetSession(c) PROVE Goal
  BY <1>5 DEF SetSession, histVars, Asking, TypeOK, LinkType
<1>6. ASSUME NEW c \in Clients, AutoSubscribe(c) PROVE Goal
  BY <1>6 DEF AutoSubscribe, Asking
<1>7. ASSUME NEW c \in Clients, Disconnect(c) PROVE Goal
  BY <1>7 DEF Disconnect, Asking, TypeOK, LinkType
<1>8. ASSUME NEW c \in Clients, TakeMessage(c) PROVE Goal
  BY <1>8 DEF TakeMessage, histVars, Asking
<1>9. ASSUME NEW c \in Clients, NEW f \in Requests, Ask(c, f) PROVE Goal
  BY <1>9 DEF Ask, histVars, Asking
<1>10. ASSUME NEW c \in Clients, NEW f \in Filters, Unsubscribe(c, f) PROVE Goal
  <2>1. /\ load' = load
        /\ \A d \in Clients : d # c => sess'[d] = sess[d] /\ passed'[d] = passed[d]
        /\ passed'[c] = passed[c] \ ({f} \X Nodes)
    BY <1>10 DEF Unsubscribe, TypeOK, LinkType, HistoryType
  <2>2. sess[c] \in Session /\ sess[c].subs \ {f} \in SUBSET Filters
    BY <1>10 DEF Unsubscribe, Idle, StageOk, StageOf, TypeOK, LinkType, Session
  <2>3. sess'[c] = [sess[c] EXCEPT !.subs = sess[c].subs \ {f}]
    BY <1>10, <2>2 DEF Unsubscribe, TypeOK, LinkType
  <2>4. sess'[c].subs = sess[c].subs \ {f} /\ sess[c] # None
    BY <2>2, <2>3, NoneFacts DEF Session
  <2>5. QED  BY <2>1, <2>4 DEF Asking
<1>11. ASSUME NEW c \in Clients, NEW f \in Filters, StartFilter(c, f) PROVE Goal
  <2>1. CASE load' = load /\ sess' = sess /\ passed' = passed
    BY <2>1 DEF Asking
  <2>2. CASE ~ (load' = load /\ sess' = sess /\ passed' = passed)
    <3>1. /\ load'[c] = NewLoad(f)
          /\ \A d \in Clients : d # c =>
                load'[d] = load[d] /\ sess'[d] = sess[d] /\ passed'[d] = passed[d]
          /\ passed'[c] = passed[c] \ ({f} \X Nodes)
      BY <1>11, <2>2 DEF StartFilter, TypeOK, LinkType, LoadType, HistoryType
    <3>2. sess[c] \in Session /\ load[c] = None /\ sess[c].subs \cup {f} \in SUBSET Filters
      BY <1>11, StartSession DEF Session
    <3>3. sess'[c] \in Session /\ sess'[c].subs = sess[c].subs \cup {f}
      <4>1. sess' = [sess EXCEPT ![c].subs = sess[c].subs \cup {f}]
        BY <1>11, <2>2 DEF StartFilter
      <4>2. QED  BY <3>2, <4>1, SubsUpdate
    <3>4. NewLoad(f) \in Load
      BY DEF NewLoad, Load
    <3>5. load'[c] # None /\ sess'[c] # None /\ sess[c] # None
      BY <3>1, <3>2, <3>3, <3>4, NoneFacts
    <3>6. load'[c].f = f /\ load'[c].wait = None
      BY <3>1 DEF NewLoad
    <3>7. Started(c, f)' /\ \A n : Asking(c, f, n)'
      BY <3>3, <3>5, <3>6 DEF Started, Asking
    <3>8. ASSUME NEW h, NEW n, <<h, n>> \in passed[c] \/ Asking(c, h, n), h # f
          PROVE  <<h, n>> \in passed'[c]
      BY <3>1, <3>2, <3>8 DEF Asking
    <3>9. \A d \in Clients : \A h, n : d # c => (Asking(d, h, n) => Asking(d, h, n)')
      BY <3>1 DEF Asking
    <3>10. \A h \in sess'[c].subs : h \in sess[c].subs \/ h = f
      BY <3>3
    <3>11. SUFFICES ASSUME NEW d \in Clients, NEW h \in Filters, NEW n \in Nodes
           PROVE /\ <<h, n>> \in passed[d] \/ Asking(d, h, n) =>
                      <<h, n>> \in passed'[d] \/ Asking(d, h, n)'
                 /\ sess'[d] # None /\ h \in sess'[d].subs =>
                      (sess[d] # None /\ h \in sess[d].subs) \/ Started(d, h)'
      OBVIOUS
    <3>12. CASE d # c
      BY <3>1, <3>9, <3>12
    <3>13. CASE d = c /\ h = f
      BY <3>7, <3>13
    <3>14. CASE d = c /\ h # f
      BY <3>5, <3>8, <3>10, <3>14
    <3>15. QED  BY <3>12, <3>13, <3>14
  <2>3. QED  BY <2>1, <2>2
<1>12. ASSUME NEW c \in Clients, LoadLocal(c) PROVE Goal
  <2>1. sess' = sess /\ passed'[c] = passed[c] \cup {<<load[c].f, sess[c].node>>}
    BY <1>12 DEF LoadLocal, linkVars, TypeOK, HistoryType
  <2>2. \A d \in Clients : d # c => load'[d] = load[d] /\ passed'[d] = passed[d]
    BY <1>12, LocalRead DEF LoadLocal, TypeOK, HistoryType
  <2>3. ASSUME NEW h, NEW n \in Nodes, Asking(c, h, n)
        PROVE  <<h, n>> \in passed'[c] \/ Asking(c, h, n)'
    BY <1>12, <2>1, <2>3, LocalRead, NoneFacts DEF Asking
  <2>4. QED  BY <2>1, <2>2, <2>3 DEF Asking
<1>13. ASSUME NEW c \in Clients, LoadEnd(c) PROVE Goal
  <2>1. sess' = sess /\ passed' = passed
    BY <1>13 DEF LoadEnd, linkVars
  <2>2. \A d \in Clients : d # c => load'[d] = load[d]
    BY <1>13 DEF LoadEnd, TypeOK, LoadType
  <2>3. ASSUME NEW h, NEW n PROVE ~ Asking(c, h, n)
    <3>1. {} # None
      BY NoneFacts
    <3>2. QED  BY <1>13, <3>1 DEF LoadEnd, Asking
  <2>4. QED  BY <2>1, <2>2, <2>3 DEF Asking
<1>14. ASSUME NEW g \in gets, PeerGet(g) PROVE Goal
  <2>1. sess' = sess
    BY <1>14 DEF PeerGet, linkVars
  <2>2. CASE ~ g.live
    <3>1. load' = load /\ \A d \in Clients : passed[d] \subseteq passed'[d]
      BY <1>14, <2>2 DEF PeerGet, TypeOK, HistoryType
    <3>2. QED  BY <2>1, <3>1 DEF Asking
  <2>3. CASE g.live
    <3>1. /\ \A d \in Clients : passed[d] \subseteq passed'[d]
          /\ g.c \in Clients => <<g.f, g.node>> \in passed'[g.c]
      BY <1>14, <2>3 DEF PeerGet, TypeOK, HistoryType
    <3>2. ASSUME NEW h, NEW n, Asking(g.c, h, n)
          PROVE  <<h, n>> \in passed'[g.c] \/ Asking(g.c, h, n)'
      BY <1>14, <2>3, <3>1, <3>2, Answered, NoneFacts DEF Asking
    <3>3. \A d \in Clients : d # g.c => load'[d] = load[d]
      BY <1>14, <2>3, Answered
    <3>4. QED  BY <2>1, <3>1, <3>2, <3>3 DEF Asking
  <2>4. QED  BY <2>2, <2>3
<1>15. ASSUME NEW g \in gets, Timeout(g) PROVE Goal
  <2>1. sess' = sess /\ g.live
    BY <1>15 DEF Timeout, linkVars
  <2>2. g.c \in Clients
    BY DEF TypeOK, LoadType, Get
  <2>3. /\ \A d \in Clients : passed[d] \subseteq passed'[d]
        /\ <<g.f, g.node>> \in passed'[g.c]
    BY <1>15, <2>2 DEF Timeout, TypeOK, HistoryType
  <2>4. ASSUME NEW h, NEW n, Asking(g.c, h, n)
        PROVE  <<h, n>> \in passed'[g.c] \/ Asking(g.c, h, n)'
    BY <1>15, <2>1, <2>3, <2>4, Answered, NoneFacts DEF Asking
  <2>5. \A d \in Clients : d # g.c => load'[d] = load[d]
    BY <1>15, <2>1, Answered
  <2>6. QED  BY <2>1, <2>3, <2>4, <2>5 DEF Asking
<1>16. ASSUME NEW m \in Messages, NEW t \in Topics, NEW n \in Nodes, Forwards(m, t, n)
       PROVE  Goal
  BY <1>16 DEF Forwards, linkVars, Asking
<1>17. ASSUME NEW m \in Messages, Store(m) PROVE Goal
  BY <1>17 DEF Store, linkVars, Asking
<1>18. ASSUME NEW e \in removing, Propose(e) PROVE Goal
  BY <1>18 DEF Propose, linkVars, histVars, Asking
<1>19. ASSUME NEW w \in wire, Arrive(w) PROVE Goal
  BY <1>19 DEF Arrive, linkVars, Asking
<1>20. ASSUME NEW w \in wire, LoseForward(w) PROVE Goal
  BY <1>20 DEF LoseForward, linkVars, Asking
<1>21. ASSUME UNCHANGED vars PROVE Goal
  BY <1>21 DEF vars, Asking
<1>22. QED
  BY <1>1, <1>2, <1>3, <1>4, <1>5, <1>6, <1>7, <1>8, <1>9, <1>10, <1>11, <1>12, <1>13, <1>14,
     <1>15, <1>16, <1>17, <1>18, <1>19, <1>20, <1>21, StepCases

\* Every step keeps LoadedOk.
LEMMA LoadedOkKept == ASSUME TypeOK, StageOk, LoadOk, LoadedOk, [Next]_vars PROVE LoadedOk'
<1>. SUFFICES ASSUME NEW c \in Clients, sess'[c] # None, NEW f \in sess'[c].subs, NEW n \in Nodes
              PROVE  <<f, n>> \in passed'[c] \/ Asking(c, f, n)'
  BY DEF LoadedOk
<1>1. f \in Filters
  BY LinkTypeKept DEF LinkType, Session
<1>2. CASE Started(c, f)'
  BY <1>2 DEF Started, Asking
<1>3. CASE sess[c] # None /\ f \in sess[c].subs
  BY <1>1, <1>3, LoadedStep DEF LoadedOk
<1>4. QED  BY <1>1, <1>2, <1>3, LoadedStep

\* What a node has stored of a filter is marked once it was read.
LEMMA ReadIsMarked ==
    ASSUME TypeOK, NEW c \in Clients, NEW f, NEW n, NEW m \in Messages,
           msg[m].pc = "done", msg[m].node = n, StoreMatches(msg[m].topic, f)
    PROVE  <<c, m>> \in marks \cup ({c} \X Hits(n, c, f))
BY DEF Hits, Stored

\* Every step keeps PassedOk.
LEMMA PassedOkKept == ASSUME TypeOK, StageOk, LoadOk, PassedOk, [Next]_vars PROVE PassedOk'
<1>1. ASSUME NEW c \in Clients, NEW rec \in Records, CreateAccount(c, rec) PROVE PassedOk'
  BY <1>1 DEF CreateAccount, msgVars, histVars, PassedOk, Missed
<1>2. ASSUME NEW c \in Clients, DeleteAccount(c) PROVE PassedOk'
  BY <1>2 DEF DeleteAccount, msgVars, histVars, PassedOk, Missed
<1>3. ASSUME NEW c \in Clients, NEW n \in Nodes, NEW clean \in BOOLEAN,
             Authenticate(c, n, clean)
      PROVE  PassedOk'
  BY <1>3 DEF Authenticate, msgVars, PassedOk, Missed
<1>4. ASSUME NEW c \in Clients, Kick(c) PROVE PassedOk'
  <2>1. /\ msg' = msg /\ marks' = marks /\ missed \subseteq missed'
        /\ \A d \in Clients : passed'[d] \subseteq passed[d]
    BY <1>4 DEF Kick, msgVars, TypeOK, HistoryType
  <2>2. QED  BY <2>1 DEF PassedOk, Missed
<1>5. ASSUME NEW c \in Clients, SetSession(c) PROVE PassedOk'
  BY <1>5 DEF SetSession, msgVars, histVars, PassedOk, Missed
<1>6. ASSUME NEW c \in Clients, AutoSubscribe(c) PROVE PassedOk'
  BY <1>6 DEF AutoSubscribe, msgVars, PassedOk, Missed
<1>7. ASSUME NEW c \in Clients, Disconnect(c) PROVE PassedOk'
  <2>1. /\ msg' = msg /\ marks' = marks /\ missed \subseteq missed'
        /\ \A d \in Clients : passed'[d] \subseteq passed[d]
    BY <1>7 DEF Disconnect, msgVars, TypeOK, HistoryType
  <2>2. QED  BY <2>1 DEF PassedOk, Missed
<1>8. ASSUME NEW c \in Clients, TakeMessage(c) PROVE PassedOk'
  BY <1>8 DEF TakeMessage, msgVars, histVars, PassedOk, Missed
<1>9. ASSUME NEW c \in Clients, NEW f \in Requests, Ask(c, f) PROVE PassedOk'
  BY <1>9 DEF Ask, msgVars, histVars, PassedOk, Missed
<1>10. ASSUME NEW c \in Clients, NEW f \in Filters, Unsubscribe(c, f) PROVE PassedOk'
  <2>1. /\ msg' = msg /\ marks' = marks /\ missed \subseteq missed'
        /\ \A d \in Clients : passed'[d] \subseteq passed[d]
    BY <1>10 DEF Unsubscribe, msgVars, TypeOK, HistoryType
  <2>2. QED  BY <2>1 DEF PassedOk, Missed
<1>11. ASSUME NEW c \in Clients, NEW f \in Filters, StartFilter(c, f) PROVE PassedOk'
  <2>1. /\ msg' = msg /\ marks' = marks /\ missed \subseteq missed'
        /\ \A d \in Clients : passed'[d] \subseteq passed[d]
    <3>1. passed' = passed \/ passed' = [passed EXCEPT ![c] = passed[c] \ ({f} \X Nodes)]
      BY <1>11 DEF StartFilter
    <3>2. \A d \in Clients : passed'[d] \subseteq passed[d]
      BY <3>1 DEF TypeOK, HistoryType
    <3>3. QED  BY <1>11, <3>2 DEF StartFilter, msgVars
  <2>2. QED  BY <2>1 DEF PassedOk, Missed
<1>12. ASSUME NEW c \in Clients, LoadLocal(c) PROVE PassedOk'
  <2>1. /\ msg' = msg /\ missed' = missed
        /\ marks' = marks \cup ({c} \X Hits(sess[c].node, c, load[c].f))
        /\ \A d \in Clients : d # c => passed'[d] = passed[d]
        /\ passed'[c] = passed[c] \cup {<<load[c].f, sess[c].node>>}
    BY <1>12 DEF LoadLocal, TypeOK, HistoryType
  <2>2. \A m \in Messages :
          /\ msg[m].pc = "done" /\ msg[m].node = sess[c].node /\ StoreMatches(msg[m].topic, load[c].f)
          => <<c, m>> \in marks'
    BY <2>1, ReadIsMarked
  <2>3. marks \subseteq marks'
    BY <2>1
  <2>4. ASSUME NEW d \in Clients, NEW p \in passed'[d]
        PROVE  p \in passed[d] \/ (d = c /\ p[1] = load[c].f /\ p[2] = sess[c].node)
    BY <2>1, <2>4
  <2>5. QED  BY <2>1, <2>2, <2>3, <2>4 DEF PassedOk, Missed
<1>13. ASSUME NEW c \in Clients, LoadEnd(c) PROVE PassedOk'
  <2>1. /\ msg' = msg /\ marks' = marks /\ missed \subseteq missed'
        /\ \A d \in Clients : passed'[d] \subseteq passed[d]
    BY <1>13 DEF LoadEnd, msgVars, TypeOK, HistoryType
  <2>2. QED  BY <2>1 DEF PassedOk, Missed
<1>14. ASSUME NEW g \in gets, PeerGet(g) PROVE PassedOk'
  <2>1. /\ msg' = msg /\ missed \subseteq missed'
        /\ marks' = marks \cup ({g.c} \X Hits(g.node, g.c, g.f))
    BY <1>14 DEF PeerGet
  <2>2. g.c \in Clients
    BY DEF TypeOK, LoadType, Get
  <2>3. \A m \in Messages :
          /\ msg[m].pc = "done" /\ msg[m].node = g.node /\ StoreMatches(msg[m].topic, g.f)
          => <<g.c, m>> \in marks'
    BY <2>1, <2>2, ReadIsMarked
  <2>4. marks \subseteq marks'
    BY <2>1
  <2>5. ASSUME NEW d \in Clients, NEW p \in passed'[d]
        PROVE  p \in passed[d] \/ (d = g.c /\ p[1] = g.f /\ p[2] = g.node)
    BY <1>14, <2>2, <2>5 DEF PeerGet, TypeOK, HistoryType
  <2>6. QED  BY <2>1, <2>3, <2>4, <2>5 DEF PassedOk, Missed
<1>15. ASSUME NEW g \in gets, Timeout(g) PROVE PassedOk'
  <2>1. /\ msg' = msg /\ marks' = marks
        /\ missed' = missed \cup {<<g.c, m, "failed">> : m \in Hits(g.node, g.c, g.f)}
    BY <1>15 DEF Timeout, msgVars
  <2>2. g.c \in Clients
    BY DEF TypeOK, LoadType, Get
  <2>3. ASSUME NEW m \in Messages, msg[m].pc = "done", msg[m].node = g.node,
               StoreMatches(msg[m].topic, g.f)
        PROVE  <<g.c, m>> \in marks \/ <<g.c, m, "failed">> \in missed'
    <3>1. <<g.c, m>> \in marks \cup ({g.c} \X Hits(g.node, g.c, g.f))
      BY <2>2, <2>3, ReadIsMarked
    <3>2. QED  BY <2>1, <3>1
  <2>4. ASSUME NEW d \in Clients, NEW p \in passed'[d]
        PROVE  p \in passed[d] \/ (d = g.c /\ p[1] = g.f /\ p[2] = g.node)
    BY <1>15, <2>2, <2>4 DEF Timeout, TypeOK, HistoryType
  <2>5. QED  BY <2>1, <2>3, <2>4 DEF PassedOk, Missed
<1>16. ASSUME NEW m \in Messages, NEW t \in Topics, NEW n \in Nodes, Forwards(m, t, n)
      PROVE  PassedOk'
  <2>1. /\ marks' = marks /\ missed \subseteq missed' /\ passed' = passed
        /\ \A l \in Messages : l # m => msg'[l] = msg[l]
        /\ msg'[m].pc = "store"
    BY <1>16 DEF Forwards, TypeOK, MessageType
  <2>2. QED  BY <2>1 DEF PassedOk, Missed
<1>17. ASSUME NEW m \in Messages, Store(m) PROVE PassedOk'
  <2>1. /\ marks' = marks /\ missed \subseteq missed' /\ passed' = passed
        /\ \A l \in Messages : l # m => msg'[l] = msg[l]
    BY <1>17 DEF Store, TypeOK, MessageType
  <2>2. msg[m] \in Publication /\ msg'[m] = [msg[m] EXCEPT !.pc = "done"]
    BY <1>17 DEF Store, TypeOK, MessageType
  <2>3. msg'[m].node = msg[m].node /\ msg'[m].topic = msg[m].topic
    BY <2>2 DEF Publication
  <2>4. ASSUME NEW d \in Clients, NEW p \in passed[d],
               msg[m].node = p[2], StoreMatches(msg[m].topic, p[1])
        PROVE  <<d, m, "unstored">> \in missed'
    BY <1>17, <2>4 DEF Store
  <2>5. QED  BY <2>1, <2>3, <2>4 DEF PassedOk, Missed
<1>18. ASSUME NEW e \in removing, Propose(e) PROVE PassedOk'
  BY <1>18 DEF Propose, msgVars, histVars, PassedOk, Missed
<1>19. ASSUME NEW w \in wire, Arrive(w) PROVE PassedOk'
  <2>1. /\ msg' = msg /\ marks' = marks /\ missed \subseteq missed'
        /\ \A d \in Clients : passed'[d] \subseteq passed[d]
    BY <1>19 DEF Arrive, TypeOK, HistoryType
  <2>2. QED  BY <2>1 DEF PassedOk, Missed
<1>20. ASSUME NEW w \in wire, LoseForward(w) PROVE PassedOk'
  <2>1. /\ msg' = msg /\ marks' = marks /\ missed \subseteq missed'
        /\ \A d \in Clients : passed'[d] \subseteq passed[d]
    BY <1>20 DEF LoseForward, TypeOK, HistoryType
  <2>2. QED  BY <2>1 DEF PassedOk, Missed
<1>21. ASSUME UNCHANGED vars PROVE PassedOk'
  BY <1>21 DEF vars, PassedOk, Missed
<1>22. QED
  BY <1>1, <1>2, <1>3, <1>4, <1>5, <1>6, <1>7, <1>8, <1>9, <1>10, <1>11, <1>12, <1>13, <1>14,
     <1>15, <1>16, <1>17, <1>18, <1>19, <1>20, <1>21, StepCases

\* Every step keeps ForwardedOk.
LEMMA ForwardedOkKept ==
    ASSUME TypeOK, StageOk, LoadOk, RoutedOk, ForwardedOk, [Next]_vars
    PROVE  ForwardedOk'
<1>1. ASSUME NEW c \in Clients, NEW rec \in Records, CreateAccount(c, rec) PROVE ForwardedOk'
  BY <1>1 DEF CreateAccount, msgVars, histVars, ForwardedOk, Missed
<1>2. ASSUME NEW c \in Clients, DeleteAccount(c) PROVE ForwardedOk'
  BY <1>2 DEF DeleteAccount, msgVars, histVars, ForwardedOk, Missed
<1>3. ASSUME NEW c \in Clients, NEW n \in Nodes, NEW clean \in BOOLEAN,
             Authenticate(c, n, clean)
      PROVE  ForwardedOk'
  BY <1>3 DEF Authenticate, msgVars, ForwardedOk, Missed
<1>4. ASSUME NEW c \in Clients, Kick(c) PROVE ForwardedOk'
  BY <1>4 DEF Kick, msgVars, ForwardedOk, Missed
<1>5. ASSUME NEW c \in Clients, SetSession(c) PROVE ForwardedOk'
  BY <1>5 DEF SetSession, msgVars, histVars, ForwardedOk, Missed
<1>6. ASSUME NEW c \in Clients, AutoSubscribe(c) PROVE ForwardedOk'
  BY <1>6 DEF AutoSubscribe, msgVars, ForwardedOk, Missed
<1>7. ASSUME NEW c \in Clients, Disconnect(c) PROVE ForwardedOk'
  <2>1. /\ msg' = msg /\ wire' = wire /\ missed \subseteq missed'
        /\ \A d \in Clients : sent[d] \subseteq sent'[d]
    BY <1>7 DEF Disconnect, msgVars, TypeOK, HistoryType
  <2>2. QED  BY <2>1 DEF ForwardedOk, Missed
<1>8. ASSUME NEW c \in Clients, TakeMessage(c) PROVE ForwardedOk'
  BY <1>8 DEF TakeMessage, msgVars, histVars, ForwardedOk, Missed
<1>9. ASSUME NEW c \in Clients, NEW f \in Requests, Ask(c, f) PROVE ForwardedOk'
  BY <1>9 DEF Ask, msgVars, histVars, ForwardedOk, Missed
<1>10. ASSUME NEW c \in Clients, NEW f \in Filters, Unsubscribe(c, f) PROVE ForwardedOk'
  BY <1>10 DEF Unsubscribe, msgVars, ForwardedOk, Missed
<1>11. ASSUME NEW c \in Clients, NEW f \in Filters, StartFilter(c, f) PROVE ForwardedOk'
  <2>1. /\ msg' = msg /\ wire' = wire /\ missed \subseteq missed'
        /\ \A d \in Clients : sent[d] \subseteq sent'[d]
    BY <1>11 DEF StartFilter, msgVars, TypeOK, HistoryType
  <2>2. QED  BY <2>1 DEF ForwardedOk, Missed
<1>12. ASSUME NEW c \in Clients, LoadLocal(c) PROVE ForwardedOk'
  BY <1>12 DEF LoadLocal, ForwardedOk, Missed
<1>13. ASSUME NEW c \in Clients, LoadEnd(c) PROVE ForwardedOk'
  <2>1. /\ msg' = msg /\ wire' = wire /\ missed \subseteq missed'
        /\ \A d \in Clients : sent[d] \subseteq sent'[d]
    BY <1>13 DEF LoadEnd, msgVars, TypeOK, HistoryType
  <2>2. QED  BY <2>1 DEF ForwardedOk, Missed
<1>14. ASSUME NEW g \in gets, PeerGet(g) PROVE ForwardedOk'
  <2>1. /\ msg' = msg /\ wire' = wire /\ missed \subseteq missed'
        /\ \A d \in Clients : sent[d] \subseteq sent'[d]
    BY <1>14 DEF PeerGet, TypeOK, HistoryType
  <2>2. QED  BY <2>1 DEF ForwardedOk, Missed
<1>15. ASSUME NEW g \in gets, Timeout(g) PROVE ForwardedOk'
  <2>1. msg' = msg /\ wire' = wire /\ missed \subseteq missed' /\ sent' = sent
    BY <1>15 DEF Timeout, msgVars
  <2>2. QED  BY <2>1 DEF ForwardedOk, Missed
<1>16. ASSUME NEW m \in Messages, NEW t \in Topics, NEW n \in Nodes, Forwards(m, t, n)
      PROVE  ForwardedOk'
  <2>1. /\ wire \subseteq wire' /\ missed \subseteq missed'
        /\ \A d \in Clients : sent[d] \subseteq sent'[d]
        /\ \A l \in Messages : l # m => msg'[l] = msg[l]
    BY <1>16 DEF Forwards, TypeOK, MessageType, HistoryType
  <2>2. ASSUME NEW d \in Clients
        PROVE  \/ m \in sent'[d]
               \/ \E p \in Nodes : <<m, d, p>> \in wire'
               \/ <<d, m, "unrouted">> \in missed' \/ <<d, m, "overtaken">> \in missed'
    <3>. DEFINE local(k) == {c \in Clients : n \in Targets(k, t, c) /\ Reachable(c, n)}
    <3>1. PICK k \in applied[n] .. Len(rlog) :
            /\ wire' = wire \cup UNION {{<<m, c, p>> : p \in Targets(k, t, c) \ {n}} : c \in Clients}
            /\ sent' = [c \in Clients |-> IF c \in local(k) THEN sent[c] \cup {m} ELSE sent[c]]
            /\ missed' = missed
                  \cup {<<c, m, "unrouted">> : c \in {c \in Clients : Heard(k, t, c) = {}}}
                  \cup {<<c, m, "overtaken">> : c \in {c \in Clients :
                           Heard(k, t, c) # {} /\ \A f \in Heard(k, t, c) : Overtaken(k, c, f)}}
      BY <1>16 DEF Forwards
    <3>2. CASE Heard(k, t, d) = {}
      BY <3>1, <3>2
    <3>3. CASE Heard(k, t, d) # {} /\ \A f \in Heard(k, t, d) : Overtaken(k, d, f)
      BY <3>1, <3>3
    <3>4. CASE \E f \in Heard(k, t, d) : ~ Overtaken(k, d, f)
      <4>1. PICK f \in Heard(k, t, d) : ~ Overtaken(k, d, f)
        BY <3>4
      <4>2. /\ sess[d] # None /\ sess[d] \in Session /\ f \in sess[d].subs
            /\ RouteMatches(t, f) /\ since[d][f] <= k
        BY <4>1 DEF Heard, TypeOK, LinkType
      <4>3. f \in Filters /\ sess[d].node \in Nodes
        BY <4>2 DEF Session
      <4>4. k \in Nat /\ k \in since[d][f] .. Len(rlog)
        BY <4>2, <4>3 DEF TypeOK, RouteType, HistoryType
      <4>5. PICK i \in 1 .. k : RoutedAt(k, d, f, i)
        BY <4>1, <4>2, <4>4 DEF RoutedOk, RoutedOf, RoutedTo
      <4>6. Routes(k, d, f) = {sess[d].node}
        BY <4>4, <4>5, RouteIsOne
      <4>7. sess[d].node \in Targets(k, t, d)
        BY <4>2, <4>3, <4>6 DEF Targets
      <4>8. CASE sess[d].node = n
        BY <3>1, <4>2, <4>7, <4>8 DEF Reachable
      <4>9. CASE sess[d].node # n
        BY <3>1, <4>3, <4>7, <4>9
      <4>10. QED  BY <4>8, <4>9
    <3>5. QED  BY <3>2, <3>3, <3>4
  <2>3. QED  BY <2>1, <2>2 DEF ForwardedOk, Missed
<1>17. ASSUME NEW m \in Messages, Store(m) PROVE ForwardedOk'
  <2>1. /\ wire' = wire /\ missed \subseteq missed' /\ sent' = sent
        /\ \A l \in Messages : msg'[l].pc # "none" => msg[l].pc # "none"
    BY <1>17 DEF Store, TypeOK, MessageType
  <2>2. QED  BY <2>1 DEF ForwardedOk, Missed
<1>18. ASSUME NEW e \in removing, Propose(e) PROVE ForwardedOk'
  BY <1>18 DEF Propose, msgVars, histVars, ForwardedOk, Missed
<1>19. ASSUME NEW w \in wire, Arrive(w) PROVE ForwardedOk'
  <2>1. /\ msg' = msg /\ wire' = wire \ {w} /\ missed \subseteq missed'
        /\ \A d \in Clients : sent[d] \subseteq sent'[d]
    BY <1>19 DEF Arrive, TypeOK, HistoryType
  <2>2. w[2] \in Clients => w[1] \in sent'[w[2]] \/ <<w[2], w[1], "moved">> \in missed'
    BY <1>19 DEF Arrive, Reachable, TypeOK, HistoryType
  <2>3. QED  BY <2>1, <2>2 DEF ForwardedOk, Missed
<1>20. ASSUME NEW w \in wire, LoseForward(w) PROVE ForwardedOk'
  <2>1. /\ msg' = msg /\ wire' = wire \ {w} /\ missed \subseteq missed' /\ sent' = sent
        /\ <<w[2], w[1], "lost">> \in missed'
    BY <1>20 DEF LoseForward
  <2>2. QED  BY <2>1 DEF ForwardedOk, Missed
<1>21. ASSUME UNCHANGED vars PROVE ForwardedOk'
  BY <1>21 DEF vars, ForwardedOk, Missed
<1>22. QED
  BY <1>1, <1>2, <1>3, <1>4, <1>5, <1>6, <1>7, <1>8, <1>9, <1>10, <1>11, <1>12, <1>13, <1>14,
     <1>15, <1>16, <1>17, <1>18, <1>19, <1>20, <1>21, StepCases

-----------------------------------------------------------------------------
(* What the parts say together. *)

\* What nothing is under way for any more was loaded or forwarded, or both paths failed.
LEMMA NoGapFollows ==
    ASSUME TypeOK, MarkedIsSent, WantedOk, LoadedOk, PassedOk, ForwardedOk
    PROVE  NoGap
<1>. SUFFICES ASSUME NEW c \in Clients, NEW m \in Messages, Settled(c), msg[m].pc = "done",
                     NEW f \in wanted[c], RouteMatches(msg[m].topic, f), m \notin sent[c]
              PROVE  /\ \E why \in {"unrouted", "overtaken", "moved", "lost"} : Missed(c, m, why)
                     /\ \E why \in {"unstored", "failed"} : Missed(c, m, why)
  BY DEF NoGap
<1>1. \E why \in {"unrouted", "overtaken", "moved", "lost"} : Missed(c, m, why)
  BY DEF ForwardedOk, Settled
<1>2. msg[m].topic \in Topics /\ msg[m].node \in Nodes /\ f \in Filters
  BY DEF TypeOK, MessageType, HistoryType
<1>3. StoreMatches(msg[m].topic, f)
  BY <1>2, FilterFacts, DeliveryAssumption, StoreAgreesWithRouter
<1>4. ~ Pending(c, f) /\ ~ Asking(c, f, msg[m].node)
  BY DEF Settled, Pending, Asking, NoWork
<1>5. sess[c] # None /\ f \in sess[c].subs
  BY <1>4 DEF WantedOk
<1>6. <<f, msg[m].node>> \in passed[c]
  BY <1>2, <1>4, <1>5 DEF LoadedOk
<1>7. <<c, m>> \in marks \/ \E why \in {"unstored", "failed"} : Missed(c, m, why)
  BY <1>3, <1>6 DEF PassedOk
<1>8. <<c, m>> \in marks => Missed(c, m, "failed")
  BY DEF MarkedIsSent, Settled, Missed
<1>9. QED  BY <1>1, <1>7, <1>8

\* The parts hold at the start.
LEMMA InitInv == Init => DeliveryInv
<1>. SUFFICES ASSUME Init PROVE DeliveryInv
  OBVIOUS
<1>1. conf \in Scenarios /\ conf.first \in Records
  BY DeliveryAssumption DEF Init
<1>2. ConfigType
  BY <1>1 DEF Init, ConfigType
<1>3. LinkType
  <2>1. NoHello \in Hello
    BY AuthFacts, DeliveryAssumption DEF NoHello, Hello
  <2>2. NoWork \in Work /\ <<>> \in Seq(Item)
    BY DEF NoWork, Work
  <2>3. QED  BY <2>1, <2>2 DEF Init, LinkType
<1>4. LoadType /\ RouteType /\ HistoryType
  BY DEF Init, LoadType, RouteType, HistoryType
<1>5. MessageType
  BY DEF Init, MessageType, NotPublished, Publication
<1>6. StageOk /\ LoadOk
  BY DEF Init, StageOk, StageOf, LoadOk
<1>7. AuthorisedOk
  BY DEF Init, AuthorisedOk, GrantedOk, GrantedOf, RoutesOk, EntitledOk, NoHello, NoWork
<1>8. AutoOk /\ RoutedOk /\ MarkedIsSent
  BY DEF Init, AutoOk, AutoOf, NoWork, RoutedOk, RoutedOf, MarkedIsSent
<1>9. WantedOk /\ LoadedOk /\ PassedOk /\ ForwardedOk
  BY DEF Init, WantedOk, LoadedOk, PassedOk, ForwardedOk, NotPublished
<1>10. QED
  BY <1>2, <1>3, <1>4, <1>5, <1>6, <1>7, <1>8, <1>9 DEF DeliveryInv, TypeOK

\* Every step keeps AuthorisedOk.
LEMMA AuthorisedOkKept ==
    ASSUME TypeOK, StageOk, LoadOk, AuthorisedOk, [Next]_vars
    PROVE  AuthorisedOk'
<1>. SUFFICES ASSUME conf'.auth, conf'.acl PROVE GrantedOk' /\ RoutesOk' /\ EntitledOk'
  BY DEF AuthorisedOk
<1>1. conf.auth /\ conf.acl
  BY HistoryGrows
<1>2. GrantedOk /\ RoutesOk /\ EntitledOk
  BY <1>1 DEF AuthorisedOk
<1>3. QED  BY <1>1, <1>2, GrantedOkKept, RoutesOkKept, EntitledOkKept

\* The parts are kept together.
LEMMA StepInv == DeliveryInv /\ [Next]_vars => DeliveryInv'
<1>. SUFFICES ASSUME DeliveryInv, [Next]_vars PROVE DeliveryInv'
  OBVIOUS
<1>. USE DEF DeliveryInv
<1>1. TypeOK'
  BY ConfigTypeKept, LinkTypeKept, LoadTypeKept, RouteTypeKept, MessageTypeKept, HistoryTypeKept
  DEF TypeOK
<1>2. StageOk' /\ LoadOk'
  BY StageOkKept, LoadOkKept
<1>3. AuthorisedOk' /\ AutoOk'
  BY AuthorisedOkKept, AutoOkKept
<1>4. RoutedOk'
  BY RoutedOkKept
<1>5. MarkedIsSent' /\ WantedOk' /\ LoadedOk' /\ PassedOk' /\ ForwardedOk'
  BY MarkedIsSentKept, WantedOkKept, LoadedOkKept, PassedOkKept, ForwardedOkKept
<1>6. QED  BY <1>1, <1>2, <1>3, <1>4, <1>5

\* The parts hold in every state of the delivery paths, for every set of nodes,
\* clients, accounts, topics, filters and messages.
THEOREM DeliveryInvariant == Spec => []DeliveryInv
<1>1. QED  BY InitInv, StepInv, PTL DEF Spec

\* Every variable stays in its type.
THEOREM TypeCorrect == Spec => []TypeOK
<1>1. DeliveryInv => TypeOK
  BY DEF DeliveryInv
<1>2. QED  BY <1>1, DeliveryInvariant, PTL

\* A device is handed only messages of topics that belong to an account it was at some time
\* admitted with, live or loaded, by a subscription it asked for, was given or took over
\* (api.rs, fanout.rs and the session of rmqtt).  What it took over is not checked against
\* the account of the later login.
THEOREM OnlyAuthorisedDelivered == Spec => []DeliveredAuthorised
<1>1. DeliveryInv => DeliveredAuthorised
  BY DEF DeliveryInv, AuthorisedOk, EntitledOk, Entitled, DeliveredAuthorised
<1>2. QED  BY <1>1, DeliveryInvariant, PTL

\* An automatic filter is refused only to an account that changed between the two reads
\* of its record (api.rs, fanout.rs).
THEOREM AutomaticIsGranted == Spec => []AutoGranted
<1>1. DeliveryInv => AutoGranted
  BY DEF DeliveryInv, AutoOk, AutoOf, AutoGranted
<1>2. QED  BY <1>1, DeliveryInvariant, PTL

\* A message that a store marked as read is handed to the session, unless the load that it
\* was for failed, or no longer waited for it (msgstore.rs get, message_load).
THEOREM MarkedNotLost == Spec => []MarkedIsSent
<1>1. DeliveryInv => MarkedIsSent
  BY DEF DeliveryInv
<1>2. QED  BY <1>1, DeliveryInvariant, PTL

\* A session's subscriptions are routed to its node at the end of the log, in whichever
\* order the spawned Removes are proposed, but for those that the late Remove of an earlier
\* UNSUBSCRIBE of the same session has undone.
THEOREM SubscriptionsRouted == Spec => []SubscribedIsRouted
<1>1. DeliveryInv => SubscribedIsRouted
  BY SubscribedRoutes DEF DeliveryInv
<1>2. QED  BY <1>1, DeliveryInvariant, PTL

\* A message of a subscription that is handed to the session neither live nor from a store
\* failed on both paths: live, it was published before the publishing node could know of any
\* subscription for it, or after a late Remove had undone them, or forwarded to a node the
\* session had left, or lost; and it was stored after the load had passed, or its load failed.
THEOREM NoMessageGap == Spec => []NoGap
<1>1. DeliveryInv => NoGap
  BY NoGapFollows DEF DeliveryInv
<1>2. QED  BY <1>1, DeliveryInvariant, PTL

=============================================================================
