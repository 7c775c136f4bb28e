----------------------------- MODULE MessageLog -----------------------------
(***************************************************************************)
(* What the broker gets from this message store through the trait          *)
(* MessageManager (src/vendor/rmqtt/src/message.rs), over restarts of the  *)
(* process.  It is less than the trait asks for: with a message, store is  *)
(* told which clients have already been forwarded it (message.rs:67), and  *)
(* this store does not use the list (src/src/msgstore.rs:273).  A message  *)
(* is therefore accepted as handed to nobody, and get counts only what get *)
(* itself handed out: a client that had the message live is handed it once *)
(* more.                                                                   *)
(*                                                                         *)
(* A message is accepted under an id of its own and never altered.  get    *)
(* hands a client every available message get has not handed it before.    *)
(* What is available may be dropped once it has expired, and earlier only  *)
(* by a bounded store.  Messages are saved some time after they were       *)
(* accepted; a restart comes back with the saved ones, and with marks of   *)
(* deliveries that really took place.                                      *)
(***************************************************************************)
EXTENDS Integers

CONSTANTS
    Clients,
    Filters,   \* sets of topics
    Bounded    \* whether the store may drop messages to stay within a cap

VARIABLES
    up,        \* whether a process runs
    now,
    book,      \* id -> [topic, expiry], of every message still kept somewhere
    avail,     \* ids that get considers
    served,    \* <<client, id>> pairs that get handed out, as far as this process knows;
               \* not the live deliveries that store is told of
    saved      \* id -> clients marked, of every saved message

logVars == <<up, now, book, avail, served, saved>>

NoEntry == [k \in {} |-> {}]

\* clients marked for an id
Marked(k) == {c \in Clients : <<c, k>> \in served}

\* a message may go when it has expired, or when the store is bounded
MayDrop(k) == Bounded \/ book[k].expiry <= now

\* no message is altered, and none that is available or saved is forgotten
Faithful ==
    /\ \A k \in DOMAIN book \cap DOMAIN book' : book'[k] = book[k]
    /\ avail' \cup DOMAIN saved' \subseteq DOMAIN book'

NothingNew == DOMAIN book' \subseteq DOMAIN book

DropsAllowed == \A k \in avail \ avail' : MayDrop(k)

\* store: a message becomes available under a new id.  served stays: whoever is reported
\* to have the message already is not marked
Accept ==
    /\ up /\ up'
    /\ \E k \in DOMAIN book' \ DOMAIN book :
          /\ DOMAIN book' \subseteq DOMAIN book \cup {k}
          /\ avail' \subseteq avail \cup {k}
    /\ DropsAllowed
    /\ UNCHANGED <<now, served, saved>>

\* get(c, f): exactly the available, unexpired messages get has not handed to c yet
Hand(c, f) ==
    /\ up /\ up'
    /\ NothingNew
    /\ avail' \subseteq avail
    /\ DropsAllowed
    /\ served' = served \cup
          ({c} \X {k \in avail' : book[k].topic \in f /\ book[k].expiry > now})
    /\ UNCHANGED <<now, saved>>

Drop ==
    /\ up /\ up'
    /\ NothingNew
    /\ avail' \subseteq avail
    /\ DropsAllowed
    /\ UNCHANGED <<now, served, saved>>

\* only dropped messages lose their saved copy; a new copy carries real marks
Save ==
    /\ up /\ up'
    /\ NothingNew
    /\ \A k \in DOMAIN saved \ DOMAIN saved' : k \notin avail
    /\ \A k \in DOMAIN saved' :
          \/ k \in DOMAIN saved /\ saved'[k] = saved[k]
          \/ saved'[k] \subseteq Marked(k)
    /\ UNCHANGED <<now, avail, served>>

Stop ==
    /\ up /\ ~ up'
    /\ NothingNew
    /\ avail' = {} /\ served' = {}
    /\ UNCHANGED <<now, saved>>

\* a new process: what was saved and has not expired
Start ==
    /\ ~ up /\ up'
    /\ NothingNew
    /\ avail' = {k \in DOMAIN saved : book[k].expiry > now}
    /\ served' = {p \in Clients \X DOMAIN saved : p[1] \in saved[p[2]]}
    /\ UNCHANGED <<now, saved>>

Tick ==
    /\ now' > now
    /\ UNCHANGED <<up, book, avail, served, saved>>

LogInit ==
    /\ up = TRUE
    /\ book = NoEntry
    /\ avail = {}
    /\ served = {}
    /\ saved = NoEntry

LogNext ==
    /\ Faithful
    /\ \/ Accept
       \/ \E c \in Clients, f \in Filters : Hand(c, f)
       \/ Drop
       \/ Save
       \/ Stop
       \/ Start
       \/ Tick

LogSpec == LogInit /\ [][LogNext]_logVars
=============================================================================
