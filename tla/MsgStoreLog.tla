---------------------------- MODULE MsgStoreLog ----------------------------
(***************************************************************************)
(* MsgStore implements MessageLog: the refinement mapping.                 *)
(***************************************************************************)
EXTENDS MsgStore

\* what an id stands for; delivered is left out
Content(msg) == [topic |-> msg.topic, expiry |-> msg.expiry]

\* the copies of messages the store keeps: in memory, in batches, in the table
Copies(k) ==
    {m[k] : m \in {n \in {mem.msgs, disk} \cup {flight[f].batch : f \in Flushers} :
                      k \in DOMAIN n}}

KeptIds == DOMAIN mem.msgs \cup DOMAIN disk \cup UNION {DOMAIN flight[f].batch : f \in Flushers}

\* what the store knows of the messages it keeps anywhere
Book == [k \in KeptIds |-> Content(CHOOSE msg \in Copies(k) : TRUE)]

Avail == IF Up THEN DOMAIN mem.msgs ELSE {}

Served == IF Up THEN handed ELSE {}

Saved == [k \in DOMAIN disk |-> disk[k].delivered]

Log == INSTANCE MessageLog WITH
          Bounded <- MaxMsgs > 0 \/ MaxBytes > 0,
          up <- Up, now <- now, book <- Book, avail <- Avail, served <- Served, saved <- Saved

\* The message store keeps the promises of MessageLog: get hands every client all
\* that get did not hand it yet and nothing else (a message the client was forwarded
\* live is handed to it too, since store ignores that list), a message is never altered
\* and is dropped early only by a cap, rows are deleted only after their message is gone,
\* and a restart brings back saved messages with marks of real deliveries only.
ImplementsLog == Log!LogSpec
=============================================================================
