------------------------ MODULE UserDirectoryProofs ------------------------
(***************************************************************************)
(* Theorems about UserDirectory, for any number of nodes, users, passwords *)
(* and requests: what a node caches of a user agrees with its table, a     *)
(* login is accepted only with the password it should be, and the tables   *)
(* of the nodes agree once the changes have reached them.                  *)
(*                                                                         *)
(* All five follow from one inductive invariant, DirectoryInv.  It says    *)
(* more than the properties where they are silent: while a purge is        *)
(* outstanding, what the caches hold besides the row; which record a login *)
(* holds between its steps; and, while a change is on its way, the one     *)
(* value that every row of its user has or is going to have.               *)
(*                                                                         *)
(* A step is described by what it does to the fields of requests (Step and *)
(* its variants), each part of the invariant has a lemma for the steps     *)
(* that leave it alone (...Quiet), and each action one for DirectoryInv.   *)
(***************************************************************************)
EXTENDS UserDirectory, TLAPS

-----------------------------------------------------------------------------
(* Where a request may be. *)

\* the steps of a login that hold a record
Holding == {"remember", "authCache", "fast", "fastInsert", "hashWait", "hash", "keep"}

\* What a request holds fits the handler it is in and the step it has reached.
WellPlaced(q) ==
    /\ q.kind = "none" => q = NoRequest
    /\ q.kind # "none" => q.node \in Nodes /\ q.user \in Usernames /\ q.pc # "idle"
    /\ q.kind = "create" => /\ q.rec \in UserRecord /\ q.pw = q.rec.pw
                            /\ q.pc \in {"permit", "insert", "verifier", "fanout", "done"}
    /\ q.kind = "delete" => q.pc \in {"delete", "purgeAuth", "purgeUser", "fanout", "done"}
    /\ q.kind = "connect" => /\ q.pw \in Passwords
                             /\ q.pc \in {"lookup", "read", "done"} \cup Holding
                             /\ q.pc \in Holding => q.rec \in UserRecord
                             /\ \A n \in Nodes : q.repl[n] = "none"
    /\ q.pc \notin {"fanout", "done"} => \A n \in Nodes : q.repl[n] = "none"
    /\ q.pc # "done" => q.answer = "none"
    /\ q.answer = "allow" => q.kind = "connect"

Places == \A r \in Requests : WellPlaced(req[r])

\* what a request is about
Same(q, o) == q.kind = o.kind /\ q.node = o.node /\ q.user = o.user /\ q.pw = o.pw

\* The value that stands for nothing is no node, no username, no password, no record and no
\* cache entry: a miss of a lookup is told apart from a hit.
LEMMA NoneApart ==
    /\ None \notin Nodes /\ None \notin Usernames /\ None \notin Passwords /\ None \notin UserRecord
    /\ \A rec \in UserRecord, left \in Nat : [rec |-> rec, left |-> left] # None
BY DirectoryAssumption DEF UserRecord

\* A request that was not made fits.
LEMMA NoRequestOK == NoRequest \in Request /\ WellPlaced(NoRequest)
BY NoneApart DEF NoRequest, Request, WellPlaced, Kinds, PCs, Answers, Stages

\* fanout sends a POST to every peer.
LEMMA FannedOK ==
    ASSUME NEW q \in Request, WellPlaced(q), q.kind \in {"create", "delete"}, q.pc # "done"
    PROVE  /\ Fanned(q) \in Request /\ WellPlaced(Fanned(q)) /\ Same(Fanned(q), q)
           /\ Fanned(q).pc = "fanout" /\ Fanned(q).rec = q.rec /\ Fanned(q).answer = "none"
           /\ \A n \in Nodes : Fanned(q).repl[n] = IF n = q.node THEN "none" ELSE "sent"
<1>1. Fanned(q) \in Request
  BY DEF Fanned, Peers, Request, PCs, Stages
<1>2. /\ Fanned(q).kind = q.kind /\ Fanned(q).node = q.node /\ Fanned(q).user = q.user /\ Fanned(q).pw = q.pw
      /\ Fanned(q).pc = "fanout" /\ Fanned(q).rec = q.rec /\ Fanned(q).answer = q.answer
      /\ Fanned(q).repl = [n \in Nodes |-> IF n \in Peers(q.node) THEN "sent" ELSE "none"]
  BY DEF Fanned, Request
<1>3. \A n \in Nodes : Fanned(q).repl[n] = IF n = q.node THEN "none" ELSE "sent"
  BY <1>2 DEF Peers
<1>4. q.answer = "none"
  BY DEF WellPlaced
<1>5. WellPlaced(Fanned(q))
  BY <1>2, <1>4 DEF WellPlaced
<1>6. QED  BY <1>1, <1>2, <1>3, <1>4, <1>5 DEF Same

-----------------------------------------------------------------------------
(* What the steps do to the requests. *)

\* request r goes on, the others stay
Step(r, pc, answer, rec) ==
    /\ req' \in [Requests -> Request]
    /\ \A s \in Requests : s # r => req'[s] = req[s]
    /\ Same(req'[r], req[r]) /\ req'[r].pc = pc /\ req'[r].answer = answer /\ req'[r].rec = rec

\* its POSTs stay as they are
StepHome(r, pc, answer, rec) ==
    /\ Step(r, pc, answer, rec)
    /\ \A n \in Nodes : req'[r].repl[n] = req[r].repl[n]

\* it has just sent its POSTs
StepFanned(r) ==
    /\ Step(r, "fanout", "none", req[r].rec)
    /\ \A n \in Nodes : req'[r].repl[n] = IF n = req[r].node THEN "none" ELSE "sent"

\* its POST to p goes on
StepPost(r, p, stage) ==
    /\ Step(r, req[r].pc, req[r].answer, req[r].rec)
    /\ \A n \in Nodes : req'[r].repl[n] = IF n = p THEN stage ELSE req[r].repl[n]

\* A request that is replaced in part.
LEMMA Replaced ==
    ASSUME TypeOK, NEW r \in Requests, NEW q \in Request, req' = [req EXCEPT ![r] = q]
    PROVE  /\ req' \in [Requests -> Request] /\ req'[r] = q
           /\ \A s \in Requests : s # r => req'[s] = req[s]
BY DEF TypeOK

\* What a step on the request's own node does.
LEMMA HomeEffect ==
    ASSUME TypeOK, NEW r \in Requests, NEW pc \in PCs, NEW answer \in Answers,
           NEW rec \in UserRecord \cup {None},
           req' = [req EXCEPT ![r] = [req[r] EXCEPT !.pc = pc, !.answer = answer, !.rec = rec]]
    PROVE  StepHome(r, pc, answer, rec)
<1> DEFINE q == [req[r] EXCEPT !.pc = pc, !.answer = answer, !.rec = rec]
<1>1. req[r] \in Request
  BY DEF TypeOK
<1>2. q \in Request /\ Same(q, req[r]) /\ q.pc = pc /\ q.answer = answer /\ q.rec = rec /\ q.repl = req[r].repl
  BY <1>1 DEF Request, Same
<1> HIDE DEF q
<1>3. /\ req' \in [Requests -> Request] /\ req'[r] = q
      /\ \A s \in Requests : s # r => req'[s] = req[s]
  BY <1>2, Replaced DEF q
<1>4. QED  BY <1>2, <1>3 DEF StepHome, Step

\* A step of a request on its own node.
LEMMA GoEffect ==
    ASSUME TypeOK, NEW r \in Requests, NEW pc \in PCs, Go(r, pc)
    PROVE  StepHome(r, pc, req[r].answer, req[r].rec)
<1>1. req[r] \in Request
  BY DEF TypeOK
<1>2. [req[r] EXCEPT !.pc = pc] = [req[r] EXCEPT !.pc = pc, !.answer = req[r].answer, !.rec = req[r].rec]
  BY <1>1 DEF Request
<1>3. req' = [req EXCEPT ![r] = [req[r] EXCEPT !.pc = pc]]
  BY DEF Go
<1>4. req[r].answer \in Answers /\ req[r].rec \in UserRecord \cup {None}
  BY <1>1 DEF Request
<1>5. QED  BY <1>2, <1>3, <1>4, HomeEffect

\* The last step of a request.
LEMMA FinishEffect ==
    ASSUME TypeOK, NEW r \in Requests, NEW answer \in Answers, Finish(r, answer)
    PROVE  StepHome(r, "done", answer, req[r].rec)
<1>1. req[r] \in Request
  BY DEF TypeOK
<1>2. [req[r] EXCEPT !.pc = "done", !.answer = answer] =
         [req[r] EXCEPT !.pc = "done", !.answer = answer, !.rec = req[r].rec]
  BY <1>1 DEF Request
<1>3. req' = [req EXCEPT ![r] = [req[r] EXCEPT !.pc = "done", !.answer = answer]]
  BY DEF Finish, TypeOK
<1>4. req[r].rec \in UserRecord \cup {None} /\ "done" \in PCs
  BY <1>1 DEF Request, PCs
<1>5. QED  BY <1>2, <1>3, <1>4, HomeEffect

\* The record that was read is kept.
LEMMA ReadEffect ==
    ASSUME TypeOK, NEW r \in Requests, NEW pc \in PCs, NEW rec \in UserRecord,
           req' = [req EXCEPT ![r].pc = pc, ![r].rec = rec]
    PROVE  StepHome(r, pc, req[r].answer, rec)
<1>1. req[r] \in Request
  BY DEF TypeOK
<1>2. [req[r] EXCEPT !.pc = pc, !.rec = rec] = [req[r] EXCEPT !.pc = pc, !.answer = req[r].answer, !.rec = rec]
  BY <1>1 DEF Request
<1>3. req' = [req EXCEPT ![r] = [req[r] EXCEPT !.pc = pc, !.rec = rec]]
  BY DEF TypeOK
<1>4. req[r].answer \in Answers
  BY <1>1 DEF Request
<1>5. QED  BY <1>2, <1>3, <1>4, HomeEffect

\* The POSTs are sent.
LEMMA FannedEffect ==
    ASSUME TypeOK, Places, NEW r \in Requests, req[r].kind \in {"create", "delete"}, req[r].pc # "done",
           req' = [req EXCEPT ![r] = Fanned(req[r])]
    PROVE  StepFanned(r) /\ WellPlaced(req'[r])
<1>1. req[r] \in Request /\ WellPlaced(req[r])
  BY DEF TypeOK, Places
<1>2. Fanned(req[r]) \in Request
  BY <1>1, FannedOK
<1>3. /\ req' \in [Requests -> Request] /\ req'[r] = Fanned(req[r])
      /\ \A s \in Requests : s # r => req'[s] = req[s]
  BY <1>2, Replaced
<1>4. /\ Same(req'[r], req[r]) /\ req'[r].pc = "fanout" /\ req'[r].answer = "none" /\ req'[r].rec = req[r].rec
      /\ \A n \in Nodes : req'[r].repl[n] = IF n = req[r].node THEN "none" ELSE "sent"
      /\ WellPlaced(req'[r])
  BY <1>1, <1>3, FannedOK
<1>5. QED  BY <1>3, <1>4 DEF StepFanned, Step

\* What a step does to POSTs to one peer.
LEMMA PostEffect ==
    ASSUME TypeOK, NEW r \in Requests, NEW p \in Nodes, NEW stage \in Stages,
           req' = [req EXCEPT ![r].repl[p] = stage]
    PROVE  StepPost(r, p, stage)
<1>1. req[r] \in Request
  BY DEF TypeOK
<1>2. req'[r] = [req[r] EXCEPT !.repl[p] = stage] /\ \A s \in Requests : s # r => req'[s] = req[s]
  BY DEF TypeOK
<1>3. req'[r] \in Request /\ \A n \in Nodes : req'[r].repl[n] = IF n = p THEN stage ELSE req[r].repl[n]
  BY <1>1, <1>2 DEF Request
<1>4. Same(req'[r], req[r]) /\ req'[r].pc = req[r].pc /\ req'[r].answer = req[r].answer /\ req'[r].rec = req[r].rec
  BY <1>1, <1>2 DEF Request, Same
<1>5. req' \in [Requests -> Request]
  BY <1>3 DEF TypeOK
<1>6. QED  BY <1>2, <1>3, <1>4, <1>5 DEF StepPost, Step

\* A request that goes on on its own node still fits.
LEMMA HomePlaced ==
    ASSUME Places, NEW r \in Requests, NEW pc, NEW answer, NEW rec, StepHome(r, pc, answer, rec),
           req[r].pc \notin {"idle", "done", "fanout"} \/ (req[r].pc = "fanout" /\ pc \in {"fanout", "done"}),
           pc # "done" => answer = "none",
           answer = "allow" => req[r].kind = "connect",
           \/ req[r].kind = "create" /\ rec = req[r].rec /\ pc \in {"permit", "insert", "verifier", "fanout", "done"}
           \/ req[r].kind = "delete" /\ pc \in {"delete", "purgeAuth", "purgeUser", "fanout", "done"}
           \/ /\ req[r].kind = "connect" /\ pc \in {"lookup", "read", "done"} \cup Holding
              /\ pc \in Holding => rec \in UserRecord
    PROVE  Places'
<1>1. WellPlaced(req[r]) /\ \A s \in Requests : s # r => WellPlaced(req'[s])
  BY DEF Places, StepHome, Step
<1> DEFINE q == req[r]
           o == req'[r]
<1>2. /\ o.kind = q.kind /\ o.node = q.node /\ o.user = q.user /\ o.pw = q.pw
      /\ o.pc = pc /\ o.answer = answer /\ o.rec = rec /\ \A n \in Nodes : o.repl[n] = q.repl[n]
  BY DEF StepHome, Step, Same
<1>3. q.kind # "none" /\ q.node \in Nodes /\ q.user \in Usernames /\ pc # "idle"
  BY <1>1 DEF WellPlaced, Holding
<1>4. q.kind = "create" => q.rec \in UserRecord /\ q.pw = q.rec.pw
  BY <1>1 DEF WellPlaced
<1>5. q.kind = "connect" => q.pw \in Passwords /\ \A n \in Nodes : q.repl[n] = "none"
  BY <1>1 DEF WellPlaced
<1>6. pc \notin {"fanout", "done"} => \A n \in Nodes : q.repl[n] = "none"
  BY <1>1 DEF WellPlaced
<1>7. /\ q.kind = "create" => rec = q.rec /\ pc \in {"permit", "insert", "verifier", "fanout", "done"}
      /\ q.kind = "delete" => pc \in {"delete", "purgeAuth", "purgeUser", "fanout", "done"}
      /\ q.kind = "connect" => /\ pc \in {"lookup", "read", "done"} \cup Holding
                               /\ pc \in Holding => rec \in UserRecord
  OBVIOUS
<1> HIDE DEF q, o
<1>8. WellPlaced(o)
  <2>1. o.kind # "none" /\ o.node \in Nodes /\ o.user \in Usernames /\ o.pc # "idle"
    BY <1>2, <1>3
  <2>2. o.kind = "create" => /\ o.rec \in UserRecord /\ o.pw = o.rec.pw
                             /\ o.pc \in {"permit", "insert", "verifier", "fanout", "done"}
    BY <1>2, <1>4, <1>7
  <2>3. /\ o.kind = "delete" => o.pc \in {"delete", "purgeAuth", "purgeUser", "fanout", "done"}
        /\ o.kind = "connect" => /\ o.pw \in Passwords
                                 /\ o.pc \in {"lookup", "read", "done"} \cup Holding
                                 /\ o.pc \in Holding => o.rec \in UserRecord
                                 /\ \A n \in Nodes : o.repl[n] = "none"
    BY <1>2, <1>5, <1>7
  <2>4. o.pc \notin {"fanout", "done"} => \A n \in Nodes : o.repl[n] = "none"
    BY <1>2, <1>6
  <2>5. (o.pc # "done" => o.answer = "none") /\ (o.answer = "allow" => o.kind = "connect")
    BY <1>2 DEF q
  <2>6. QED  BY <2>1, <2>2, <2>3, <2>4, <2>5 DEF WellPlaced
<1>9. QED  BY <1>1, <1>8 DEF Places, o

-----------------------------------------------------------------------------
(* The invariant. *)

\* q has changed the row of u on n, and the verifications cached there are not purged yet
AuthDue(q, n, u) ==
    /\ q.user = u
    /\ (q.node = n /\ q.pc = "purgeAuth") \/ q.repl[n] = "applied"

\* q has changed the row of u on n, and the record cached there is not purged yet
PurgeDue(q, n, u) ==
    /\ q.user = u
    /\ (q.node = n /\ q.pc \in {"purgeAuth", "purgeUser"}) \/ q.repl[n] \in {"applied", "purged"}

\* A stored verifier is for the password of the row.
VerifierFits ==
    \A n \in Nodes : \A u \in Usernames \ (raced[n] \cup kept[n]) :
        verifiers[n][u] # None => users[n][u] # None /\ users[n][u].pw = verifiers[n][u]

\* A cached verification is for the password of the row, unless a purge is outstanding.
AuthFits ==
    \A n \in Nodes : \A u \in Usernames \ (raced[n] \cup unpurged[n] \cup kept[n]) : \A p \in Passwords :
        authCache[n][AuthKey(u, p)] > 0 =>
            \/ users[n][u] # None /\ users[n][u].pw = p
            \/ \E r \in Requests : AuthDue(req[r], n, u)

\* A cached record is the row, unless a purge is outstanding.
RecordFits ==
    \A n \in Nodes : \A u \in Usernames \ (raced[n] \cup unpurged[n]) :
        userCache[n][u] # None =>
            \/ userCache[n][u].rec = users[n][u]
            \/ \E r \in Requests : PurgeDue(req[r], n, u)

\* A login, or a creation that has not stored its verifier, holds the row of its user.
HeldFits ==
    \A r \in Requests :
        req[r].pc \in Holding \cup {"verifier"} /\ req[r].user \notin raced[req[r].node] =>
            users[req[r].node][req[r].user] = req[r].rec

\* The password of a login of u at pc with an answer was compared with the record's.  The
\* hash leaves no doubt; the verifier may be out of date for the users in R and K, the
\* auth cache for those in P too.
Vouched(pc, answer, u, R, P, K) ==
    \/ pc = "keep"
    \/ pc = "fastInsert" /\ u \notin R \cup K
    \/ answer = "allow" /\ u \notin R \cup P \cup K

\* A login whose password was verified presented the password of the record it holds.
VerifiedFits ==
    \A r \in Requests :
        LET n == req[r].node
        IN  Vouched(req[r].pc, req[r].answer, req[r].user, raced[n], unpurged[n], kept[n]) =>
                req[r].rec.pw = req[r].pw

\* what the row of q's user is to become on every node
Target(q) == IF q.kind = "create" THEN q.rec ELSE None

\* the change of q has not reached every node
OnWay(q) == Committed(q) \/ \E n \in Nodes : q.repl[n] = "sent"

\* q is going to change the row of u on n
Awaits(q, n, u) == q.user = u /\ (q.repl[n] = "sent" \/ (Committed(q) /\ n # q.node))

\* Every row of u is v, or is going to be.
Agreed(u, v) ==
    /\ \A n \in Nodes : \/ u \in missed[n] \cup setBack[n] \/ users[n][u] = v
                        \/ \E r \in Requests : Awaits(req[r], n, u)
    /\ \A r \in Requests : req[r].user = u /\ OnWay(req[r]) => Target(req[r]) = v
    /\ \A n \in Nodes : catchUp[n].pc = "apply" /\ u \in fresh[n] => catchUp[n].snap[u] = v

\* The nodes agree, or are going to, on every user without a conflict.
Agreement == \A u \in Usernames \ conflict : \E v : Agreed(u, v)

\* The inductive invariant.
DirectoryInv ==
    /\ TypeOK /\ Places
    /\ VerifierFits /\ AuthFits /\ RecordFits
    /\ HeldFits /\ VerifiedFits
    /\ Agreement

\* causes of stale credentials are remembered
HistGrows ==
    \A n \in Nodes : raced[n] \subseteq raced'[n] /\ unpurged[n] \subseteq unpurged'[n] /\ kept[n] \subseteq kept'[n]

\* the types of the history variables
HistType ==
    /\ raced \in [Nodes -> SUBSET Usernames]
    /\ unpurged \in [Nodes -> SUBSET Usernames]
    /\ kept \in [Nodes -> SUBSET Usernames]

TableType ==
    /\ conflict \subseteq Usernames
    /\ missed \in [Nodes -> SUBSET Usernames]
    /\ fresh \in [Nodes -> SUBSET Usernames]
    /\ setBack \in [Nodes -> SUBSET Usernames]

\* Race only adds.
LEMMA RaceGrows ==
    ASSUME TypeOK, NEW n \in Nodes, NEW U, U \subseteq Usernames, Race(n, U)
    PROVE  /\ \A m \in Nodes : raced[m] \subseteq raced'[m]
           /\ \A u \in U : u \in raced'[n]
           /\ raced' \in [Nodes -> SUBSET Usernames]
           /\ UNCHANGED <<unpurged, kept>> => HistGrows /\ HistType'
BY DEF TypeOK, HistGrows, HistType, Race

\* Unpurge adds what the caches hold.
LEMMA UnpurgeGrows ==
    ASSUME TypeOK, NEW n \in Nodes, NEW U, U \subseteq Usernames, Unpurge(n, U)
    PROVE  /\ \A m \in Nodes : unpurged[m] \subseteq unpurged'[m]
           /\ \A u \in U : u \in unpurged'[n] \/ ~ Cached(n, u)
           /\ unpurged' \in [Nodes -> SUBSET Usernames]
           /\ UNCHANGED <<raced, kept>> => HistGrows /\ HistType'
<1> DEFINE C == {u \in U : Cached(n, u)}
<1>1. C \subseteq Usernames /\ \A u \in U : u \in C \/ ~ Cached(n, u)
  OBVIOUS
<1>2. unpurged' = [unpurged EXCEPT ![n] = @ \cup C]
  BY DEF Unpurge
<1> HIDE DEF C
<1>3. QED  BY <1>1, <1>2 DEF TypeOK, HistGrows, HistType

\* A user of whom a cache holds nothing.
LEMMA NotCached ==
    ASSUME NEW n \in Nodes, NEW u \in Usernames, ~ Cached(n, u)
    PROVE  userCache[n][u] = None /\ \A p \in Passwords : ~ authCache[n][AuthKey(u, p)] > 0
BY DEF Cached

\* What was vouched for by a smaller history was so before.
LEMMA VouchedBefore ==
    ASSUME HistGrows, NEW n \in Nodes, NEW pc, NEW answer, NEW u,
           Vouched(pc, answer, u, raced'[n], unpurged'[n], kept'[n])
    PROVE  Vouched(pc, answer, u, raced[n], unpurged[n], kept[n])
BY DEF Vouched, HistGrows

-----------------------------------------------------------------------------
(* Steps that leave a part of the invariant alone. *)

\* Rows and verifiers that stay keep fitting.
LEMMA VerifierQuiet ==
    ASSUME VerifierFits, HistGrows, UNCHANGED <<users, verifiers>>
    PROVE  VerifierFits'
BY DEF VerifierFits, HistGrows

\* No new verification is cached and no purge is given up.
LEMMA AuthQuiet ==
    ASSUME AuthFits, HistGrows, UNCHANGED users,
           \A n \in Nodes, u \in Usernames, p \in Passwords :
               authCache'[n][AuthKey(u, p)] > 0 => authCache[n][AuthKey(u, p)] > 0,
           \A n \in Nodes, u \in Usernames, r \in Requests :
               u \notin raced'[n] \cup unpurged'[n] /\ AuthDue(req[r], n, u) =>
               AuthDue(req'[r], n, u) \/ \A p \in Passwords : ~ authCache'[n][AuthKey(u, p)] > 0
    PROVE  AuthFits'
<1> SUFFICES ASSUME NEW n \in Nodes, NEW u \in Usernames, u \notin raced'[n] \cup unpurged'[n] \cup kept'[n],
                    NEW p \in Passwords, authCache'[n][AuthKey(u, p)] > 0,
                    ~ (users[n][u] # None /\ users[n][u].pw = p)
             PROVE  \E r \in Requests : AuthDue(req'[r], n, u)
  BY DEF AuthFits
<1>1. PICK r \in Requests : AuthDue(req[r], n, u)
  BY DEF AuthFits, HistGrows
<1>2. QED  BY <1>1

\* No new record is cached and no purge is given up.
LEMMA RecordQuiet ==
    ASSUME RecordFits, HistGrows, UNCHANGED users,
           \A n \in Nodes, u \in Usernames :
               userCache'[n][u] # None => userCache[n][u] # None /\ userCache'[n][u].rec = userCache[n][u].rec,
           \A n \in Nodes, u \in Usernames, r \in Requests :
               u \notin raced'[n] \cup unpurged'[n] /\ PurgeDue(req[r], n, u) =>
               PurgeDue(req'[r], n, u) \/ userCache'[n][u] = None
    PROVE  RecordFits'
<1> SUFFICES ASSUME NEW n \in Nodes, NEW u \in Usernames, u \notin raced'[n] \cup unpurged'[n],
                    userCache'[n][u] # None, userCache'[n][u].rec # users[n][u]
             PROVE  \E r \in Requests : PurgeDue(req'[r], n, u)
  BY DEF RecordFits
<1>1. PICK r \in Requests : PurgeDue(req[r], n, u)
  BY DEF RecordFits, HistGrows
<1>2. QED  BY <1>1

\* the record that s holds, and whether it was verified, come from the step before
Kept(s) ==
    \/ req'[s].pc \notin Holding \cup {"verifier"} /\ req'[s].answer # "allow"
    \/ /\ Same(req'[s], req[s]) /\ req'[s].rec = req[s].rec
       /\ req'[s].pc \in Holding \cup {"verifier"} => req[s].pc \in Holding \cup {"verifier"}
       /\ req'[s].pc \in {"fastInsert", "keep"} => req[s].pc = req'[s].pc
       /\ req'[s].answer = "allow" => req[s].answer = "allow"

\* No request reads a record or verifies a password.
LEMMA HeldQuiet ==
    ASSUME TypeOK, HeldFits, VerifiedFits, HistGrows, UNCHANGED users, Places, \A s \in Requests : Kept(s)
    PROVE  HeldFits' /\ VerifiedFits'
<1>1. \A s \in Requests : req[s].pc \in Holding \cup {"verifier"} \/ req[s].answer = "allow" => req[s].node \in Nodes
  BY DEF Places, WellPlaced, NoRequest, Holding
<1>2. ASSUME NEW s \in Requests, req'[s].pc \in Holding \cup {"verifier"},
             req'[s].user \notin raced'[req'[s].node]
      PROVE  users'[req'[s].node][req'[s].user] = req'[s].rec
  BY <1>1, <1>2 DEF Kept, Same, HeldFits, HistGrows
<1>3. ASSUME NEW s \in Requests,
             Vouched(req'[s].pc, req'[s].answer, req'[s].user,
                     raced'[req'[s].node], unpurged'[req'[s].node], kept'[req'[s].node])
      PROVE  req'[s].rec.pw = req'[s].pw
  <2>1. /\ req'[s].node = req[s].node /\ req'[s].user = req[s].user
        /\ req'[s].pw = req[s].pw /\ req'[s].rec = req[s].rec
        /\ req'[s].pc \in {"fastInsert", "keep"} => req[s].pc = req'[s].pc
        /\ req'[s].answer = "allow" => req[s].answer = "allow"
        /\ req[s].pc \in {"fastInsert", "keep"} \/ req[s].answer = "allow"
    BY <1>3 DEF Kept, Same, Holding, Vouched
  <2>2. req[s].node \in Nodes
    BY <2>1, <1>1 DEF Holding
  <2>3. Vouched(req[s].pc, req[s].answer, req[s].user, raced[req[s].node], unpurged[req[s].node], kept[req[s].node])
    <3>1. Vouched(req'[s].pc, req'[s].answer, req[s].user,
                  raced[req[s].node], unpurged[req[s].node], kept[req[s].node])
      BY <1>3, <2>1, <2>2, VouchedBefore
    <3>2. QED  BY <2>1, <3>1 DEF Vouched
  <2>4. QED  BY <2>1, <2>3 DEF VerifiedFits
<1>4. QED  BY <1>2, <1>3 DEF HeldFits, VerifiedFits

\* what s is going to change stays as it is
SameWay(s) ==
    \/ ~ OnWay(req[s]) /\ ~ OnWay(req'[s])
    \/ /\ Same(req'[s], req[s]) /\ Target(req'[s]) = Target(req[s])
       /\ Committed(req'[s]) <=> Committed(req[s])
       /\ \A n \in Nodes : req'[s].repl[n] = "sent" <=> req[s].repl[n] = "sent"

\* a snapshot with the last change of u was one before
SnapKept(n, u) ==
    catchUp'[n].pc = "apply" /\ u \in fresh'[n] =>
        catchUp[n].pc = "apply" /\ u \in fresh[n] /\ catchUp'[n].snap[u] = catchUp[n].snap[u]

\* What is agreed on u stays agreed: its rows stay, and a node that is no longer going to
\* have a change has missed it.
LEMMA AgreedKept ==
    ASSUME NEW u \in Usernames, NEW v, Agreed(u, v),
           \A n \in Nodes : /\ users'[n][u] = users[n][u]
                            /\ u \in missed[n] \cup setBack[n] => u \in missed'[n] \cup setBack'[n]
                            /\ SnapKept(n, u),
           \A s \in Requests : req'[s].user = u /\ OnWay(req'[s]) =>
               OnWay(req[s]) /\ Target(req'[s]) = Target(req[s]) /\ req[s].user = u,
           \A s \in Requests, n \in Nodes : Awaits(req[s], n, u) => Awaits(req'[s], n, u) \/ u \in missed'[n]
    PROVE  Agreed(u, v)'
<1>1. ASSUME NEW n \in Nodes
      PROVE  u \in missed'[n] \cup setBack'[n] \/ users'[n][u] = v \/ \E r \in Requests : Awaits(req'[r], n, u)
  <2>1. u \in missed[n] \cup setBack[n] \/ users[n][u] = v \/ \E r \in Requests : Awaits(req[r], n, u)
    BY DEF Agreed
  <2>2. QED  BY <2>1
<1>2. ASSUME NEW r \in Requests, req'[r].user = u, OnWay(req'[r]) PROVE Target(req'[r]) = v
  BY <1>2 DEF Agreed
<1>3. ASSUME NEW n \in Nodes, catchUp'[n].pc = "apply", u \in fresh'[n] PROVE catchUp'[n].snap[u] = v
  <2>1. catchUp[n].pc = "apply" /\ u \in fresh[n] /\ catchUp'[n].snap[u] = catchUp[n].snap[u]
    BY <1>3 DEF SnapKept
  <2>2. QED  BY <2>1 DEF Agreed
<1>4. QED  BY <1>1, <1>2, <1>3 DEF Agreed

\* No change of u is made, sent, applied or lost.
LEMMA AgreedQuiet ==
    ASSUME NEW u \in Usernames, NEW v, Agreed(u, v),
           \A n \in Nodes : /\ users'[n][u] = users[n][u]
                            /\ u \in missed[n] \cup setBack[n] => u \in missed'[n] \cup setBack'[n]
                            /\ u \in fresh'[n] => u \in fresh[n]
                            /\ catchUp'[n] = catchUp[n] \/ catchUp'[n].pc # "apply",
           \A s \in Requests : SameWay(s) \/ (req[s].user # u /\ req'[s].user # u)
    PROVE  Agreed(u, v)'
<1>1. \A s \in Requests : req'[s].user = u /\ OnWay(req'[s]) =>
          OnWay(req[s]) /\ Target(req'[s]) = Target(req[s]) /\ req[s].user = u
  BY DEF SameWay, OnWay, Same
<1>2. \A s \in Requests, n \in Nodes : Awaits(req[s], n, u) => Awaits(req'[s], n, u)
  BY DEF SameWay, OnWay, Same, Awaits
<1>3. \A n \in Nodes : SnapKept(n, u)
  BY DEF SnapKept
<1>4. QED  BY <1>1, <1>2, <1>3, AgreedKept

\* No change is made, sent, applied or lost.
LEMMA AgreementQuiet ==
    ASSUME Agreement, UNCHANGED <<users, conflict, missed, fresh, setBack>>, \A s \in Requests : SameWay(s),
           \A n \in Nodes : catchUp'[n] = catchUp[n] \/ catchUp'[n].pc # "apply"
    PROVE  Agreement'
<1> SUFFICES ASSUME NEW u \in Usernames, u \notin conflict PROVE \E v : Agreed(u, v)'
  BY DEF Agreement
<1>1. PICK v : Agreed(u, v)
  BY DEF Agreement
<1>2. Agreed(u, v)'
  BY <1>1, AgreedQuiet
<1>3. QED  BY <1>2

\* What request r holds after its step, and the rest of the requests.
LEMMA HeldStep ==
    ASSUME HeldFits, VerifiedFits, Places, HistGrows, UNCHANGED users,
           NEW r \in Requests, NEW pc, NEW answer, NEW rec, Step(r, pc, answer, rec),
           pc \in Holding \cup {"verifier"} /\ req[r].user \notin raced'[req[r].node] =>
               users[req[r].node][req[r].user] = rec,
           Vouched(pc, answer, req[r].user, raced'[req[r].node], unpurged'[req[r].node], kept'[req[r].node]) =>
               rec.pw = req[r].pw
    PROVE  HeldFits' /\ VerifiedFits'
<1>1. \A s \in Requests : req[s].pc \in Holding \cup {"verifier"} \/ req[s].answer = "allow" => req[s].node \in Nodes
  BY DEF Places, WellPlaced, NoRequest, Holding
<1>2. ASSUME NEW s \in Requests, req'[s].pc \in Holding \cup {"verifier"},
             req'[s].user \notin raced'[req'[s].node]
      PROVE  users'[req'[s].node][req'[s].user] = req'[s].rec
  <2>1. CASE s = r
    BY <1>2, <2>1 DEF Step, Same
  <2>2. CASE s # r
    BY <1>1, <1>2, <2>2 DEF Step, HeldFits, HistGrows
  <2>3. QED  BY <2>1, <2>2
<1>3. ASSUME NEW s \in Requests,
             Vouched(req'[s].pc, req'[s].answer, req'[s].user,
                     raced'[req'[s].node], unpurged'[req'[s].node], kept'[req'[s].node])
      PROVE  req'[s].rec.pw = req'[s].pw
  <2>1. CASE s = r
    BY <1>3, <2>1 DEF Step, Same
  <2>2. CASE s # r
    <3>1. req'[s] = req[s]
      BY <2>2 DEF Step
    <3>2. req[s].node \in Nodes
      BY <1>1, <1>3, <3>1 DEF Holding, Vouched
    <3>3. Vouched(req[s].pc, req[s].answer, req[s].user, raced[req[s].node], unpurged[req[s].node], kept[req[s].node])
      BY <1>3, <3>1, <3>2, VouchedBefore
    <3>4. QED  BY <3>1, <3>3 DEF VerifiedFits
  <2>3. QED  BY <2>1, <2>2
<1>4. QED  BY <1>2, <1>3 DEF HeldFits, VerifiedFits

\* A step on the request's own node before or after the change that it makes.
LEMMA HomeWay ==
    ASSUME TypeOK, NEW r \in Requests, NEW pc, NEW answer, NEW rec, StepHome(r, pc, answer, rec),
           pc \in {"verifier", "purgeAuth", "purgeUser"} <=> req[r].pc \in {"verifier", "purgeAuth", "purgeUser"},
           req[r].kind = "create" => rec = req[r].rec
    PROVE  \A s \in Requests : SameWay(s)
<1> SUFFICES ASSUME NEW s \in Requests PROVE SameWay(s)
  OBVIOUS
<1>1. CASE s # r
  BY <1>1 DEF StepHome, Step, SameWay, Same
<1>2. CASE s = r
  <2>1. Same(req'[r], req[r]) /\ Target(req'[r]) = Target(req[r])
    BY DEF StepHome, Step, Same, Target
  <2>2. Committed(req'[r]) <=> Committed(req[r])
    BY DEF StepHome, Step, Committed
  <2>3. QED  BY <1>2, <2>1, <2>2 DEF SameWay, StepHome
<1>3. QED  BY <1>1, <1>2

\* A step that gives up no purge on the request's own node.
LEMMA HomeDue ==
    ASSUME NEW r \in Requests, NEW pc, NEW answer, NEW rec, StepHome(r, pc, answer, rec),
           NEW s \in Requests, NEW n \in Nodes, NEW u \in Usernames
    PROVE  /\ AuthDue(req[s], n, u) =>
                  AuthDue(req'[s], n, u) \/ (s = r /\ req[r].pc = "purgeAuth" /\ req[r].node = n /\ req[r].user = u)
           /\ PurgeDue(req[s], n, u) =>
                  PurgeDue(req'[s], n, u)
                  \/ (s = r /\ req[r].pc \in {"purgeAuth", "purgeUser"} /\ req[r].node = n /\ req[r].user = u)
BY DEF StepHome, Step, Same, AuthDue, PurgeDue

\* Where a running request is.
LEMMA PlaceOf ==
    ASSUME DirectoryInv, NEW r \in Requests, req[r].pc # "idle"
    PROVE  /\ req[r] \in Request /\ WellPlaced(req[r]) /\ req[r].kind # "none"
           /\ req[r].node \in Nodes /\ req[r].user \in Usernames /\ req[r].rec \in UserRecord \cup {None}
           /\ req[r].pc # "done" => req[r].answer = "none"
           /\ req[r].pc \in {"permit", "insert", "verifier"} => req[r].kind = "create"
           /\ req[r].pc \in {"delete", "purgeAuth", "purgeUser"} => req[r].kind = "delete"
           /\ req[r].pc = "fanout" => req[r].kind \in {"create", "delete"}
           /\ req[r].pc \in {"lookup", "read"} \cup Holding => req[r].kind = "connect" /\ req[r].pw \in Passwords
           /\ req[r].pc \in Holding => req[r].rec \in UserRecord
           /\ req[r].kind = "create" => req[r].rec \in UserRecord /\ req[r].pw = req[r].rec.pw
<1>1. req[r] \in Request /\ WellPlaced(req[r])
  BY DEF DirectoryInv, TypeOK, Places
<1>2. req[r].kind # "none"
  BY <1>1 DEF WellPlaced, NoRequest
<1>3. req[r].node \in Nodes /\ req[r].user \in Usernames /\ req[r].rec \in UserRecord \cup {None}
  BY <1>1, <1>2 DEF WellPlaced, Request
<1>4. req[r].kind \in {"create", "delete", "connect"}
  BY <1>1, <1>2 DEF Request, Kinds
<1>5. /\ req[r].pc \in {"permit", "insert", "verifier"} => req[r].kind = "create"
      /\ req[r].pc \in {"delete", "purgeAuth", "purgeUser"} => req[r].kind = "delete"
      /\ req[r].pc = "fanout" => req[r].kind \in {"create", "delete"}
      /\ req[r].pc \in {"lookup", "read"} \cup Holding => req[r].kind = "connect"
  BY <1>1, <1>4 DEF WellPlaced, Holding
<1>6. QED  BY <1>1, <1>2, <1>3, <1>5 DEF WellPlaced

\* A step on the request's own node that changes no row: places, what is held, agreement.
LEMMA HomeRest ==
    ASSUME DirectoryInv, HistGrows, UNCHANGED <<users, catchUp, conflict, missed, fresh, setBack>>,
           NEW r \in Requests, NEW pc, NEW answer, NEW rec, StepHome(r, pc, answer, rec),
           req[r].pc \notin {"idle", "done"},
           pc \in {"verifier", "purgeAuth", "purgeUser"} <=> req[r].pc \in {"verifier", "purgeAuth", "purgeUser"},
           req[r].pc = "fanout" => pc \in {"fanout", "done"},
           pc # "done" => answer = "none",
           answer = "allow" => req[r].kind = "connect",
           req[r].kind = "create" => /\ rec = req[r].rec
                                     /\ pc \in {"permit", "insert", "verifier", "fanout", "done"},
           req[r].kind = "delete" => pc \in {"delete", "purgeAuth", "purgeUser", "fanout", "done"},
           req[r].kind = "connect" => /\ pc \in {"lookup", "read", "done"} \cup Holding
                                      /\ pc \in Holding => rec \in UserRecord,
           pc \in Holding \cup {"verifier"} /\ req[r].user \notin raced'[req[r].node] =>
               users[req[r].node][req[r].user] = rec,
           Vouched(pc, answer, req[r].user, raced'[req[r].node], unpurged'[req[r].node], kept'[req[r].node]) =>
               rec.pw = req[r].pw
    PROVE  Places' /\ HeldFits' /\ VerifiedFits' /\ Agreement'
<1>1. req[r].kind \in {"create", "delete", "connect"}
  <2>1. req[r] \in Request /\ req[r].kind # "none"
    BY PlaceOf
  <2>2. QED  BY <2>1 DEF Request, Kinds
<1>2. HeldFits' /\ VerifiedFits'
  <2>1. HeldFits /\ VerifiedFits /\ Places /\ Step(r, pc, answer, rec)
    BY DEF DirectoryInv, StepHome
  <2>2. QED  BY <2>1, HeldStep
<1>3. Places'
  <2>1. Places
    BY DEF DirectoryInv
  <2>2. QED  BY <1>1, <2>1, HomePlaced
<1>4. \A s \in Requests : SameWay(s)
  BY HomeWay DEF DirectoryInv
<1>5. Agreement'
  BY <1>4, AgreementQuiet DEF DirectoryInv
<1>6. QED  BY <1>2, <1>3, <1>5

\* A step on the request's own node that changes no table and no cache.
LEMMA HomeInv ==
    ASSUME DirectoryInv, HistGrows, TypeOK',
           UNCHANGED <<users, verifiers, userCache, authCache, catchUp, conflict, missed, fresh, setBack>>,
           NEW r \in Requests, NEW pc, NEW answer, NEW rec, StepHome(r, pc, answer, rec),
           req[r].pc \notin {"idle", "done", "verifier", "purgeAuth", "purgeUser"},
           req[r].pc = "fanout" => pc \in {"fanout", "done"},
           pc # "done" => answer = "none",
           answer = "allow" => req[r].kind = "connect",
           req[r].kind = "create" => rec = req[r].rec /\ pc \in {"permit", "insert", "fanout", "done"},
           req[r].kind = "delete" => pc \in {"delete", "fanout", "done"},
           req[r].kind = "connect" => /\ pc \in {"lookup", "read", "done"} \cup Holding
                                      /\ pc \in Holding => rec \in UserRecord,
           pc \in Holding /\ req[r].user \notin raced'[req[r].node] => users[req[r].node][req[r].user] = rec,
           Vouched(pc, answer, req[r].user, raced'[req[r].node], unpurged'[req[r].node], kept'[req[r].node]) =>
               rec.pw = req[r].pw
    PROVE  DirectoryInv'
<1>1. req[r].kind \in {"create", "delete", "connect"}
  <2>1. req[r] \in Request /\ req[r].kind # "none"
    BY PlaceOf
  <2>2. QED  BY <2>1 DEF Request, Kinds
<1>2. pc \notin {"verifier", "purgeAuth", "purgeUser"}
  BY <1>1 DEF Holding
<1>3. Places' /\ HeldFits' /\ VerifiedFits' /\ Agreement'
  BY <1>1, <1>2, HomeRest
<1>4. VerifierFits'
  BY VerifierQuiet DEF DirectoryInv
<1>5. AuthFits'
  BY HomeDue, AuthQuiet DEF DirectoryInv
<1>6. RecordFits'
  BY HomeDue, RecordQuiet DEF DirectoryInv
<1>7. QED  BY <1>3, <1>4, <1>5, <1>6 DEF DirectoryInv

\* A step that only moves a request keeps every variable but req.
LEMMA MoveType ==
    ASSUME DirectoryInv, NEW r \in Requests, NEW pc, NEW answer, NEW rec, StepHome(r, pc, answer, rec),
           UNCHANGED <<up, users, verifiers, userCache, authCache, catchUp,
                       conflict, missed, fresh, setBack, closed, late>>,
           budget' \in [faults : Nat, crashes : Nat, logins : Nat], HistType'
    PROVE  TypeOK'
BY DEF DirectoryInv, TypeOK, HistType, StepHome, Step

\* And so do the steps that record no history.
LEMMA SameHist ==
    ASSUME DirectoryInv, UNCHANGED <<raced, unpurged, kept, budget>>
    PROVE  HistGrows /\ HistType' /\ budget' \in [faults : Nat, crashes : Nat, logins : Nat]
BY DEF DirectoryInv, TypeOK, HistType, HistGrows

-----------------------------------------------------------------------------
(* The end of fanout. *)

\* A POST is settled.
LEMMA SettleInv ==
    ASSUME DirectoryInv, NEW r \in Requests, NEW p \in Nodes, Settle(r, p)
    PROVE  DirectoryInv'
<1>1. req[r].pc = "fanout" /\ req[r].kind \in {"create", "delete"} /\ req[r].answer = "none"
  BY PlaceOf DEF Settle, Current
<1>2. StepHome(r, "fanout", "none", req[r].rec)
  <2> DEFINE q == [req[r] EXCEPT !.wait = @ \ {p}]
  <2>1. req[r] \in Request /\ TypeOK
    BY DEF DirectoryInv, TypeOK
  <2>2. /\ q \in Request /\ Same(q, req[r]) /\ q.pc = req[r].pc
        /\ q.answer = req[r].answer /\ q.rec = req[r].rec /\ q.repl = req[r].repl
    BY <2>1 DEF Request, Same
  <2>3. req' = [req EXCEPT ![r] = q]
    BY DEF Settle
  <2> HIDE DEF q
  <2>4. /\ req' \in [Requests -> Request] /\ req'[r] = q
        /\ \A s \in Requests : s # r => req'[s] = req[s]
    BY <2>1, <2>2, <2>3, Replaced
  <2>5. QED  BY <1>1, <2>2, <2>4 DEF StepHome, Step
<1>3. UNCHANGED <<up, users, verifiers, userCache, authCache, catchUp, budget,
                  raced, unpurged, kept, conflict, missed, fresh, setBack, closed, late>>
  BY DEF Settle, histVars, cacheHist, tableHist
<1>4. TypeOK' /\ HistGrows
  BY <1>2, <1>3, MoveType, SameHist
<1>5. QED  BY <1>1, <1>2, <1>3, <1>4, HomeInv DEF Holding, Vouched

\* A request is answered.
LEMMA RespondInv ==
    ASSUME DirectoryInv, NEW r \in Requests, Respond(r)
    PROVE  DirectoryInv'
<1>1. req[r].pc = "fanout" /\ req[r].kind \in {"create", "delete"} /\ req[r].user \in Usernames
  BY PlaceOf DEF Respond, Current
<1>2. PICK answer \in {"created", "deleted"} : Finish(r, answer)
  BY DEF Respond
<1>3. StepHome(r, "done", answer, req[r].rec)
  <2>1. answer \in Answers /\ TypeOK
    BY DEF Answers, DirectoryInv
  <2>2. QED  BY <1>2, <2>1, FinishEffect
<1>4. /\ UNCHANGED <<up, users, verifiers, userCache, authCache, catchUp, budget,
                     raced, unpurged, kept, conflict, missed, fresh, setBack, late>>
      /\ closed' \subseteq closed \cup {req[r].user}
  BY DEF Respond, cacheHist, tableHist
<1>5. TypeOK' /\ HistGrows
  BY <1>1, <1>3, <1>4, SameHist DEF DirectoryInv, TypeOK, StepHome, Step
<1>6. QED  BY <1>1, <1>3, <1>4, <1>5, HomeInv DEF Holding, Vouched

-----------------------------------------------------------------------------
(* authenticate. *)

\* The record is taken from the cache.
LEMMA LookupCachedInv ==
    ASSUME DirectoryInv, NEW r \in Requests, LookupCached(r)
    PROVE  DirectoryInv'
<1> DEFINE n == req[r].node
           u == req[r].user
<1>1. /\ req[r].pc = "lookup" /\ req[r].kind = "connect" /\ req[r].answer = "none"
      /\ n \in Nodes /\ u \in Usernames
  BY PlaceOf DEF LookupCached, Current
<1>2. UNCHANGED <<up, users, verifiers, userCache, authCache, catchUp, budget,
                  conflict, missed, fresh, setBack, closed, late>>
  BY DEF LookupCached, histVars, cacheHist, tableHist
<1>3. CASE userCache[n][u] # None
  <2>1. /\ req' = [req EXCEPT ![r].pc = "authCache", ![r].rec = userCache[n][u].rec]
        /\ Race(n, {v \in {u} : PurgePending(n, v) \/ v \in unpurged[n]})
        /\ UNCHANGED <<unpurged, kept>>
    BY <1>3 DEF LookupCached, histVars, cacheHist, tableHist
  <2>2. userCache[n][u].rec \in UserRecord
    <3>1. userCache[n][u] \in Entry
      BY <1>1 DEF DirectoryInv, TypeOK
    <3>2. QED  BY <1>3, <3>1 DEF Entry
  <2>3. StepHome(r, "authCache", "none", userCache[n][u].rec)
    <3>1. TypeOK /\ "authCache" \in PCs
      BY DEF DirectoryInv, PCs
    <3>2. QED  BY <1>1, <2>1, <2>2, <3>1, ReadEffect
  <2>4. HistGrows /\ HistType' /\ (PurgePending(n, u) \/ u \in unpurged[n] => u \in raced'[n])
    <3>1. TypeOK /\ {v \in {u} : PurgePending(n, v) \/ v \in unpurged[n]} \subseteq Usernames
      BY <1>1 DEF DirectoryInv
    <3>2. QED  BY <1>1, <2>1, <3>1, RaceGrows
  <2>5. u \notin raced'[n] => users[n][u] = userCache[n][u].rec
    <3>1. u \notin raced'[n] => u \notin raced[n]
      BY <1>1, <2>4 DEF HistGrows
    <3>2. (\E s \in Requests : PurgeDue(req[s], n, u)) => PurgePending(n, u)
      BY DEF PurgeDue, PurgePending
    <3>3. QED  BY <1>1, <1>3, <2>4, <3>1, <3>2 DEF DirectoryInv, RecordFits
  <2>6. budget' \in [faults : Nat, crashes : Nat, logins : Nat]
    BY <1>2 DEF DirectoryInv, TypeOK
  <2>7. TypeOK'
    BY <1>2, <2>3, <2>4, <2>6, MoveType
  <2>8. QED  BY <1>1, <1>2, <2>2, <2>3, <2>4, <2>5, <2>7, HomeInv DEF Holding, Vouched
<1>4. CASE userCache[n][u] = None
  <2>1. Go(r, "read") /\ UNCHANGED <<raced, unpurged, kept>>
    BY <1>4 DEF LookupCached, histVars, cacheHist, tableHist
  <2>2. StepHome(r, "read", "none", req[r].rec)
    <3>1. TypeOK /\ "read" \in PCs
      BY DEF DirectoryInv, PCs
    <3>2. QED  BY <1>1, <2>1, <3>1, GoEffect
  <2>3. TypeOK' /\ HistGrows
    BY <1>2, <2>1, <2>2, MoveType, SameHist
  <2>4. QED  BY <1>1, <1>2, <2>2, <2>3, HomeInv DEF Holding, Vouched
<1>5. QED  BY <1>3, <1>4

\* The record is read from the table.
LEMMA LookupReadInv ==
    ASSUME DirectoryInv, NEW r \in Requests, LookupRead(r)
    PROVE  DirectoryInv'
<1> DEFINE rec == users[req[r].node][req[r].user]
<1>1. /\ req[r].pc = "read" /\ req[r].kind = "connect" /\ req[r].answer = "none"
      /\ req[r].node \in Nodes /\ req[r].user \in Usernames
  BY PlaceOf DEF LookupRead, Current
<1>2. UNCHANGED <<up, users, verifiers, userCache, authCache, catchUp, budget,
                  raced, unpurged, kept, conflict, missed, fresh, setBack, closed, late>>
  BY DEF LookupRead, histVars, cacheHist, tableHist
<1>3. TypeOK /\ "done" \in PCs /\ "remember" \in PCs /\ "deny" \in Answers
  BY DEF DirectoryInv, PCs, Answers
<1>4. CASE rec = None
  <2>1. Finish(r, "deny")
    BY <1>4 DEF LookupRead
  <2>2. StepHome(r, "done", "deny", req[r].rec)
    BY <1>3, <2>1, FinishEffect
  <2>3. TypeOK' /\ HistGrows
    BY <1>2, <2>2, MoveType, SameHist
  <2>4. QED  BY <1>1, <1>2, <2>2, <2>3, HomeInv DEF Holding, Vouched
<1>5. CASE rec # None
  <2>1. req' = [req EXCEPT ![r].pc = "remember", ![r].rec = rec] /\ rec \in UserRecord
    <3>1. rec \in UserRecord
      BY <1>1, <1>3, <1>5 DEF TypeOK
    <3>2. QED  BY <1>5, <3>1 DEF LookupRead
  <2>2. StepHome(r, "remember", "none", rec)
    BY <1>1, <1>3, <2>1, ReadEffect
  <2>3. TypeOK' /\ HistGrows
    BY <1>2, <2>2, MoveType, SameHist
  <2>4. QED  BY <1>1, <1>2, <2>1, <2>2, <2>3, HomeInv DEF Holding, Vouched
<1>6. QED  BY <1>4, <1>5

\* A login is accepted from the auth cache, or goes on.
LEMMA ConnectCachedInv ==
    ASSUME DirectoryInv, NEW r \in Requests, ConnectCached(r)
    PROVE  DirectoryInv'
<1> DEFINE n == req[r].node
           u == req[r].user
           p == req[r].pw
<1>1. /\ req[r].pc = "authCache" /\ req[r].kind = "connect" /\ req[r].answer = "none"
      /\ n \in Nodes /\ u \in Usernames /\ p \in Passwords /\ req[r].rec \in UserRecord
  BY PlaceOf DEF ConnectCached, Current, Holding
<1>2. UNCHANGED <<up, users, verifiers, userCache, authCache, catchUp, budget,
                  conflict, missed, fresh, setBack, closed, late>>
  BY DEF ConnectCached, histVars, cacheHist, tableHist
<1>3. TypeOK /\ "fast" \in PCs /\ "hashWait" \in PCs /\ "allow" \in Answers
  BY DEF DirectoryInv, PCs, Answers
<1>4. u \notin raced[n] => users[n][u] = req[r].rec
  BY <1>1 DEF DirectoryInv, HeldFits, Holding
<1>5. CASE authCache[n][AuthKey(u, p)] > 0
  <2>1. Finish(r, "allow") /\ Race(n, {v \in {u} : PurgePending(n, v)}) /\ UNCHANGED <<unpurged, kept>>
    <3>1. authCache[n][AuthKey(u, p)] # 0
      BY <1>5
    <3>2. QED  BY <3>1 DEF ConnectCached
  <2>2. StepHome(r, "done", "allow", req[r].rec)
    BY <1>3, <2>1, FinishEffect
  <2>3. HistGrows /\ HistType' /\ (PurgePending(n, u) => u \in raced'[n])
    <3>1. {v \in {u} : PurgePending(n, v)} \subseteq Usernames
      BY <1>1
    <3>2. QED  BY <1>1, <1>3, <2>1, <3>1, RaceGrows
  <2>4. u \notin raced'[n] \cup unpurged'[n] \cup kept'[n] => req[r].rec.pw = p
    <3>1. u \notin raced'[n] \cup unpurged'[n] \cup kept'[n] => u \notin raced[n] \cup unpurged[n] \cup kept[n]
      BY <1>1, <2>3 DEF HistGrows
    <3>2. (\E s \in Requests : AuthDue(req[s], n, u)) => PurgePending(n, u)
      BY DEF AuthDue, PurgePending
    <3>3. u \notin raced'[n] \cup unpurged'[n] \cup kept'[n] => users[n][u].pw = p
      BY <1>1, <1>5, <2>3, <3>1, <3>2 DEF DirectoryInv, AuthFits
    <3>4. QED  BY <1>4, <3>1, <3>3
  <2>5. budget' \in [faults : Nat, crashes : Nat, logins : Nat]
    BY <1>2, <1>3 DEF TypeOK
  <2>6. TypeOK'
    BY <1>2, <2>2, <2>3, <2>5, MoveType
  <2>7. QED  BY <1>1, <1>2, <2>2, <2>3, <2>4, <2>6, HomeInv DEF Holding, Vouched
<1>6. CASE ~ authCache[n][AuthKey(u, p)] > 0
  <2>1. PICK pc \in {"fast", "hashWait"} : Go(r, pc)
    BY <1>6 DEF ConnectCached
  <2>2. UNCHANGED <<raced, unpurged, kept>>
    BY <1>6 DEF ConnectCached, histVars, cacheHist, tableHist
  <2>3. StepHome(r, pc, "none", req[r].rec)
    BY <1>1, <1>3, <2>1, GoEffect
  <2>4. TypeOK' /\ HistGrows
    BY <1>2, <2>2, <2>3, MoveType, SameHist
  <2>5. QED  BY <1>1, <1>2, <1>4, <2>2, <2>3, <2>4, HomeInv DEF Holding, Vouched
<1>7. QED  BY <1>5, <1>6

\* The stored verifier is compared.
LEMMA ConnectFastInv ==
    ASSUME DirectoryInv, NEW r \in Requests, ConnectFast(r)
    PROVE  DirectoryInv'
<1> DEFINE n == req[r].node
           u == req[r].user
<1>1. /\ req[r].pc = "fast" /\ req[r].kind = "connect" /\ req[r].answer = "none"
      /\ n \in Nodes /\ u \in Usernames /\ req[r].pw \in Passwords /\ req[r].rec \in UserRecord
  BY PlaceOf DEF ConnectFast, Current, Holding
<1>2. UNCHANGED <<up, users, verifiers, userCache, authCache, catchUp, budget,
                  raced, unpurged, kept, conflict, missed, fresh, setBack, closed, late>>
  BY DEF ConnectFast, histVars, cacheHist, tableHist
<1>3. u \notin raced[n] => users[n][u] = req[r].rec
  BY <1>1 DEF DirectoryInv, HeldFits, Holding
<1>4. PICK pc \in {"fastInsert", "hashWait"} : Go(r, pc) /\ (pc = "fastInsert" => verifiers[n][u] = req[r].pw)
  BY DEF ConnectFast, VerifyFast
<1>5. StepHome(r, pc, "none", req[r].rec)
  <2>1. TypeOK /\ pc \in PCs
    BY DEF DirectoryInv, PCs
  <2>2. QED  BY <1>1, <1>4, <2>1, GoEffect
<1>6. pc = "fastInsert" /\ u \notin raced[n] \cup kept[n] => req[r].rec.pw = req[r].pw
  BY <1>1, <1>3, <1>4, NoneApart DEF DirectoryInv, VerifierFits
<1>7. TypeOK' /\ HistGrows
  BY <1>2, <1>5, MoveType, SameHist
<1>8. QED  BY <1>1, <1>2, <1>3, <1>5, <1>6, <1>7, HomeInv DEF Holding, Vouched

\* A login takes its permit.
LEMMA ConnectPermitInv ==
    ASSUME DirectoryInv, NEW r \in Requests, ConnectPermit(r)
    PROVE  DirectoryInv'
<1>1. /\ req[r].pc = "hashWait" /\ req[r].kind = "connect" /\ req[r].answer = "none"
      /\ req[r].node \in Nodes /\ req[r].user \in Usernames /\ req[r].rec \in UserRecord
  BY PlaceOf DEF ConnectPermit, Current, Holding
<1>2. UNCHANGED <<up, users, verifiers, userCache, authCache, catchUp, budget,
                  raced, unpurged, kept, conflict, missed, fresh, setBack, closed, late>>
  BY DEF ConnectPermit, histVars, cacheHist, tableHist
<1>3. req[r].user \notin raced[req[r].node] => users[req[r].node][req[r].user] = req[r].rec
  BY <1>1 DEF DirectoryInv, HeldFits, Holding
<1>4. StepHome(r, "hash", "none", req[r].rec)
  <2>1. TypeOK /\ "hash" \in PCs /\ Go(r, "hash")
    BY DEF DirectoryInv, PCs, ConnectPermit
  <2>2. QED  BY <1>1, <2>1, GoEffect
<1>5. TypeOK' /\ HistGrows
  BY <1>2, <1>4, MoveType, SameHist
<1>6. QED  BY <1>1, <1>2, <1>3, <1>4, <1>5, HomeInv DEF Holding, Vouched

\* The record that was read is cached.
LEMMA LookupRememberInv ==
    ASSUME DirectoryInv, NEW r \in Requests, LookupRemember(r)
    PROVE  DirectoryInv'
<1> DEFINE n == req[r].node
           u == req[r].user
           e == IF Ttl = 0 THEN None ELSE [rec |-> req[r].rec, left |-> Ttl]
<1>1. /\ req[r].pc = "remember" /\ req[r].kind = "connect" /\ req[r].answer = "none"
      /\ n \in Nodes /\ u \in Usernames /\ req[r].rec \in UserRecord
  BY PlaceOf DEF LookupRemember, Current, Holding
<1>2. UNCHANGED <<up, users, verifiers, authCache, catchUp, budget,
                  raced, unpurged, kept, conflict, missed, fresh, setBack, closed, late>>
  BY DEF LookupRemember, histVars, cacheHist, tableHist
<1>3. u \notin raced[n] => users[n][u] = req[r].rec
  BY <1>1 DEF DirectoryInv, HeldFits, Holding
<1>4. StepHome(r, "authCache", "none", req[r].rec)
  <2>1. TypeOK /\ "authCache" \in PCs /\ Go(r, "authCache")
    BY DEF DirectoryInv, PCs, LookupRemember
  <2>2. QED  BY <1>1, <2>1, GoEffect
<1>5. userCache' = [userCache EXCEPT ![n][u] = e] /\ userCache \in [Nodes -> [Usernames -> Entry]]
  BY DEF LookupRemember, UserInsert, DirectoryInv, TypeOK
<1>6. e \in Entry /\ (e # None => e.rec = req[r].rec)
  BY <1>1, DirectoryAssumption DEF Entry
<1> HIDE DEF e
<1>7. userCache' \in [Nodes -> [Usernames -> Entry]]
  BY <1>1, <1>5, <1>6
<1>8. \A m \in Nodes, v \in Usernames : userCache'[m][v] = IF m = n /\ v = u THEN e ELSE userCache[m][v]
  BY <1>1, <1>5
<1>9. TypeOK' /\ HistGrows
  BY <1>2, <1>4, <1>7, SameHist DEF DirectoryInv, TypeOK, StepHome, Step
<1>10. Places' /\ HeldFits' /\ VerifiedFits' /\ Agreement'
  BY <1>1, <1>2, <1>3, <1>4, <1>9, HomeRest DEF Holding, Vouched
<1>11. VerifierFits'
  BY <1>2, <1>9, VerifierQuiet DEF DirectoryInv
<1>12. AuthFits'
  BY <1>1, <1>2, <1>4, <1>9, HomeDue, AuthQuiet DEF DirectoryInv
<1>13. RecordFits'
  <2> SUFFICES ASSUME NEW m \in Nodes, NEW v \in Usernames, v \notin raced[m] \cup unpurged[m],
                      userCache'[m][v] # None
               PROVE  \/ userCache'[m][v].rec = users[m][v]
                      \/ \E s \in Requests : PurgeDue(req'[s], m, v)
    BY <1>2 DEF RecordFits
  <2>1. CASE m = n /\ v = u
    BY <1>3, <1>6, <1>8, <2>1
  <2>2. CASE ~ (m = n /\ v = u)
    <3>1. \/ userCache[m][v].rec = users[m][v]
          \/ \E s \in Requests : PurgeDue(req[s], m, v)
      BY <1>8, <2>2 DEF DirectoryInv, RecordFits
    <3>2. QED  BY <1>1, <1>4, <1>8, <2>2, <3>1, HomeDue
  <2>3. QED  BY <2>1, <2>2
<1>14. QED  BY <1>9, <1>10, <1>11, <1>12, <1>13 DEF DirectoryInv

\* A verification of the row's password is cached.
LEMMA AuthInsertFits ==
    ASSUME DirectoryInv, NEW r \in Requests, req[r].kind = "connect", req[r].pc \in Holding,
           NEW pc, NEW answer, StepHome(r, pc, answer, req[r].rec),
           AuthInsert(req[r].node, req[r].user, req[r].pw), UNCHANGED <<users, raced, unpurged, kept>>,
           req[r].user \notin raced[req[r].node] \cup kept[req[r].node] => req[r].rec.pw = req[r].pw
    PROVE  AuthFits' /\ authCache' \in [Nodes -> [Usernames \X Passwords -> 0 .. Ttl]]
<1> DEFINE n == req[r].node
           u == req[r].user
           p == req[r].pw
<1>1. n \in Nodes /\ u \in Usernames /\ p \in Passwords /\ req[r].rec \in UserRecord /\ req[r].pc # "purgeAuth"
  BY PlaceOf DEF Holding
<1>2. u \notin raced[n] => users[n][u] = req[r].rec
  BY <1>1 DEF DirectoryInv, HeldFits
<1>3. /\ authCache' = [authCache EXCEPT ![n][AuthKey(u, p)] = Ttl]
      /\ authCache \in [Nodes -> [Usernames \X Passwords -> 0 .. Ttl]]
  BY DEF AuthInsert, DirectoryInv, TypeOK
<1>4. AuthKey(u, p) \in Usernames \X Passwords /\ Ttl \in 0 .. Ttl
  BY <1>1, DirectoryAssumption DEF AuthKey
<1>5. authCache' \in [Nodes -> [Usernames \X Passwords -> 0 .. Ttl]]
  BY <1>1, <1>3, <1>4
<1>6. \A m \in Nodes, k \in Usernames \X Passwords :
          authCache'[m][k] = IF m = n /\ k = AuthKey(u, p) THEN Ttl ELSE authCache[m][k]
  BY <1>1, <1>3, <1>4
<1>7. AuthFits'
  <2> SUFFICES ASSUME NEW m \in Nodes, NEW v \in Usernames, v \notin raced[m] \cup unpurged[m] \cup kept[m],
                      NEW o \in Passwords, authCache'[m][AuthKey(v, o)] > 0
               PROVE  \/ users[m][v] # None /\ users[m][v].pw = o
                      \/ \E s \in Requests : AuthDue(req'[s], m, v)
    BY DEF AuthFits
  <2>1. CASE m = n /\ v = u /\ o = p
    BY <1>1, <1>2, <2>1, NoneApart
  <2>2. CASE ~ (m = n /\ v = u /\ o = p)
    <3>1. AuthKey(v, o) \in Usernames \X Passwords /\ ~ (m = n /\ AuthKey(v, o) = AuthKey(u, p))
      BY <2>2 DEF AuthKey
    <3>2. authCache[m][AuthKey(v, o)] > 0
      BY <1>6, <3>1
    <3>3. \/ users[m][v] # None /\ users[m][v].pw = o
          \/ \E s \in Requests : AuthDue(req[s], m, v)
      BY <3>2 DEF DirectoryInv, AuthFits
    <3>4. QED  BY <1>1, <3>3, HomeDue
  <2>3. QED  BY <2>1, <2>2
<1>8. QED  BY <1>5, <1>7

\* A login is accepted by the stored verifier.
LEMMA ConnectFastInsertInv ==
    ASSUME DirectoryInv, NEW r \in Requests, ConnectFastInsert(r)
    PROVE  DirectoryInv'
<1>1. /\ req[r].pc = "fastInsert" /\ req[r].kind = "connect" /\ req[r].answer = "none"
      /\ req[r].node \in Nodes /\ req[r].user \in Usernames /\ req[r].rec \in UserRecord
  BY PlaceOf DEF ConnectFastInsert, Current, Holding
<1>2. /\ UNCHANGED <<up, users, verifiers, userCache, catchUp, budget,
                     raced, unpurged, kept, conflict, missed, fresh, setBack, closed, late>>
      /\ AuthInsert(req[r].node, req[r].user, req[r].pw)
  BY DEF ConnectFastInsert, histVars, cacheHist, tableHist
<1>3. req[r].user \notin raced[req[r].node] \cup kept[req[r].node] => req[r].rec.pw = req[r].pw
  BY <1>1 DEF DirectoryInv, VerifiedFits, Vouched
<1>4. StepHome(r, "done", "allow", req[r].rec)
  <2>1. TypeOK /\ "allow" \in Answers /\ Finish(r, "allow")
    BY DEF DirectoryInv, Answers, ConnectFastInsert
  <2>2. QED  BY <2>1, FinishEffect
<1>5. AuthFits' /\ authCache' \in [Nodes -> [Usernames \X Passwords -> 0 .. Ttl]]
  <2>1. req[r].pc \in Holding
    BY <1>1 DEF Holding
  <2>2. QED  BY <1>1, <1>2, <1>3, <1>4, <2>1, AuthInsertFits
<1>6. TypeOK' /\ HistGrows
  BY <1>2, <1>4, <1>5, SameHist DEF DirectoryInv, TypeOK, StepHome, Step
<1>7. Places' /\ HeldFits' /\ VerifiedFits' /\ Agreement'
  BY <1>1, <1>2, <1>3, <1>4, <1>6, HomeRest DEF Holding, Vouched
<1>8. VerifierFits'
  BY <1>2, <1>6, VerifierQuiet DEF DirectoryInv
<1>9. RecordFits'
  BY <1>1, <1>2, <1>4, <1>6, HomeDue, RecordQuiet DEF DirectoryInv
<1>10. QED  BY <1>5, <1>6, <1>7, <1>8, <1>9 DEF DirectoryInv

\* The password is verified against the record.
LEMMA ConnectHashInv ==
    ASSUME DirectoryInv, NEW r \in Requests, ConnectHash(r)
    PROVE  DirectoryInv'
<1>1. /\ req[r].pc = "hash" /\ req[r].kind = "connect" /\ req[r].answer = "none"
      /\ req[r].node \in Nodes /\ req[r].user \in Usernames /\ req[r].rec \in UserRecord
  BY PlaceOf DEF ConnectHash, Current, Holding
<1>2. UNCHANGED <<up, users, verifiers, userCache, catchUp, budget,
                  raced, unpurged, kept, conflict, missed, fresh, setBack, closed, late>>
  BY DEF ConnectHash, histVars, cacheHist, tableHist
<1>3. TypeOK /\ "allow" \in Answers /\ "deny" \in Answers /\ "keep" \in PCs
  BY DEF DirectoryInv, PCs, Answers
<1>4. req[r].user \notin raced[req[r].node] => users[req[r].node][req[r].user] = req[r].rec
  BY <1>1 DEF DirectoryInv, HeldFits, Holding
<1>5. CASE req[r].rec.pw = req[r].pw
  <2>1. AuthInsert(req[r].node, req[r].user, req[r].pw) /\ (Go(r, "keep") \/ Finish(r, "allow"))
    BY <1>5 DEF ConnectHash, VerifyPassword
  <2>2. PICK pc, answer : /\ StepHome(r, pc, answer, req[r].rec)
                          /\ (pc = "keep" /\ answer = "none") \/ (pc = "done" /\ answer = "allow")
    <3>1. CASE Go(r, "keep")
      BY <1>1, <1>3, <3>1, GoEffect
    <3>2. CASE Finish(r, "allow")
      BY <1>3, <3>2, FinishEffect
    <3>3. QED  BY <2>1, <3>1, <3>2
  <2>3. AuthFits' /\ authCache' \in [Nodes -> [Usernames \X Passwords -> 0 .. Ttl]]
    <3>1. req[r].pc \in Holding
      BY <1>1 DEF Holding
    <3>2. QED  BY <1>1, <1>2, <1>5, <2>1, <2>2, <3>1, AuthInsertFits
  <2>4. TypeOK' /\ HistGrows
    BY <1>2, <2>2, <2>3, SameHist DEF DirectoryInv, TypeOK, StepHome, Step
  <2>5. Places' /\ HeldFits' /\ VerifiedFits' /\ Agreement'
    BY <1>1, <1>2, <1>4, <1>5, <2>2, <2>4, HomeRest DEF Holding, Vouched
  <2>6. VerifierFits'
    BY <1>2, <2>4, VerifierQuiet DEF DirectoryInv
  <2>7. RecordFits'
    BY <1>1, <1>2, <2>2, <2>4, HomeDue, RecordQuiet DEF DirectoryInv
  <2>8. QED  BY <2>3, <2>4, <2>5, <2>6, <2>7 DEF DirectoryInv
<1>6. CASE req[r].rec.pw # req[r].pw
  <2>1. Finish(r, "deny") /\ UNCHANGED authCache
    BY <1>6 DEF ConnectHash, VerifyPassword
  <2>2. StepHome(r, "done", "deny", req[r].rec)
    BY <1>3, <2>1, FinishEffect
  <2>3. TypeOK' /\ HistGrows
    BY <1>2, <2>1, <2>2, MoveType, SameHist
  <2>4. QED  BY <1>1, <1>2, <2>1, <2>2, <2>3, HomeInv DEF Holding, Vouched
<1>7. QED  BY <1>5, <1>6

\* A verifier of the row's password is stored.
LEMMA SetVerifierFits ==
    ASSUME DirectoryInv, NEW n \in Nodes, NEW u \in Usernames, NEW p \in Passwords, SetVerifier(n, u, p),
           UNCHANGED <<users, raced, kept>>,
           u \notin raced[n] => users[n][u] # None /\ users[n][u].pw = p
    PROVE  VerifierFits' /\ verifiers' \in [Nodes -> [Usernames -> Passwords \cup {None}]]
<1>1. /\ verifiers' \in [Nodes -> [Usernames -> Passwords \cup {None}]]
      /\ \A m \in Nodes, v \in Usernames : verifiers'[m][v] = IF m = n /\ v = u THEN p ELSE verifiers[m][v]
  BY DEF DirectoryInv, TypeOK, SetVerifier
<1>2. VerifierFits'
  BY <1>1 DEF DirectoryInv, VerifierFits
<1>3. QED  BY <1>1, <1>2

\* A login stores its verifier.
LEMMA ConnectKeepInv ==
    ASSUME DirectoryInv, NEW r \in Requests, ConnectKeep(r)
    PROVE  DirectoryInv'
<1>1. /\ req[r].pc = "keep" /\ req[r].kind = "connect" /\ req[r].answer = "none" /\ req[r].pw \in Passwords
      /\ req[r].node \in Nodes /\ req[r].user \in Usernames /\ req[r].rec \in UserRecord
  BY PlaceOf DEF ConnectKeep, Current, Holding
<1>2. /\ UNCHANGED <<up, users, userCache, authCache, catchUp, budget,
                     raced, unpurged, kept, conflict, missed, fresh, setBack, closed, late>>
      /\ SetVerifier(req[r].node, req[r].user, req[r].pw)
  BY DEF ConnectKeep, histVars, cacheHist, tableHist
<1>3. /\ req[r].user \notin raced[req[r].node] => users[req[r].node][req[r].user] = req[r].rec
      /\ req[r].rec.pw = req[r].pw
  BY <1>1 DEF DirectoryInv, HeldFits, VerifiedFits, Vouched, Holding
<1>4. StepHome(r, "done", "allow", req[r].rec)
  <2>1. TypeOK /\ "allow" \in Answers /\ Finish(r, "allow")
    BY DEF DirectoryInv, Answers, ConnectKeep
  <2>2. QED  BY <2>1, FinishEffect
<1>5. VerifierFits' /\ verifiers' \in [Nodes -> [Usernames -> Passwords \cup {None}]]
  BY <1>1, <1>2, <1>3, NoneApart, SetVerifierFits
<1>6. TypeOK' /\ HistGrows
  BY <1>2, <1>4, <1>5, SameHist DEF DirectoryInv, TypeOK, StepHome, Step
<1>7. Places' /\ HeldFits' /\ VerifiedFits' /\ Agreement'
  BY <1>1, <1>2, <1>3, <1>4, <1>6, HomeRest DEF Holding, Vouched
<1>8. AuthFits'
  BY <1>1, <1>2, <1>4, <1>6, HomeDue, AuthQuiet DEF DirectoryInv
<1>9. RecordFits'
  BY <1>1, <1>2, <1>4, <1>6, HomeDue, RecordQuiet DEF DirectoryInv
<1>10. QED  BY <1>5, <1>6, <1>7, <1>8, <1>9 DEF DirectoryInv

-----------------------------------------------------------------------------
(* Changes of a row. *)

\* only the row of u on n changes, and if a login of u is under way there it is a race
RowChanges(n, u) ==
    /\ \A m \in Nodes, v \in Usernames : m # n \/ v # u => users'[m][v] = users[m][v]
    /\ Underway(n, u) /\ users'[n][u] # users[n][u] => u \in raced'[n]

\* Requests hold what they held, but for r.
LEMMA HeldRow ==
    ASSUME DirectoryInv, HistGrows, NEW n \in Nodes, NEW u \in Usernames, RowChanges(n, u),
           NEW r \in Requests, NEW pc, NEW answer, NEW rec, Step(r, pc, answer, rec),
           pc \in Holding \cup {"verifier"} =>
              users'[req[r].node][req[r].user] = rec \/ req[r].user \in raced'[req[r].node],
           Vouched(pc, answer, req[r].user, raced'[req[r].node], unpurged'[req[r].node], kept'[req[r].node]) =>
               rec.pw = req[r].pw
    PROVE  HeldFits' /\ VerifiedFits'
<1>1. \A s \in Requests : req[s].pc \in Holding \cup {"verifier"} \/ req[s].answer = "allow" =>
          req[s].node \in Nodes /\ req[s].user \in Usernames
  BY DEF DirectoryInv, Places, WellPlaced, NoRequest, Holding
<1>2. ASSUME NEW s \in Requests, req'[s].pc \in Holding \cup {"verifier"},
             req'[s].user \notin raced'[req'[s].node]
      PROVE  users'[req'[s].node][req'[s].user] = req'[s].rec
  <2>1. CASE s = r
    BY <1>2, <2>1 DEF Step, Same
  <2>2. CASE s # r
    <3>1. req'[s] = req[s] /\ req[s].node \in Nodes /\ req[s].user \in Usernames
      BY <1>1, <1>2, <2>2 DEF Step
    <3>2. users[req[s].node][req[s].user] = req[s].rec
      BY <1>2, <3>1 DEF DirectoryInv, HeldFits, HistGrows
    <3>3. req[s].node = n /\ req[s].user = u => Underway(n, u)
      BY <1>2, <3>1 DEF Underway, Holding
    <3>4. users'[req[s].node][req[s].user] = users[req[s].node][req[s].user]
      BY <1>2, <3>1, <3>3 DEF RowChanges
    <3>5. QED  BY <3>1, <3>2, <3>4
  <2>3. QED  BY <2>1, <2>2
<1>3. ASSUME NEW s \in Requests,
             Vouched(req'[s].pc, req'[s].answer, req'[s].user,
                     raced'[req'[s].node], unpurged'[req'[s].node], kept'[req'[s].node])
      PROVE  req'[s].rec.pw = req'[s].pw
  <2>1. CASE s = r
    BY <1>3, <2>1 DEF Step, Same
  <2>2. CASE s # r
    <3>1. req'[s] = req[s]
      BY <2>2 DEF Step
    <3>2. req[s].node \in Nodes
      BY <1>1, <1>3, <3>1 DEF Holding, Vouched
    <3>3. Vouched(req[s].pc, req[s].answer, req[s].user, raced[req[s].node], unpurged[req[s].node], kept[req[s].node])
      BY <1>3, <3>1, <3>2, VouchedBefore
    <3>4. QED  BY <3>1, <3>3 DEF DirectoryInv, VerifiedFits
  <2>3. QED  BY <2>1, <2>2
<1>4. QED  BY <1>2, <1>3 DEF HeldFits, VerifiedFits

\* Caches that stay fit the rows, if they do for the row that changes.
LEMMA CachesRow ==
    ASSUME DirectoryInv, HistGrows, NEW n \in Nodes, NEW u \in Usernames, RowChanges(n, u),
           UNCHANGED <<userCache, authCache>>,
           \A m \in Nodes, v \in Usernames, s \in Requests :
               /\ AuthDue(req[s], m, v) => AuthDue(req'[s], m, v)
               /\ PurgeDue(req[s], m, v) => PurgeDue(req'[s], m, v),
           \/ users[n][u] = None
           \/ \E s \in Requests : AuthDue(req'[s], n, u) /\ PurgeDue(req'[s], n, u)
    PROVE  AuthFits' /\ RecordFits'
<1>1. ASSUME NEW m \in Nodes, NEW v \in Usernames, v \notin raced'[m] \cup unpurged'[m] \cup kept'[m],
             NEW p \in Passwords, authCache'[m][AuthKey(v, p)] > 0
      PROVE  \/ users'[m][v] # None /\ users'[m][v].pw = p
             \/ \E s \in Requests : AuthDue(req'[s], m, v)
  <2>1. \/ users[m][v] # None /\ users[m][v].pw = p
        \/ \E s \in Requests : AuthDue(req[s], m, v)
    BY <1>1 DEF DirectoryInv, AuthFits, HistGrows
  <2>2. QED  BY <2>1 DEF RowChanges
<1>2. ASSUME NEW m \in Nodes, NEW v \in Usernames, v \notin raced'[m] \cup unpurged'[m], userCache'[m][v] # None
      PROVE  \/ userCache'[m][v].rec = users'[m][v]
             \/ \E s \in Requests : PurgeDue(req'[s], m, v)
  <2>1. \/ userCache[m][v].rec = users[m][v]
        \/ \E s \in Requests : PurgeDue(req[s], m, v)
    BY <1>2 DEF DirectoryInv, RecordFits, HistGrows
  <2>2. userCache[m][v].rec # None
    <3>1. userCache[m][v] \in Entry
      BY DEF DirectoryInv, TypeOK
    <3>2. QED  BY <1>2, <3>1, NoneApart DEF Entry
  <2>3. QED  BY <2>1, <2>2 DEF RowChanges
<1>3. QED  BY <1>1, <1>2 DEF AuthFits, RecordFits

\* A client's change of u on n: from now on every node is to have what r makes of the row.
LEMMA AgreementOriginates ==
    ASSUME DirectoryInv, NEW r \in Requests, NEW pc, NEW answer, Step(r, pc, answer, req[r].rec),
           req[r].node \in Nodes, req[r].user \in Usernames, ~ OnWay(req[r]),
           Originates(req[r].node, req[r].user), UNCHANGED catchUp,
           RowChanges(req[r].node, req[r].user),
           users'[req[r].node][req[r].user] = Target(req'[r]),
           \A n \in Nodes : n # req[r].node => Awaits(req'[r], n, req[r].user)
    PROVE  Agreement'
<1> DEFINE n == req[r].node
           u == req[r].user
<1>1. /\ conflict \subseteq conflict'
      /\ u \notin conflict' => ~ Pending(u)
      /\ \A m \in Nodes : u \notin fresh'[m] /\ fresh'[m] \subseteq fresh[m]
      /\ \A m \in Nodes, v \in Usernames : v # u => /\ v \in missed'[m] <=> v \in missed[m]
                                                    /\ v \in setBack'[m] <=> v \in setBack[m]
  BY DEF Originates, Applies, DirectoryInv, TypeOK
<1>2. /\ \A s \in Requests : s # r => req'[s] = req[s]
      /\ req'[r].user = u /\ req'[r].node = n
  BY DEF Step, Same
<1> SUFFICES ASSUME NEW w \in Usernames, w \notin conflict' PROVE \E v : Agreed(w, v)'
  BY DEF Agreement
<1>3. CASE w # u
  <2>1. PICK v : Agreed(w, v)
    BY <1>1 DEF DirectoryInv, Agreement
  <2>2. \A m \in Nodes : /\ users'[m][w] = users[m][w] /\ (w \in fresh'[m] => w \in fresh[m])
                         /\ w \in missed[m] \cup setBack[m] => w \in missed'[m] \cup setBack'[m]
    BY <1>1, <1>3 DEF RowChanges
  <2>3. \A s \in Requests : SameWay(s) \/ (req[s].user # w /\ req'[s].user # w)
    BY <1>2, <1>3 DEF SameWay, Same
  <2>4. Agreed(w, v)'
    BY <2>1, <2>2, <2>3, AgreedQuiet
  <2>5. QED  BY <2>4
<1>4. CASE w = u
  <2>1. PICK v : v = Target(req'[r])
    OBVIOUS
  <2>2. ~ Pending(u) /\ \A m \in Nodes : u \notin fresh'[m]
    BY <1>1, <1>4
  <2>3. \A s \in Requests : s # r /\ req'[s].user = u => ~ OnWay(req'[s])
    BY <1>2, <2>2 DEF Pending, OnWay
  <2>4. \A m \in Nodes : users'[m][u] = v \/ Awaits(req'[r], m, u)
    BY <2>1
  <2>5. Agreed(w, v)'
    BY <1>4, <2>1, <2>2, <2>3, <2>4 DEF Agreed
  <2>6. QED  BY <2>5
<1>5. QED  BY <1>3, <1>4

\* What Originates records.
LEMMA OriginatesEffect ==
    ASSUME DirectoryInv, NEW n \in Nodes, NEW u \in Usernames, Originates(n, u)
    PROVE  /\ HistGrows /\ HistType' /\ TableType' /\ UNCHANGED <<closed, late>>
           /\ Underway(n, u) => u \in raced'[n]
<1>1. TypeOK /\ {v \in {u} : Underway(n, v)} \subseteq Usernames
  BY DEF DirectoryInv
<1>2. Race(n, {v \in {u} : Underway(n, v)}) /\ UNCHANGED <<unpurged, kept, closed, late>>
  BY DEF Originates
<1>3. HistGrows /\ HistType' /\ (Underway(n, u) => u \in raced'[n])
  BY <1>1, <1>2, RaceGrows
<1>4. TableType' /\ UNCHANGED <<closed, late>>
  BY <1>1 DEF Originates, Applies, TypeOK, TableType
<1>5. QED  BY <1>3, <1>4

-----------------------------------------------------------------------------
(* create_user. *)

\* A creation takes its permit.
LEMMA CreatePermitInv ==
    ASSUME DirectoryInv, NEW r \in Requests, CreatePermit(r)
    PROVE  DirectoryInv'
<1>1. req[r].pc = "permit" /\ req[r].kind = "create" /\ req[r].answer = "none"
  BY PlaceOf DEF CreatePermit, Current
<1>2. StepHome(r, "insert", "none", req[r].rec)
  <2>1. Go(r, "insert") /\ "insert" \in PCs /\ TypeOK
    BY DEF CreatePermit, DirectoryInv, PCs
  <2>2. QED  BY <1>1, <2>1, GoEffect
<1>3. UNCHANGED <<up, users, verifiers, userCache, authCache, catchUp, budget,
                  raced, unpurged, kept, conflict, missed, fresh, setBack, closed, late>>
  BY DEF CreatePermit, histVars, cacheHist, tableHist
<1>4. TypeOK' /\ HistGrows
  BY <1>2, <1>3, MoveType, SameHist
<1>5. QED  BY <1>1, <1>2, <1>3, <1>4, HomeInv DEF Holding, Vouched

\* A request that is not past its change is not on its way.
LEMMA NotOnWay ==
    ASSUME DirectoryInv, NEW r \in Requests, req[r].pc \in {"insert", "delete"}
    PROVE  ~ OnWay(req[r]) /\ \A n \in Nodes : req[r].repl[n] = "none"
<1>1. \A n \in Nodes : req[r].repl[n] = "none"
  BY PlaceOf DEF WellPlaced
<1>2. QED  BY <1>1 DEF OnWay, Committed

\* A creation is refused, or inserts its row.
LEMMA CreateInsertInv ==
    ASSUME DirectoryInv, NEW r \in Requests, CreateInsert(r)
    PROVE  DirectoryInv'
<1> DEFINE n == req[r].node
           u == req[r].user
<1>1. /\ req[r].pc = "insert" /\ req[r].kind = "create" /\ req[r].answer = "none"
      /\ n \in Nodes /\ u \in Usernames /\ req[r].rec \in UserRecord /\ req[r].pw = req[r].rec.pw
      /\ WellPlaced(req[r])
  BY PlaceOf DEF CreateInsert, Current
<1>2. UNCHANGED <<up, userCache, authCache, catchUp, budget>>
  BY DEF CreateInsert
<1>3. TypeOK /\ Places /\ "conflict" \in Answers /\ "verifier" \in PCs
  BY DEF DirectoryInv, PCs, Answers
<1>4. CASE users[n][u] # None
  <2>1. Finish(r, "conflict") /\ UNCHANGED <<users, verifiers,
                                             raced, unpurged, kept, conflict, missed, fresh, setBack, closed, late>>
    BY <1>4 DEF CreateInsert, histVars, cacheHist, tableHist
  <2>2. StepHome(r, "done", "conflict", req[r].rec)
    BY <1>3, <2>1, FinishEffect
  <2>3. TypeOK' /\ HistGrows
    BY <1>2, <2>1, <2>2, MoveType, SameHist
  <2>4. QED  BY <1>1, <1>2, <2>1, <2>2, <2>3, HomeInv DEF Holding, Vouched
<1>5. CASE users[n][u] = None
  <2>1. /\ users' = [users EXCEPT ![n][u] = req[r].rec] /\ UNCHANGED verifiers
        /\ Originates(n, u)
    BY <1>5 DEF CreateInsert, DbPut
  <2>2. /\ Pepper => req' = [req EXCEPT ![r] = [req[r] EXCEPT !.pc = "verifier"]]
        /\ ~ Pepper => req' = [req EXCEPT ![r] = Fanned(req[r])]
    BY <1>5 DEF CreateInsert
  <2>3. /\ Pepper => StepHome(r, "verifier", "none", req[r].rec)
        /\ ~ Pepper => StepFanned(r) /\ WellPlaced(req'[r])
    <3>1. CASE Pepper
      <4>1. Go(r, "verifier")
        BY <2>2, <3>1 DEF Go
      <4>2. QED  BY <1>1, <1>3, <3>1, <4>1, GoEffect
    <3>2. CASE ~ Pepper
      BY <1>1, <1>3, <2>2, <3>2, FannedEffect
    <3>3. QED  BY <3>1, <3>2
  <2>4. PICK pc \in {"verifier", "fanout"} : Step(r, pc, "none", req[r].rec)
    BY <2>3 DEF StepHome, StepFanned
  <2>5. /\ HistGrows /\ HistType' /\ TableType' /\ UNCHANGED <<closed, late>>
        /\ Underway(n, u) => u \in raced'[n]
    BY <1>1, <2>1, OriginatesEffect
  <2>6. /\ users' \in [Nodes -> [Usernames -> UserRecord \cup {None}]]
        /\ \A m \in Nodes, v \in Usernames :
               users'[m][v] = IF m = n /\ v = u THEN req[r].rec ELSE users[m][v]
    BY <1>1, <1>3, <2>1 DEF TypeOK
  <2>7. RowChanges(n, u)
    BY <2>5, <2>6 DEF RowChanges
  <2>8. ~ OnWay(req[r]) /\ \A m \in Nodes : req[r].repl[m] = "none"
    BY <1>1, NotOnWay
  <2>9. TypeOK'
    BY <1>2, <1>3, <2>1, <2>4, <2>5, <2>6 DEF TypeOK, HistType, TableType, Step
  <2>10. Places'
    <3>1. WellPlaced(req'[r])
      <4>1. CASE Pepper
        <5>1. Places'
          BY <1>1, <1>3, <2>3, <4>1, HomePlaced DEF Holding
        <5>2. QED  BY <5>1 DEF Places
      <4>2. QED  BY <2>3, <4>1
    <3>2. QED  BY <1>3, <2>4, <3>1 DEF Places, Step
  <2>11. VerifierFits'
    <3> SUFFICES ASSUME NEW m \in Nodes, NEW v \in Usernames, v \notin raced'[m] \cup kept'[m], verifiers[m][v] # None
                 PROVE  users'[m][v] # None /\ users'[m][v].pw = verifiers[m][v]
      BY <2>1 DEF VerifierFits
    <3>1. users[m][v] # None /\ users[m][v].pw = verifiers[m][v]
      BY <2>5 DEF DirectoryInv, VerifierFits, HistGrows
    <3>2. QED  BY <1>5, <2>6, <3>1
  <2>12. AuthFits' /\ RecordFits'
    <3>1. \A m \in Nodes, v \in Usernames, s \in Requests :
              /\ AuthDue(req[s], m, v) => AuthDue(req'[s], m, v)
              /\ PurgeDue(req[s], m, v) => PurgeDue(req'[s], m, v)
      <4> SUFFICES ASSUME NEW m \in Nodes, NEW v \in Usernames, NEW s \in Requests
                   PROVE  /\ AuthDue(req[s], m, v) => AuthDue(req'[s], m, v)
                          /\ PurgeDue(req[s], m, v) => PurgeDue(req'[s], m, v)
        OBVIOUS
      <4>1. CASE s = r
        <5>1. req[r].repl[m] = "none"
          BY <2>8
        <5>2. QED  BY <1>1, <4>1, <5>1 DEF AuthDue, PurgeDue
      <4>2. CASE s # r
        BY <2>4, <4>2 DEF Step
      <4>3. QED  BY <4>1, <4>2
    <3>2. QED  BY <1>1, <1>2, <1>5, <2>5, <2>7, <3>1, CachesRow
  <2>13. HeldFits' /\ VerifiedFits'
    <3>1. users'[n][u] = req[r].rec
      BY <1>1, <2>6
    <3>2. QED  BY <1>1, <2>4, <2>5, <2>7, <3>1, HeldRow DEF Holding, Vouched
  <2>14. Agreement'
    <3>1. users'[n][u] = Target(req'[r])
      BY <1>1, <2>4, <2>6 DEF Step, Same, Target
    <3>2. ASSUME NEW m \in Nodes, m # n PROVE Awaits(req'[r], m, u)
      BY <1>1, <2>3, <3>2 DEF StepHome, StepFanned, Step, Same, Awaits, Committed
    <3>3. QED  BY <1>1, <1>2, <2>1, <2>4, <2>7, <2>8, <3>1, <3>2, AgreementOriginates
  <2>15. QED  BY <2>9, <2>10, <2>11, <2>12, <2>13, <2>14 DEF DirectoryInv
<1>6. QED  BY <1>4, <1>5

\* A change that was made goes out: the nodes that were to have it still are.
LEMMA FannedAgreement ==
    ASSUME DirectoryInv, NEW r \in Requests, Committed(req[r]), StepFanned(r),
           UNCHANGED <<users, catchUp, conflict, missed, fresh, setBack>>
    PROVE  Agreement'
<1> SUFFICES ASSUME NEW w \in Usernames, w \notin conflict PROVE \E v : Agreed(w, v)'
  BY DEF Agreement
<1>1. PICK v : Agreed(w, v)
  BY DEF DirectoryInv, Agreement
<1>2. ASSUME NEW s \in Requests
      PROVE  req'[s].user = w /\ OnWay(req'[s]) => OnWay(req[s]) /\ Target(req'[s]) = Target(req[s]) /\ req[s].user = w
  <2>1. CASE s = r
    BY <2>1 DEF StepFanned, Step, Same, OnWay, Target
  <2>2. CASE s # r
    BY <2>2 DEF StepFanned, Step
  <2>3. QED  BY <2>1, <2>2
<1>3. \A n \in Nodes : req[r].repl[n] = "none"
  <2>1. WellPlaced(req[r]) /\ req[r].pc \notin {"fanout", "done"}
    BY DEF DirectoryInv, Places, Committed
  <2>2. QED  BY <2>1 DEF WellPlaced
<1>4. ASSUME NEW s \in Requests, NEW n \in Nodes, Awaits(req[s], n, w)
      PROVE  Awaits(req'[s], n, w)
  <2>1. CASE s = r
    BY <1>3, <1>4, <2>1 DEF StepFanned, Step, Same, Awaits
  <2>2. CASE s # r
    BY <1>4, <2>2 DEF StepFanned, Step
  <2>3. QED  BY <2>1, <2>2
<1>5. Agreed(w, v)'
  BY <1>1, <1>2, <1>4, AgreedKept DEF SnapKept
<1>6. QED  BY <1>5

\* A request that has sent its POSTs: places and what is held.
LEMMA FannedRest ==
    ASSUME DirectoryInv, HistGrows, NEW r \in Requests, StepFanned(r), WellPlaced(req'[r]), UNCHANGED users
    PROVE  Places' /\ HeldFits' /\ VerifiedFits'
<1>1. Places'
  BY DEF DirectoryInv, Places, StepFanned, Step
<1>2. HeldFits /\ VerifiedFits /\ Places /\ Step(r, "fanout", "none", req[r].rec)
  BY DEF DirectoryInv, StepFanned
<1>3. HeldFits' /\ VerifiedFits'
  BY <1>2, HeldStep DEF Holding, Vouched
<1>4. QED  BY <1>1, <1>3

\* A creation stores its verifier and goes out.
LEMMA CreateVerifierInv ==
    ASSUME DirectoryInv, NEW r \in Requests, CreateVerifier(r)
    PROVE  DirectoryInv'
<1> DEFINE n == req[r].node
           u == req[r].user
<1>1. /\ req[r].pc = "verifier" /\ req[r].kind = "create"
      /\ n \in Nodes /\ u \in Usernames /\ req[r].rec \in UserRecord /\ req[r].pw = req[r].rec.pw
      /\ WellPlaced(req[r])
  BY PlaceOf DEF CreateVerifier, Current
<1>2. /\ UNCHANGED <<up, users, userCache, authCache, catchUp, budget,
                     raced, unpurged, kept, conflict, missed, fresh, setBack, closed, late>>
      /\ SetVerifier(n, u, req[r].pw) /\ req' = [req EXCEPT ![r] = Fanned(req[r])]
  BY DEF CreateVerifier, histVars, cacheHist, tableHist
<1>3. StepFanned(r) /\ WellPlaced(req'[r])
  BY <1>1, <1>2, FannedEffect DEF DirectoryInv
<1>4. VerifierFits' /\ verifiers' \in [Nodes -> [Usernames -> Passwords \cup {None}]]
  <2>1. u \notin raced[n] => users[n][u] # None /\ users[n][u].pw = req[r].pw
    BY <1>1, NoneApart DEF DirectoryInv, HeldFits
  <2>2. req[r].pw \in Passwords
    BY <1>1 DEF UserRecord
  <2>3. QED  BY <1>1, <1>2, <2>1, <2>2, SetVerifierFits
<1>5. TypeOK' /\ HistGrows
  BY <1>2, <1>3, <1>4, SameHist DEF DirectoryInv, TypeOK, StepFanned, Step
<1>6. Places' /\ HeldFits' /\ VerifiedFits'
  BY <1>2, <1>3, <1>5, FannedRest
<1>7. Agreement'
  BY <1>1, <1>2, <1>3, FannedAgreement DEF Committed
<1>8. \A s \in Requests, m \in Nodes, v \in Usernames :
          /\ AuthDue(req[s], m, v) => AuthDue(req'[s], m, v)
          /\ PurgeDue(req[s], m, v) => PurgeDue(req'[s], m, v)
  <2> SUFFICES ASSUME NEW s \in Requests, NEW m \in Nodes, NEW v \in Usernames
               PROVE  /\ AuthDue(req[s], m, v) => AuthDue(req'[s], m, v)
                      /\ PurgeDue(req[s], m, v) => PurgeDue(req'[s], m, v)
    OBVIOUS
  <2>1. CASE s = r
    <3>1. req[r].repl[m] = "none"
      BY <1>1 DEF WellPlaced
    <3>2. QED  BY <1>1, <2>1, <3>1 DEF AuthDue, PurgeDue
  <2>2. CASE s # r
    BY <1>3, <2>2 DEF StepFanned, Step
  <2>3. QED  BY <2>1, <2>2
<1>9. AuthFits'
  BY <1>2, <1>5, <1>8, AuthQuiet DEF DirectoryInv
<1>10. RecordFits'
  BY <1>2, <1>5, <1>8, RecordQuiet DEF DirectoryInv
<1>11. QED  BY <1>4, <1>5, <1>6, <1>7, <1>9, <1>10 DEF DirectoryInv

-----------------------------------------------------------------------------
(* delete_user. *)

\* A deletion finds no row, or deletes it.
LEMMA DeleteCommitInv ==
    ASSUME DirectoryInv, NEW r \in Requests, DeleteCommit(r)
    PROVE  DirectoryInv'
<1> DEFINE n == req[r].node
           u == req[r].user
<1>1. /\ req[r].pc = "delete" /\ req[r].kind = "delete" /\ req[r].answer = "none"
      /\ n \in Nodes /\ u \in Usernames /\ WellPlaced(req[r])
  BY PlaceOf DEF DeleteCommit, Current
<1>2. UNCHANGED <<up, userCache, authCache, catchUp, budget>>
  BY DEF DeleteCommit
<1>3. TypeOK /\ Places /\ "absent" \in Answers /\ "purgeAuth" \in PCs
  BY DEF DirectoryInv, PCs, Answers
<1>4. /\ users' \in [Nodes -> [Usernames -> UserRecord \cup {None}]]
      /\ verifiers' \in [Nodes -> [Usernames -> Passwords \cup {None}]]
      /\ \A m \in Nodes, v \in Usernames :
             /\ users'[m][v] = IF m = n /\ v = u THEN None ELSE users[m][v]
             /\ verifiers'[m][v] = IF m = n /\ v = u THEN None ELSE verifiers[m][v]
  BY <1>1, <1>3 DEF DeleteCommit, DbDelete, TypeOK
<1>5. ASSUME HistGrows PROVE VerifierFits'
  <2> SUFFICES ASSUME NEW m \in Nodes, NEW v \in Usernames, v \notin raced'[m] \cup kept'[m], verifiers'[m][v] # None
               PROVE  users'[m][v] # None /\ users'[m][v].pw = verifiers'[m][v]
    BY DEF VerifierFits
  <2>1. ~ (m = n /\ v = u)
    BY <1>4
  <2>2. users'[m][v] = users[m][v] /\ verifiers'[m][v] = verifiers[m][v]
    BY <1>4, <2>1
  <2>3. v \notin raced[m] \cup kept[m]
    BY <1>5 DEF HistGrows
  <2>4. QED  BY <2>2, <2>3 DEF DirectoryInv, VerifierFits
<1>6. CASE users[n][u] = None
  <2>1. Finish(r, "absent") /\ UNCHANGED <<
                                           raced, unpurged, kept, conflict, missed, fresh, setBack, closed, late>>
    BY <1>6 DEF DeleteCommit, histVars, cacheHist, tableHist
  <2>2. StepHome(r, "done", "absent", req[r].rec)
    BY <1>3, <2>1, FinishEffect
  <2>3. UNCHANGED users
    <3>1. users' = [users EXCEPT ![n][u] = None]
      BY DEF DeleteCommit, DbDelete
    <3>2. [users[n] EXCEPT ![u] = None] = users[n]
      BY <1>1, <1>3, <1>6 DEF TypeOK
    <3>3. QED  BY <1>1, <1>3, <3>1, <3>2 DEF TypeOK
  <2>4. TypeOK' /\ HistGrows
    BY <1>2, <1>3, <1>4, <2>1, <2>2, SameHist DEF TypeOK, StepHome, Step
  <2>5. Places' /\ HeldFits' /\ VerifiedFits' /\ Agreement'
    BY <1>1, <1>2, <2>1, <2>2, <2>3, <2>4, HomeRest DEF Holding, Vouched
  <2>6. AuthFits'
    BY <1>1, <1>2, <2>2, <2>3, <2>4, HomeDue, AuthQuiet DEF DirectoryInv
  <2>7. RecordFits'
    BY <1>1, <1>2, <2>2, <2>3, <2>4, HomeDue, RecordQuiet DEF DirectoryInv
  <2>8. QED  BY <1>5, <2>4, <2>5, <2>6, <2>7 DEF DirectoryInv
<1>7. CASE users[n][u] # None
  <2>1. Go(r, "purgeAuth") /\ Originates(n, u)
    BY <1>7 DEF DeleteCommit
  <2>2. StepHome(r, "purgeAuth", "none", req[r].rec)
    BY <1>1, <1>3, <2>1, GoEffect
  <2>3. Step(r, "purgeAuth", "none", req[r].rec)
    BY <2>2 DEF StepHome
  <2>4. /\ HistGrows /\ HistType' /\ TableType' /\ UNCHANGED <<closed, late>>
        /\ Underway(n, u) => u \in raced'[n]
    BY <1>1, <2>1, OriginatesEffect
  <2>5. RowChanges(n, u)
    BY <1>4, <2>4 DEF RowChanges
  <2>6. TypeOK'
    BY <1>2, <1>3, <1>4, <2>3, <2>4 DEF TypeOK, HistType, TableType, Step
  <2>7. Places'
    BY <1>1, <1>3, <2>2, HomePlaced DEF Holding
  <2>8. AuthFits' /\ RecordFits'
    <3>1. \A m \in Nodes, v \in Usernames, s \in Requests :
              /\ AuthDue(req[s], m, v) => AuthDue(req'[s], m, v)
              /\ PurgeDue(req[s], m, v) => PurgeDue(req'[s], m, v)
      BY <1>1, <2>2, HomeDue
    <3>2. AuthDue(req'[r], n, u) /\ PurgeDue(req'[r], n, u)
      BY <2>3 DEF Step, Same, AuthDue, PurgeDue
    <3>3. QED  BY <1>1, <1>2, <2>4, <2>5, <3>1, <3>2, CachesRow
  <2>9. HeldFits' /\ VerifiedFits'
    BY <1>1, <2>3, <2>4, <2>5, HeldRow DEF Holding, Vouched
  <2>10. Agreement'
    <3>1. users'[n][u] = Target(req'[r])
      BY <1>1, <1>4, <2>3 DEF Step, Same, Target
    <3>2. ASSUME NEW m \in Nodes, m # n PROVE Awaits(req'[r], m, u)
      BY <2>3, <3>2 DEF Step, Same, Awaits, Committed
    <3>3. ~ OnWay(req[r])
      BY <1>1, NotOnWay
    <3>4. QED  BY <1>1, <1>2, <2>1, <2>3, <2>5, <3>1, <3>2, <3>3, AgreementOriginates
  <2>11. QED  BY <1>5, <2>4, <2>6, <2>7, <2>8, <2>9, <2>10 DEF DirectoryInv
<1>8. QED  BY <1>6, <1>7

\* What purging the auth cache of n does.
LEMMA PurgeAuthEffect ==
    ASSUME TypeOK, NEW n \in Nodes, PurgeAuthCache(n)
    PROVE  /\ authCache' \in [Nodes -> [Usernames \X Passwords -> 0 .. Ttl]]
           /\ \A m \in Nodes, u \in Usernames, p \in Passwords :
                  authCache'[m][AuthKey(u, p)] = IF m = n THEN 0 ELSE authCache[m][AuthKey(u, p)]
<1>1. [k \in Usernames \X Passwords |-> 0] \in [Usernames \X Passwords -> 0 .. Ttl]
  BY DirectoryAssumption
<1>2. QED  BY <1>1 DEF TypeOK, PurgeAuthCache, AuthKey

\* What purging a record from the cache of n does.
LEMMA PurgeUserEffect ==
    ASSUME TypeOK, NEW n \in Nodes, NEW u \in Usernames, PurgeUserCache(n, u)
    PROVE  /\ userCache' \in [Nodes -> [Usernames -> Entry]]
           /\ \A m \in Nodes, v \in Usernames : userCache'[m][v] = IF m = n /\ v = u THEN None ELSE userCache[m][v]
BY DEF TypeOK, PurgeUserCache, Entry

\* A deletion purges the verifications.
LEMMA DeletePurgeAuthInv ==
    ASSUME DirectoryInv, NEW r \in Requests, DeletePurgeAuth(r)
    PROVE  DirectoryInv'
<1> DEFINE n == req[r].node
<1>1. req[r].pc = "purgeAuth" /\ req[r].kind = "delete" /\ req[r].answer = "none" /\ n \in Nodes
  BY PlaceOf DEF DeletePurgeAuth, Current
<1>2. UNCHANGED <<up, users, verifiers, userCache, catchUp, budget,
                  raced, unpurged, kept, conflict, missed, fresh, setBack, closed, late>>
  BY DEF DeletePurgeAuth, histVars, cacheHist, tableHist
<1>3. StepHome(r, "purgeUser", "none", req[r].rec)
  <2>1. TypeOK /\ "purgeUser" \in PCs /\ Go(r, "purgeUser")
    BY DEF DirectoryInv, PCs, DeletePurgeAuth
  <2>2. QED  BY <1>1, <2>1, GoEffect
<1>4. /\ authCache' \in [Nodes -> [Usernames \X Passwords -> 0 .. Ttl]]
      /\ \A m \in Nodes, u \in Usernames, p \in Passwords :
             authCache'[m][AuthKey(u, p)] = IF m = n THEN 0 ELSE authCache[m][AuthKey(u, p)]
  BY <1>1, PurgeAuthEffect DEF DirectoryInv, DeletePurgeAuth
<1>5. TypeOK' /\ HistGrows
  BY <1>2, <1>3, <1>4, SameHist DEF DirectoryInv, TypeOK, StepHome, Step
<1>6. Places' /\ HeldFits' /\ VerifiedFits' /\ Agreement'
  BY <1>1, <1>2, <1>3, <1>5, HomeRest DEF Holding, Vouched
<1>7. VerifierFits'
  BY <1>2, <1>5, VerifierQuiet DEF DirectoryInv
<1>8. AuthFits'
  <2>1. \A m \in Nodes, u \in Usernames, s \in Requests : AuthDue(req[s], m, u) =>
            AuthDue(req'[s], m, u) \/ \A p \in Passwords : ~ authCache'[m][AuthKey(u, p)] > 0
    BY <1>3, <1>4, HomeDue
  <2>2. \A m \in Nodes, u \in Usernames, p \in Passwords :
            authCache'[m][AuthKey(u, p)] > 0 => authCache[m][AuthKey(u, p)] > 0
    BY <1>4
  <2>3. QED  BY <1>2, <1>5, <2>1, <2>2, AuthQuiet DEF DirectoryInv
<1>9. RecordFits'
  <2>1. \A m \in Nodes, u \in Usernames, s \in Requests : PurgeDue(req[s], m, u) => PurgeDue(req'[s], m, u)
    BY <1>1, <1>3 DEF StepHome, Step, Same, PurgeDue
  <2>2. QED  BY <1>2, <1>5, <2>1, RecordQuiet DEF DirectoryInv
<1>10. QED  BY <1>5, <1>6, <1>7, <1>8, <1>9 DEF DirectoryInv

\* A deletion purges the record and goes out.
LEMMA DeletePurgeUserInv ==
    ASSUME DirectoryInv, NEW r \in Requests, DeletePurgeUser(r)
    PROVE  DirectoryInv'
<1> DEFINE n == req[r].node
           u == req[r].user
<1>1. /\ req[r].pc = "purgeUser" /\ req[r].kind = "delete" /\ n \in Nodes /\ u \in Usernames
      /\ WellPlaced(req[r])
  BY PlaceOf DEF DeletePurgeUser, Current
<1>2. /\ UNCHANGED <<up, users, verifiers, authCache, catchUp, budget,
                     raced, unpurged, kept, conflict, missed, fresh, setBack, closed, late>>
      /\ PurgeUserCache(n, u) /\ req' = [req EXCEPT ![r] = Fanned(req[r])]
  BY DEF DeletePurgeUser, histVars, cacheHist, tableHist
<1>3. StepFanned(r) /\ WellPlaced(req'[r])
  BY <1>1, <1>2, FannedEffect DEF DirectoryInv
<1>4. /\ userCache' \in [Nodes -> [Usernames -> Entry]]
      /\ \A m \in Nodes, v \in Usernames : userCache'[m][v] = IF m = n /\ v = u THEN None ELSE userCache[m][v]
  BY <1>1, <1>2, PurgeUserEffect DEF DirectoryInv
<1>5. TypeOK' /\ HistGrows
  BY <1>2, <1>3, <1>4, SameHist DEF DirectoryInv, TypeOK, StepFanned, Step
<1>6. Places' /\ HeldFits' /\ VerifiedFits'
  BY <1>2, <1>3, <1>5, FannedRest
<1>7. Agreement'
  BY <1>1, <1>2, <1>3, FannedAgreement DEF Committed
<1>8. VerifierFits'
  BY <1>2, <1>5, VerifierQuiet DEF DirectoryInv
<1>9. \A s \in Requests, m \in Nodes, v \in Usernames :
          /\ AuthDue(req[s], m, v) => AuthDue(req'[s], m, v)
          /\ PurgeDue(req[s], m, v) => PurgeDue(req'[s], m, v) \/ (m = n /\ v = u)
  <2> SUFFICES ASSUME NEW s \in Requests, NEW m \in Nodes, NEW v \in Usernames
               PROVE  /\ AuthDue(req[s], m, v) => AuthDue(req'[s], m, v)
                      /\ PurgeDue(req[s], m, v) => PurgeDue(req'[s], m, v) \/ (m = n /\ v = u)
    OBVIOUS
  <2>1. CASE s = r
    <3>1. req[r].repl[m] = "none"
      BY <1>1 DEF WellPlaced
    <3>2. QED  BY <1>1, <2>1, <3>1 DEF AuthDue, PurgeDue
  <2>2. CASE s # r
    BY <1>3, <2>2 DEF StepFanned, Step
  <2>3. QED  BY <2>1, <2>2
<1>10. AuthFits'
  BY <1>2, <1>5, <1>9, AuthQuiet DEF DirectoryInv
<1>11. RecordFits'
  <2>1. \A m \in Nodes, v \in Usernames :
            userCache'[m][v] # None => userCache[m][v] # None /\ userCache'[m][v].rec = userCache[m][v].rec
    BY <1>4
  <2>2. \A m \in Nodes, v \in Usernames, s \in Requests : PurgeDue(req[s], m, v) =>
            PurgeDue(req'[s], m, v) \/ userCache'[m][v] = None
    BY <1>4, <1>9
  <2>3. QED  BY <1>2, <1>5, <2>1, <2>2, RecordQuiet DEF DirectoryInv
<1>12. QED  BY <1>5, <1>6, <1>7, <1>8, <1>10, <1>11 DEF DirectoryInv

-----------------------------------------------------------------------------
(* A request is made. *)

\* What a new request is, and what it leaves alone.
LEMMA BeginEffect ==
    ASSUME DirectoryInv, NEW r \in Requests, NEW kind \in {"create", "delete", "connect"}, NEW n \in Nodes,
           NEW u \in Usernames, NEW p \in Passwords \cup {None}, NEW rec \in UserRecord \cup {None},
           NEW pc \in {"permit", "delete", "lookup"}, Begin(r, kind, n, u, p, rec, pc),
           kind = "create" => rec \in UserRecord /\ p = rec.pw /\ pc = "permit",
           kind = "delete" => pc = "delete",
           kind = "connect" => p \in Passwords /\ pc = "lookup"
    PROVE  /\ req' \in [Requests -> Request] /\ HistGrows
           /\ Places' /\ VerifierFits' /\ AuthFits' /\ RecordFits' /\ HeldFits' /\ VerifiedFits' /\ Agreement'
<1> DEFINE q == [NoRequest EXCEPT !.kind = kind, !.node = n, !.user = u, !.pw = p, !.rec = rec, !.pc = pc]
<1>1. /\ q.kind = kind /\ q.node = n /\ q.user = u /\ q.pw = p /\ q.rec = rec /\ q.pc = pc
      /\ q.answer = "none" /\ \A m \in Nodes : q.repl[m] = "none"
  BY DEF NoRequest
<1>2. q \in Request
  BY DEF NoRequest, Request, Kinds, PCs, Answers, Stages
<1>3. WellPlaced(q)
  <2> HIDE DEF q
  <2>1. QED  BY <1>1 DEF WellPlaced, Holding
<1>4. req[r] = NoRequest
  BY DEF Begin, DirectoryInv, Places, WellPlaced
<1>5. /\ req' = [req EXCEPT ![r] = q]
      /\ UNCHANGED <<users, verifiers, userCache, authCache, catchUp,
                     raced, unpurged, kept, conflict, missed, fresh, setBack>>
  BY DEF Begin, cacheHist, tableHist
<1> HIDE DEF q
<1>6. /\ req' \in [Requests -> Request] /\ req'[r] = q
      /\ \A s \in Requests : s # r => req'[s] = req[s]
  BY <1>2, <1>5, Replaced DEF DirectoryInv
<1>7. Places'
  BY <1>3, <1>6 DEF DirectoryInv, Places
<1>8. HistGrows
  BY <1>5 DEF HistGrows
<1>9. VerifierFits'
  BY <1>5, <1>8, VerifierQuiet DEF DirectoryInv
<1>10. ASSUME NEW s \in Requests, NEW m \in Nodes, NEW v \in Usernames
       PROVE  /\ AuthDue(req[s], m, v) => AuthDue(req'[s], m, v)
              /\ PurgeDue(req[s], m, v) => PurgeDue(req'[s], m, v)
  <2>1. CASE s = r
    BY <1>4, <2>1, NoneApart DEF AuthDue, PurgeDue, NoRequest
  <2>2. CASE s # r
    BY <1>6, <2>2
  <2>3. QED  BY <2>1, <2>2
<1>11. AuthFits'
  BY <1>5, <1>8, <1>10, AuthQuiet DEF DirectoryInv
<1>12. RecordFits'
  BY <1>5, <1>8, <1>10, RecordQuiet DEF DirectoryInv
<1>13. \A s \in Requests : Kept(s)
  BY <1>1, <1>6 DEF Kept, Same, Holding
<1>14. HeldFits' /\ VerifiedFits'
  BY <1>5, <1>8, <1>13, HeldQuiet DEF DirectoryInv
<1>15. \A s \in Requests : SameWay(s)
  <2>1. ~ OnWay(req[r]) /\ ~ OnWay(req'[r])
    BY <1>1, <1>4, <1>6 DEF OnWay, Committed, NoRequest
  <2>2. QED  BY <1>6, <2>1 DEF SameWay, Same
<1>16. Agreement'
  BY <1>5, <1>15, AgreementQuiet DEF DirectoryInv
<1>17. QED  BY <1>6, <1>7, <1>8, <1>9, <1>11, <1>12, <1>14, <1>16

\* A creation begins.
LEMMA BeginCreateInv ==
    ASSUME DirectoryInv, NEW r \in Requests, NEW n \in Nodes, NEW u \in Usernames, NEW rec \in UserRecord,
           BeginCreate(r, n, u, rec)
    PROVE  DirectoryInv'
<1>1. Begin(r, "create", n, u, rec.pw, rec, "permit") /\ rec.pw \in Passwords
  BY DEF BeginCreate, UserRecord
<1>2. /\ req' \in [Requests -> Request]
      /\ Places' /\ VerifierFits' /\ AuthFits' /\ RecordFits' /\ HeldFits' /\ VerifiedFits' /\ Agreement'
  BY <1>1, BeginEffect
<1>3. TypeOK'
  BY <1>2 DEF BeginCreate, Begin, cacheHist, tableHist, DirectoryInv, TypeOK
<1>4. QED  BY <1>2, <1>3 DEF DirectoryInv

\* A deletion begins.
LEMMA BeginDeleteInv ==
    ASSUME DirectoryInv, NEW r \in Requests, NEW n \in Nodes, NEW u \in Usernames, BeginDelete(r, n, u)
    PROVE  DirectoryInv'
<1>1. Begin(r, "delete", n, u, None, None, "delete")
  BY DEF BeginDelete
<1>2. /\ req' \in [Requests -> Request]
      /\ Places' /\ VerifierFits' /\ AuthFits' /\ RecordFits' /\ HeldFits' /\ VerifiedFits' /\ Agreement'
  BY <1>1, BeginEffect
<1>3. TypeOK'
  BY <1>2 DEF BeginDelete, Begin, cacheHist, tableHist, DirectoryInv, TypeOK
<1>4. QED  BY <1>2, <1>3 DEF DirectoryInv

\* A login begins.
LEMMA BeginConnectInv ==
    ASSUME DirectoryInv, NEW r \in Requests, NEW n \in Nodes, NEW u \in Usernames, NEW p \in Logins,
           BeginConnect(r, n, u, p)
    PROVE  DirectoryInv'
<1>1. Begin(r, "connect", n, u, p, None, "lookup") /\ p \in Passwords
  BY DirectoryAssumption DEF BeginConnect
<1>2. /\ req' \in [Requests -> Request]
      /\ Places' /\ VerifierFits' /\ AuthFits' /\ RecordFits' /\ HeldFits' /\ VerifiedFits' /\ Agreement'
  BY <1>1, BeginEffect
<1>3. budget' \in [faults : Nat, crashes : Nat, logins : Nat]
  <2>1. budget \in [faults : Nat, crashes : Nat, logins : Nat]
    BY DEF DirectoryInv, TypeOK
  <2>2. budget.logins > 0 /\ budget' = [budget EXCEPT !.logins = @ - 1]
    BY DEF BeginConnect
  <2>3. QED  BY <2>1, <2>2
<1>4. late' \subseteq Requests
  BY DEF BeginConnect, DirectoryInv, TypeOK
<1>5. TypeOK'
  BY <1>2, <1>3, <1>4 DEF BeginConnect, Begin, cacheHist, tableHist, DirectoryInv, TypeOK
<1>6. QED  BY <1>2, <1>5 DEF DirectoryInv

-----------------------------------------------------------------------------
(* replicate. *)

\* A request with a POST.
LEMMA PostPlace ==
    ASSUME DirectoryInv, NEW r \in Requests, NEW p \in Nodes, req[r].repl[p] # "none"
    PROVE  /\ req[r].node \in Nodes /\ req[r].user \in Usernames
           /\ req[r].kind \in {"create", "delete"} /\ req[r].pc \in {"fanout", "done"}
           /\ req[r].kind = "create" => req[r].rec \in UserRecord
           /\ req[r].answer # "allow" /\ ~ Committed(req[r])
<1>1. req[r] \in Request /\ WellPlaced(req[r])
  BY DEF DirectoryInv, TypeOK, Places
<1>2. req[r].kind # "none" /\ req[r].kind # "connect"
  BY <1>1 DEF WellPlaced, NoRequest
<1>3. req[r].kind \in {"create", "delete"}
  BY <1>1, <1>2 DEF Request, Kinds
<1>4. QED  BY <1>1, <1>2, <1>3 DEF WellPlaced, Committed

\* A POST goes on: places and what is held.
LEMMA PostRest ==
    ASSUME DirectoryInv, HistGrows, NEW r \in Requests, NEW p \in Nodes, NEW stage, req[r].repl[p] # "none",
           StepPost(r, p, stage)
    PROVE  Places' /\ (UNCHANGED users => HeldFits' /\ VerifiedFits')
<1>1. /\ req[r].node \in Nodes /\ req[r].user \in Usernames
      /\ req[r].kind \in {"create", "delete"} /\ req[r].pc \in {"fanout", "done"}
      /\ req[r].answer # "allow"
  BY PostPlace
<1>2. WellPlaced(req'[r])
  <2>1. WellPlaced(req[r])
    BY DEF DirectoryInv, Places
  <2>2. QED  BY <1>1, <2>1 DEF StepPost, Step, Same, WellPlaced, Holding
<1>3. Places'
  BY <1>2 DEF DirectoryInv, Places, StepPost, Step
<1>4. HeldFits /\ VerifiedFits /\ Places /\ Step(r, req[r].pc, req[r].answer, req[r].rec)
  BY DEF DirectoryInv, StepPost
<1>5. UNCHANGED users => HeldFits' /\ VerifiedFits'
  BY <1>1, <1>4, HeldStep DEF Holding, Vouched
<1>6. QED  BY <1>3, <1>5

\* What a POST that goes on leaves to be purged.
LEMMA PostDue ==
    ASSUME NEW r \in Requests, NEW p \in Nodes, NEW stage, StepPost(r, p, stage),
           NEW s \in Requests, NEW n \in Nodes, NEW u \in Usernames
    PROVE  /\ AuthDue(req[s], n, u) => \/ AuthDue(req'[s], n, u)
                                       \/ s = r /\ n = p /\ req[r].repl[p] = "applied" /\ u = req[r].user
           /\ PurgeDue(req[s], n, u) => \/ PurgeDue(req'[s], n, u)
                                        \/ s = r /\ n = p /\ req[r].repl[p] \in {"applied", "purged"} /\ u = req[r].user
BY DEF StepPost, Step, Same, AuthDue, PurgeDue

\* A POST that is not being sent changes nothing of what is on its way.
LEMMA PostWay ==
    ASSUME NEW r \in Requests, NEW p \in Nodes, NEW stage, StepPost(r, p, stage),
           stage # "sent", req[r].repl[p] # "sent"
    PROVE  \A s \in Requests : SameWay(s)
<1> SUFFICES ASSUME NEW s \in Requests PROVE SameWay(s)
  OBVIOUS
<1>1. CASE s # r
  BY <1>1 DEF StepPost, Step, SameWay, Same
<1>2. CASE s = r
  BY <1>2 DEF StepPost, Step, SameWay, Same, Target, Committed
<1>3. QED  BY <1>1, <1>2

\* A peer commits the change.
LEMMA ReplicateCommitInv ==
    ASSUME DirectoryInv, NEW r \in Requests, NEW p \in Nodes, ReplicateCommit(r, p)
    PROVE  DirectoryInv'
<1> DEFINE u == req[r].user
<1>1. req[r].repl[p] = "sent"
  BY DEF ReplicateCommit
<1>2. /\ req[r].node \in Nodes /\ u \in Usernames
      /\ req[r].kind \in {"create", "delete"} /\ req[r].pc \in {"fanout", "done"}
      /\ req[r].kind = "create" => req[r].rec \in UserRecord
      /\ req[r].answer # "allow" /\ ~ Committed(req[r])
  BY <1>1, PostPlace
<1>3. UNCHANGED <<up, userCache, authCache, catchUp, budget, unpurged, conflict, fresh, closed, late>>
  BY DEF ReplicateCommit, ReplicaHistory
<1>4. StepPost(r, p, "applied")
  <2>1. TypeOK /\ "applied" \in Stages /\ req' = [req EXCEPT ![r].repl[p] = "applied"]
    BY DEF DirectoryInv, Stages, ReplicateCommit
  <2>2. QED  BY <2>1, PostEffect
<1>5. Step(r, req[r].pc, req[r].answer, req[r].rec)
  BY <1>4 DEF StepPost
<1>6. PICK v : v = Target(req[r])
  OBVIOUS
<1>7. v \in UserRecord \cup {None}
  BY <1>2, <1>6 DEF Target
<1>8. /\ users' = [users EXCEPT ![p][u] = v]
      /\ req[r].kind = "create" => UNCHANGED verifiers
      /\ req[r].kind = "delete" => verifiers' = [verifiers EXCEPT ![p][u] = None]
  BY <1>6 DEF ReplicateCommit, DbPut, DbDelete, Target
<1>9. /\ users' \in [Nodes -> [Usernames -> UserRecord \cup {None}]]
      /\ \A m \in Nodes, w \in Usernames : users'[m][w] = IF m = p /\ w = u THEN v ELSE users[m][w]
  BY <1>2, <1>7, <1>8 DEF DirectoryInv, TypeOK
<1>10. /\ verifiers' \in [Nodes -> [Usernames -> Passwords \cup {None}]]
       /\ \A m \in Nodes, w \in Usernames :
              verifiers'[m][w] = IF m = p /\ w = u /\ req[r].kind = "delete" THEN None ELSE verifiers[m][w]
  <2>1. verifiers \in [Nodes -> [Usernames -> Passwords \cup {None}]]
    BY DEF DirectoryInv, TypeOK
  <2>2. CASE req[r].kind = "create"
    BY <1>8, <2>1, <2>2
  <2>3. CASE req[r].kind = "delete"
    BY <1>2, <1>8, <2>1, <2>3
  <2>4. QED  BY <1>2, <2>2, <2>3
<1>11. /\ HistGrows /\ HistType'
       /\ Underway(p, u) => u \in raced'[p]
       /\ req[r].kind = "create" /\ verifiers[p][u] \notin {None, req[r].rec.pw} => u \in kept'[p]
  <2> DEFINE U == {w \in {u} : Underway(p, w)}
             K == {w \in {u} : req[r].kind = "create" /\ verifiers[p][w] \notin {None, req[r].rec.pw}}
  <2>1. TypeOK /\ U \subseteq Usernames /\ K \subseteq Usernames /\ Race(p, U)
    BY <1>2 DEF DirectoryInv, ReplicateCommit, ReplicaHistory
  <2>2. kept' = [kept EXCEPT ![p] = @ \cup K]
    BY DEF ReplicateCommit, ReplicaHistory
  <2>3. /\ \A m \in Nodes : raced[m] \subseteq raced'[m]
        /\ \A w \in U : w \in raced'[p]
        /\ raced' \in [Nodes -> SUBSET Usernames]
    <3> HIDE DEF U
    <3>1. QED  BY <2>1, RaceGrows
  <2>4. /\ \A m \in Nodes : kept[m] \subseteq kept'[m]
        /\ \A w \in K : w \in kept'[p]
        /\ kept' \in [Nodes -> SUBSET Usernames]
    <3> HIDE DEF K
    <3>1. QED  BY <2>1, <2>2 DEF TypeOK
  <2>5. HistGrows /\ HistType'
    BY <1>3, <2>1, <2>3, <2>4 DEF HistGrows, HistType, TypeOK
  <2>6. QED  BY <2>3, <2>4, <2>5
<1>12. /\ missed' \in [Nodes -> SUBSET Usernames] /\ setBack' \in [Nodes -> SUBSET Usernames]
       /\ \A m \in Nodes, w \in Usernames : ~ (m = p /\ w = u) => /\ w \in missed'[m] <=> w \in missed[m]
                                                                  /\ w \in setBack'[m] <=> w \in setBack[m]
  BY <1>2 DEF ReplicateCommit, ReplicaHistory, Applies, DirectoryInv, TypeOK
<1>13. RowChanges(p, u)
  BY <1>9, <1>11 DEF RowChanges
<1>14. TypeOK'
  BY <1>3, <1>5, <1>9, <1>10, <1>11, <1>12 DEF DirectoryInv, TypeOK, HistType, Step
<1>15. Places'
  BY <1>1, <1>4, <1>11, PostRest
<1>16. VerifierFits'
  <2> SUFFICES ASSUME NEW m \in Nodes, NEW w \in Usernames, w \notin raced'[m] \cup kept'[m], verifiers'[m][w] # None
               PROVE  users'[m][w] # None /\ users'[m][w].pw = verifiers'[m][w]
    BY DEF VerifierFits
  <2>1. verifiers'[m][w] = verifiers[m][w] /\ ~ (m = p /\ w = u /\ req[r].kind = "delete")
    BY <1>10
  <2>2. users[m][w] # None /\ users[m][w].pw = verifiers[m][w]
    BY <1>11, <2>1 DEF DirectoryInv, VerifierFits, HistGrows
  <2>3. CASE m = p /\ w = u
    <3>1. req[r].kind = "create" /\ users'[m][w] = req[r].rec
      BY <1>2, <1>6, <1>9, <2>1, <2>3 DEF Target
    <3>2. verifiers[p][u] = req[r].rec.pw
      BY <1>11, <2>1, <2>3, <3>1
    <3>3. QED  BY <1>2, <2>1, <2>3, <3>1, <3>2, NoneApart
  <2>4. CASE ~ (m = p /\ w = u)
    BY <1>9, <2>1, <2>2, <2>4
  <2>5. QED  BY <2>3, <2>4
<1>17. AuthFits' /\ RecordFits'
  <2>1. \A m \in Nodes, w \in Usernames, s \in Requests :
            /\ AuthDue(req[s], m, w) => AuthDue(req'[s], m, w)
            /\ PurgeDue(req[s], m, w) => PurgeDue(req'[s], m, w)
    BY <1>1, <1>4, PostDue
  <2>2. AuthDue(req'[r], p, u) /\ PurgeDue(req'[r], p, u)
    BY <1>4 DEF StepPost, Step, Same, AuthDue, PurgeDue
  <2>3. QED  BY <1>2, <1>3, <1>11, <1>13, <2>1, <2>2, CachesRow
<1>18. HeldFits' /\ VerifiedFits'
  BY <1>2, <1>5, <1>11, <1>13, HeldRow DEF Holding, Vouched
<1>19. Agreement'
  <2> SUFFICES ASSUME NEW w \in Usernames, w \notin conflict PROVE \E x : Agreed(w, x)'
    BY <1>3 DEF Agreement
  <2>1. PICK x : Agreed(w, x)
    BY DEF DirectoryInv, Agreement
  <2>2. /\ \A s \in Requests : s # r => req'[s] = req[s]
        /\ req'[r].user = u /\ Target(req'[r]) = v /\ ~ Committed(req'[r])
    BY <1>2, <1>5, <1>6 DEF Step, Same, Target, Committed
  <2>3. \A s \in Requests : OnWay(req'[s]) =>
            OnWay(req[s]) /\ Target(req'[s]) = Target(req[s]) /\ req'[s].user = req[s].user
    <3> SUFFICES ASSUME NEW s \in Requests, OnWay(req'[s])
                 PROVE  OnWay(req[s]) /\ Target(req'[s]) = Target(req[s]) /\ req'[s].user = req[s].user
      OBVIOUS
    <3>1. CASE s = r
      <4>1. OnWay(req[r])
        BY <1>1 DEF OnWay
      <4>2. QED  BY <1>6, <2>2, <3>1, <4>1
    <3>2. QED  BY <2>2, <3>1
  <2>4. w = u => v = x
    <3>1. OnWay(req[r])
      BY <1>1 DEF OnWay
    <3>2. QED  BY <1>6, <2>1, <3>1 DEF Agreed
  <2>5. ASSUME NEW n \in Nodes
        PROVE  w \in missed'[n] \cup setBack'[n] \/ users'[n][w] = x \/ \E s \in Requests : Awaits(req'[s], n, w)
    <3>1. CASE n = p /\ w = u
      BY <1>9, <2>4, <3>1
    <3>2. CASE ~ (n = p /\ w = u)
      <4>1. w \in missed[n] \cup setBack[n] \/ users[n][w] = x \/ \E s \in Requests : Awaits(req[s], n, w)
        BY <2>1 DEF Agreed
      <4>2. ASSUME NEW s \in Requests, Awaits(req[s], n, w) PROVE Awaits(req'[s], n, w)
        <5>1. CASE s = r
          BY <1>2, <1>4, <3>2, <4>2, <5>1 DEF StepPost, Step, Same, Awaits
        <5>2. QED  BY <2>2, <4>2, <5>1
      <4>3. QED  BY <1>9, <1>12, <3>2, <4>1, <4>2
    <3>3. QED  BY <3>1, <3>2
  <2>6. ASSUME NEW s \in Requests, req'[s].user = w, OnWay(req'[s]) PROVE Target(req'[s]) = x
    BY <2>1, <2>3, <2>6 DEF Agreed
  <2>7. ASSUME NEW n \in Nodes, catchUp'[n].pc = "apply", w \in fresh'[n] PROVE catchUp'[n].snap[w] = x
    BY <1>3, <2>1, <2>7 DEF Agreed
  <2>8. Agreed(w, x)'
    BY <2>5, <2>6, <2>7 DEF Agreed
  <2>9. QED  BY <2>8
<1>20. QED  BY <1>14, <1>15, <1>16, <1>17, <1>18, <1>19 DEF DirectoryInv

\* A peer purges the verifications.
LEMMA ReplicatePurgeAuthInv ==
    ASSUME DirectoryInv, NEW r \in Requests, NEW p \in Nodes, ReplicatePurgeAuth(r, p)
    PROVE  DirectoryInv'
<1>1. req[r].repl[p] = "applied"
  BY DEF ReplicatePurgeAuth
<1>2. UNCHANGED <<up, users, verifiers, userCache, catchUp, budget,
                  raced, unpurged, kept, conflict, missed, fresh, setBack, closed, late>>
  BY DEF ReplicatePurgeAuth, histVars, cacheHist, tableHist
<1>3. StepPost(r, p, "purged")
  <2>1. TypeOK /\ "purged" \in Stages /\ req' = [req EXCEPT ![r].repl[p] = "purged"]
    BY DEF DirectoryInv, Stages, ReplicatePurgeAuth
  <2>2. QED  BY <2>1, PostEffect
<1>4. /\ authCache' \in [Nodes -> [Usernames \X Passwords -> 0 .. Ttl]]
      /\ \A m \in Nodes, u \in Usernames, o \in Passwords :
             authCache'[m][AuthKey(u, o)] = IF m = p THEN 0 ELSE authCache[m][AuthKey(u, o)]
  BY PurgeAuthEffect DEF DirectoryInv, ReplicatePurgeAuth
<1>5. TypeOK' /\ HistGrows
  BY <1>2, <1>3, <1>4, SameHist DEF DirectoryInv, TypeOK, StepPost, Step
<1>6. Places' /\ HeldFits' /\ VerifiedFits'
  BY <1>1, <1>2, <1>3, <1>5, PostRest
<1>7. \A s \in Requests : SameWay(s)
  BY <1>1, <1>3, PostWay
<1>8. Agreement'
  BY <1>2, <1>7, AgreementQuiet DEF DirectoryInv
<1>9. VerifierFits'
  BY <1>2, <1>5, VerifierQuiet DEF DirectoryInv
<1>10. AuthFits'
  <2>1. \A m \in Nodes, u \in Usernames, s \in Requests : AuthDue(req[s], m, u) =>
            AuthDue(req'[s], m, u) \/ \A o \in Passwords : ~ authCache'[m][AuthKey(u, o)] > 0
    BY <1>3, <1>4, PostDue
  <2>2. \A m \in Nodes, u \in Usernames, o \in Passwords :
            authCache'[m][AuthKey(u, o)] > 0 => authCache[m][AuthKey(u, o)] > 0
    BY <1>4
  <2>3. QED  BY <1>2, <1>5, <2>1, <2>2, AuthQuiet DEF DirectoryInv
<1>11. RecordFits'
  <2>1. \A m \in Nodes, u \in Usernames, s \in Requests : PurgeDue(req[s], m, u) => PurgeDue(req'[s], m, u)
    BY <1>3 DEF StepPost, Step, Same, PurgeDue
  <2>2. QED  BY <1>2, <1>5, <2>1, RecordQuiet DEF DirectoryInv
<1>12. QED  BY <1>5, <1>6, <1>8, <1>9, <1>10, <1>11 DEF DirectoryInv

\* A peer purges the record.
LEMMA ReplicatePurgeUserInv ==
    ASSUME DirectoryInv, NEW r \in Requests, NEW p \in Nodes, ReplicatePurgeUser(r, p)
    PROVE  DirectoryInv'
<1> DEFINE u == req[r].user
<1>1. req[r].repl[p] = "purged"
  BY DEF ReplicatePurgeUser
<1>2. u \in Usernames
  BY <1>1, PostPlace
<1>3. UNCHANGED <<up, users, verifiers, authCache, catchUp, budget,
                  raced, unpurged, kept, conflict, missed, fresh, setBack, closed, late>>
  BY DEF ReplicatePurgeUser, histVars, cacheHist, tableHist
<1>4. StepPost(r, p, "done")
  <2>1. TypeOK /\ "done" \in Stages /\ req' = [req EXCEPT ![r].repl[p] = "done"]
    BY DEF DirectoryInv, Stages, ReplicatePurgeUser
  <2>2. QED  BY <2>1, PostEffect
<1>5. /\ userCache' \in [Nodes -> [Usernames -> Entry]]
      /\ \A m \in Nodes, v \in Usernames : userCache'[m][v] = IF m = p /\ v = u THEN None ELSE userCache[m][v]
  BY <1>2, PurgeUserEffect DEF DirectoryInv, ReplicatePurgeUser
<1>6. TypeOK' /\ HistGrows
  BY <1>3, <1>4, <1>5, SameHist DEF DirectoryInv, TypeOK, StepPost, Step
<1>7. Places' /\ HeldFits' /\ VerifiedFits'
  BY <1>1, <1>3, <1>4, <1>6, PostRest
<1>8. \A s \in Requests : SameWay(s)
  BY <1>1, <1>4, PostWay
<1>9. Agreement'
  BY <1>3, <1>8, AgreementQuiet DEF DirectoryInv
<1>10. VerifierFits'
  BY <1>3, <1>6, VerifierQuiet DEF DirectoryInv
<1>11. AuthFits'
  BY <1>1, <1>3, <1>4, <1>6, PostDue, AuthQuiet DEF DirectoryInv
<1>12. RecordFits'
  <2>1. \A m \in Nodes, v \in Usernames :
            userCache'[m][v] # None => userCache[m][v] # None /\ userCache'[m][v].rec = userCache[m][v].rec
    BY <1>5
  <2>2. \A m \in Nodes, v \in Usernames, s \in Requests : PurgeDue(req[s], m, v) =>
            PurgeDue(req'[s], m, v) \/ userCache'[m][v] = None
    BY <1>4, <1>5, PostDue
  <2>3. QED  BY <1>3, <1>6, <2>1, <2>2, RecordQuiet DEF DirectoryInv
<1>13. QED  BY <1>6, <1>7, <1>9, <1>10, <1>11, <1>12 DEF DirectoryInv

\* What is left of the bound on faults.
LEMMA FaultBudget ==
    ASSUME DirectoryInv, budget.faults > 0, budget' = [budget EXCEPT !.faults = @ - 1]
    PROVE  budget' \in [faults : Nat, crashes : Nat, logins : Nat]
<1>1. budget \in [faults : Nat, crashes : Nat, logins : Nat]
  BY DEF DirectoryInv, TypeOK
<1>2. QED  BY <1>1

\* A POST is lost, or dropped after it was applied.
LEMMA LoseReplicateInv ==
    ASSUME DirectoryInv, NEW r \in Requests, NEW p \in Nodes, LoseReplicate(r, p)
    PROVE  DirectoryInv'
<1> DEFINE u == req[r].user
<1>1. req[r].repl[p] \in {"sent", "applied"}
  BY DEF LoseReplicate
<1>2. u \in Usernames /\ ~ Committed(req[r]) /\ req[r].kind \in {"create", "delete"}
  BY <1>1, PostPlace
<1>3. UNCHANGED <<up, users, verifiers, userCache, authCache, catchUp,
                  raced, kept, conflict, fresh, setBack, closed, late>>
  BY DEF LoseReplicate
<1>4. budget' \in [faults : Nat, crashes : Nat, logins : Nat]
  <2>1. CASE UNCHANGED budget
    BY <2>1 DEF DirectoryInv, TypeOK
  <2>2. QED  BY <2>1, FaultBudget DEF LoseReplicate
<1>5. PICK stage \in {"lost", "cut"} : StepPost(r, p, stage)
  <2>1. PICK stage \in {"lost", "cut"} : req' = [req EXCEPT ![r].repl[p] = stage]
    BY DEF LoseReplicate
  <2>2. TypeOK /\ stage \in Stages
    BY DEF DirectoryInv, Stages
  <2>3. QED  BY <2>1, <2>2, PostEffect
<1>6. Step(r, req[r].pc, req[r].answer, req[r].rec)
  BY <1>5 DEF StepPost
<1>7. /\ HistGrows /\ HistType' /\ missed' \in [Nodes -> SUBSET Usernames]
      /\ req[r].repl[p] = "applied" => (u \in unpurged'[p] \/ ~ Cached(p, u)) /\ UNCHANGED missed
      /\ \A m \in Nodes : missed[m] \subseteq missed'[m]
      /\ req[r].repl[p] = "sent" => u \in missed'[p]
  <2>1. CASE req[r].repl[p] = "sent"
    <3>1. missed' = [missed EXCEPT ![p] = @ \cup {u}] /\ UNCHANGED unpurged
      BY <2>1 DEF LoseReplicate
    <3>2. QED  BY <1>2, <1>3, <2>1, <3>1 DEF DirectoryInv, TypeOK, HistGrows, HistType
  <2>2. CASE req[r].repl[p] = "applied"
    <3>1. Unpurge(p, {u}) /\ UNCHANGED missed /\ TypeOK /\ {u} \subseteq Usernames
      BY <1>2, <2>2 DEF LoseReplicate, DirectoryInv
    <3>2. HistGrows /\ HistType' /\ (u \in unpurged'[p] \/ ~ Cached(p, u))
      BY <1>3, <3>1, UnpurgeGrows
    <3>3. QED  BY <2>2, <3>1, <3>2 DEF TypeOK
  <2>3. QED  BY <1>1, <2>1, <2>2
<1>8. TypeOK'
  BY <1>3, <1>4, <1>6, <1>7 DEF DirectoryInv, TypeOK, HistType, Step
<1>9. Places' /\ HeldFits' /\ VerifiedFits'
  BY <1>1, <1>3, <1>5, <1>7, PostRest
<1>10. VerifierFits'
  BY <1>3, <1>7, VerifierQuiet DEF DirectoryInv
<1>11. AuthFits'
  <2>1. \A m \in Nodes, w \in Usernames, s \in Requests : w \notin unpurged'[m] /\ AuthDue(req[s], m, w) =>
            AuthDue(req'[s], m, w) \/ \A o \in Passwords : ~ authCache'[m][AuthKey(w, o)] > 0
    BY <1>2, <1>3, <1>5, <1>7, PostDue, NotCached
  <2>2. QED  BY <1>3, <1>7, <2>1, AuthQuiet DEF DirectoryInv
<1>12. RecordFits'
  <2>1. \A m \in Nodes, w \in Usernames, s \in Requests : w \notin unpurged'[m] /\ PurgeDue(req[s], m, w) =>
            PurgeDue(req'[s], m, w) \/ userCache'[m][w] = None
    BY <1>1, <1>2, <1>3, <1>5, <1>7, PostDue, NotCached
  <2>2. QED  BY <1>3, <1>7, <2>1, RecordQuiet DEF DirectoryInv
<1>13. Agreement'
  <2> SUFFICES ASSUME NEW w \in Usernames, w \notin conflict PROVE \E v : Agreed(w, v)'
    BY <1>3 DEF Agreement
  <2>1. PICK v : Agreed(w, v)
    BY DEF DirectoryInv, Agreement
  <2>2. ASSUME NEW s \in Requests, req'[s].user = w, OnWay(req'[s])
        PROVE  OnWay(req[s]) /\ Target(req'[s]) = Target(req[s]) /\ req[s].user = w
    <3>1. CASE s = r
      BY <1>5, <2>2, <3>1 DEF StepPost, Step, Same, OnWay, Target, Committed
    <3>2. CASE s # r
      BY <1>6, <2>2, <3>2 DEF Step
    <3>3. QED  BY <3>1, <3>2
  <2>3. ASSUME NEW s \in Requests, NEW n \in Nodes, Awaits(req[s], n, w)
        PROVE  Awaits(req'[s], n, w) \/ w \in missed'[n]
    <3>1. CASE s = r
      BY <1>2, <1>5, <1>7, <2>3, <3>1 DEF StepPost, Step, Same, Awaits
    <3>2. CASE s # r
      BY <1>6, <2>3, <3>2 DEF Step
    <3>3. QED  BY <3>1, <3>2
  <2>4. \A n \in Nodes : SnapKept(n, w)
    BY <1>3 DEF SnapKept
  <2>5. \A n \in Nodes : /\ users'[n][w] = users[n][w]
                         /\ w \in missed[n] \cup setBack[n] => w \in missed'[n] \cup setBack'[n]
    BY <1>3, <1>7
  <2>6. Agreed(w, v)'
    BY <2>1, <2>2, <2>3, <2>4, <2>5, AgreedKept
  <2>7. QED  BY <2>6
<1>14. QED  BY <1>8, <1>9, <1>10, <1>11, <1>12, <1>13 DEF DirectoryInv

-----------------------------------------------------------------------------
(* catch_up. *)

\* Steps that touch neither requests nor tables nor caches.
LEMMA RequestsSame ==
    ASSUME DirectoryInv, UNCHANGED <<users, verifiers, userCache, authCache, req, raced, unpurged, kept>>
    PROVE  Places' /\ VerifierFits' /\ AuthFits' /\ RecordFits' /\ HeldFits' /\ VerifiedFits'
<1>1. Places'
  BY DEF DirectoryInv, Places
<1>2. VerifierFits'
  BY DEF DirectoryInv, VerifierFits
<1>3. AuthFits'
  BY DEF DirectoryInv, AuthFits
<1>4. RecordFits'
  BY DEF DirectoryInv, RecordFits
<1>5. HeldFits' /\ VerifiedFits'
  BY DEF DirectoryInv, HeldFits, VerifiedFits
<1>6. QED  BY <1>1, <1>2, <1>3, <1>4, <1>5

\* A node copies the users of a peer.
LEMMA CatchUpFetchInv ==
    ASSUME DirectoryInv, NEW n \in Nodes, NEW p \in Nodes, CatchUpFetch(n, p)
    PROVE  DirectoryInv'
<1> DEFINE c == [pc |-> "apply", snap |-> users[p]]
           F == {u \in Usernames \ (missed[p] \cup setBack[p]) : ~ Awaited(p, u)}
<1>1. /\ UNCHANGED <<up, users, verifiers, userCache, authCache, req, budget,
                     raced, unpurged, kept, conflict, missed, setBack, closed, late>>
      /\ catchUp' = [catchUp EXCEPT ![n] = c]
      /\ fresh' = [fresh EXCEPT ![n] = F]
  BY DEF CatchUpFetch, DbList, cacheHist
<1>2. c \in [pc : {"idle", "fetch", "apply"}, snap : [Usernames -> UserRecord \cup {None}]]
  <2>1. users[p] \in [Usernames -> UserRecord \cup {None}]
    BY DEF DirectoryInv, TypeOK
  <2>2. QED  BY <2>1
<1>3. /\ c.pc = "apply" /\ c.snap = users[p] /\ F \subseteq Usernames
      /\ \A u \in F : u \notin missed[p] \cup setBack[p] /\ ~ Awaited(p, u)
  OBVIOUS
<1> HIDE DEF c, F
<1>4. \A m \in Nodes : /\ catchUp'[m] = IF m = n THEN c ELSE catchUp[m]
                       /\ fresh'[m] = IF m = n THEN F ELSE fresh[m]
  BY <1>1 DEF DirectoryInv, TypeOK
<1>5. TypeOK'
  BY <1>1, <1>2, <1>3 DEF DirectoryInv, TypeOK
<1>6. Places' /\ VerifierFits' /\ AuthFits' /\ RecordFits' /\ HeldFits' /\ VerifiedFits'
  BY <1>1, RequestsSame
<1>7. Agreement'
  <2> SUFFICES ASSUME NEW w \in Usernames, w \notin conflict PROVE \E v : Agreed(w, v)'
    BY <1>1 DEF Agreement
  <2>1. PICK v : Agreed(w, v)
    BY DEF DirectoryInv, Agreement
  <2>2. w \in F => c.snap[w] = v
    <3>1. w \in F => \A s \in Requests : ~ Awaits(req[s], p, w)
      BY <1>3 DEF Awaited, Awaits
    <3>2. QED  BY <1>3, <2>1, <3>1 DEF Agreed
  <2>3. \A m \in Nodes : catchUp'[m].pc = "apply" /\ w \in fresh'[m] => catchUp'[m].snap[w] = v
    BY <1>4, <2>1, <2>2 DEF Agreed
  <2>4. Agreed(w, v)'
    BY <1>1, <2>1, <2>3 DEF Agreed
  <2>5. QED  BY <2>4
<1>8. QED  BY <1>5, <1>6, <1>7 DEF DirectoryInv

\* A catch_up task that is not there has read nothing.
LEMMA IdleType ==
    /\ Idle \in [pc : {"idle", "fetch", "apply"}, snap : [Usernames -> UserRecord \cup {None}]]
    /\ Idle.pc = "idle"
BY DEF Idle

\* A node stores what it copied.
LEMMA CatchUpApplyInv ==
    ASSUME DirectoryInv, NEW n \in Nodes, CatchUpApply(n)
    PROVE  DirectoryInv'
<1> DEFINE snap == catchUp[n].snap
           new == [u \in Usernames |-> IF snap[u] # None THEN snap[u] ELSE users[n][u]]
           changed == {u \in Usernames : snap[u] \notin {None, users[n][u]}}
           right == {u \in fresh[n] : snap[u] # None}
           R == {u \in changed : Underway(n, u)}
           K == {u \in changed : verifiers[n][u] \notin {None, snap[u].pw}}
           B == {u \in changed \ (fresh[n] \cup missed[n]) : ~ Awaited(n, u)}
<1>1. /\ UNCHANGED <<up, verifiers, userCache, authCache, req, budget, conflict, closed, late>>
      /\ catchUp[n].pc = "apply"
      /\ catchUp' = [catchUp EXCEPT ![n] = Idle]
      /\ fresh' = [fresh EXCEPT ![n] = {}]
  BY DEF CatchUpApply, DbPutAll
<1>2. /\ users' = [users EXCEPT ![n] = new]
      /\ Race(n, R) /\ Unpurge(n, changed)
      /\ kept' = [kept EXCEPT ![n] = @ \cup K]
      /\ missed' = [missed EXCEPT ![n] = @ \ right]
      /\ setBack' = [setBack EXCEPT ![n] = (@ \ right) \cup B]
  BY DEF CatchUpApply, DbPutAll
<1>3. /\ TypeOK
      /\ users \in [Nodes -> [Usernames -> UserRecord \cup {None}]]
      /\ snap \in [Usernames -> UserRecord \cup {None}]
  BY DEF DirectoryInv, TypeOK
<1>4. new \in [Usernames -> UserRecord \cup {None}]
  BY <1>3
<1>5. /\ users' \in [Nodes -> [Usernames -> UserRecord \cup {None}]]
      /\ \A m \in Nodes, w \in Usernames :
             users'[m][w] = IF m = n /\ snap[w] # None THEN snap[w] ELSE users[m][w]
  BY <1>2, <1>3, <1>4
<1>6. /\ changed \subseteq Usernames /\ R \subseteq Usernames /\ K \subseteq Usernames /\ B \subseteq Usernames
      /\ \A w \in Usernames : users'[n][w] # users[n][w] => w \in changed
      /\ \A w \in changed :
             /\ users'[n][w] = snap[w] /\ snap[w] \in UserRecord
             /\ Underway(n, w) => w \in R
             /\ verifiers[n][w] \in {None, snap[w].pw} \/ w \in K
             /\ w \in fresh[n] \/ w \in missed[n] \/ w \in B \/ Awaited(n, w)
      /\ \A w \in right : w \in fresh[n] /\ snap[w] # None
  BY <1>3, <1>5
<1> HIDE DEF new, changed, right, R, K, B
<1>7. /\ \A m \in Nodes : raced[m] \subseteq raced'[m]
      /\ \A w \in R : w \in raced'[n]
      /\ raced' \in [Nodes -> SUBSET Usernames]
  BY <1>2, <1>3, <1>6, RaceGrows
<1>8. /\ \A m \in Nodes : unpurged[m] \subseteq unpurged'[m]
      /\ \A w \in changed : w \in unpurged'[n] \/ ~ Cached(n, w)
      /\ unpurged' \in [Nodes -> SUBSET Usernames]
  BY <1>2, <1>3, <1>6, UnpurgeGrows
<1>9. /\ \A m \in Nodes : kept[m] \subseteq kept'[m]
      /\ \A w \in K : w \in kept'[n]
      /\ kept' \in [Nodes -> SUBSET Usernames]
  BY <1>2, <1>3, <1>6 DEF TypeOK
<1>10. /\ missed' \in [Nodes -> SUBSET Usernames] /\ setBack' \in [Nodes -> SUBSET Usernames]
       /\ \A m \in Nodes : m # n => missed'[m] = missed[m] /\ setBack'[m] = setBack[m]
       /\ missed'[n] = missed[n] \ right /\ setBack'[n] = (setBack[n] \ right) \cup B
  BY <1>2, <1>3, <1>6 DEF TypeOK
<1>11. HistGrows /\ HistType'
  BY <1>7, <1>8, <1>9 DEF HistGrows, HistType
<1>12. \A m \in Nodes : /\ catchUp'[m] = IF m = n THEN Idle ELSE catchUp[m]
                        /\ fresh'[m] = IF m = n THEN {} ELSE fresh[m]
  BY <1>1, <1>3 DEF TypeOK
<1>13. TypeOK'
  <2>1. catchUp' \in [Nodes -> [pc : {"idle", "fetch", "apply"}, snap : [Usernames -> UserRecord \cup {None}]]]
    BY <1>1, <1>3, IdleType DEF TypeOK
  <2>2. fresh' \in [Nodes -> SUBSET Usernames]
    BY <1>1, <1>3 DEF TypeOK
  <2>3. QED  BY <1>1, <1>3, <1>5, <1>7, <1>8, <1>9, <1>10, <2>1, <2>2 DEF TypeOK
<1>14. Places'
  BY <1>1 DEF DirectoryInv, Places
<1>15. VerifierFits'
  <2> SUFFICES ASSUME NEW m \in Nodes, NEW w \in Usernames, w \notin raced'[m] \cup kept'[m], verifiers[m][w] # None
               PROVE  users'[m][w] # None /\ users'[m][w].pw = verifiers[m][w]
    BY <1>1 DEF VerifierFits
  <2>1. users[m][w] # None /\ users[m][w].pw = verifiers[m][w]
    BY <1>11 DEF DirectoryInv, VerifierFits, HistGrows
  <2>2. CASE m = n /\ w \in changed
    <3>1. verifiers[n][w] = snap[w].pw
      BY <1>6, <1>9, <2>2
    <3>2. QED  BY <1>6, <2>2, <3>1, NoneApart
  <2>3. CASE m # n \/ w \notin changed
    <3>1. users'[m][w] = users[m][w]
      BY <1>5, <1>6, <2>3
    <3>2. QED  BY <2>1, <3>1
  <2>4. QED  BY <2>2, <2>3
<1>16. AuthFits'
  <2> SUFFICES ASSUME NEW m \in Nodes, NEW w \in Usernames, w \notin raced'[m] \cup unpurged'[m] \cup kept'[m],
                      NEW o \in Passwords, authCache[m][AuthKey(w, o)] > 0
               PROVE  \/ users'[m][w] # None /\ users'[m][w].pw = o
                      \/ \E s \in Requests : AuthDue(req[s], m, w)
    BY <1>1 DEF AuthFits
  <2>1. ~ (m = n /\ w \in changed)
    BY <1>8, NotCached
  <2>2. users'[m][w] = users[m][w]
    BY <1>5, <1>6, <2>1
  <2>3. QED  BY <1>11, <2>2 DEF DirectoryInv, AuthFits, HistGrows
<1>17. RecordFits'
  <2> SUFFICES ASSUME NEW m \in Nodes, NEW w \in Usernames, w \notin raced'[m] \cup unpurged'[m],
                      userCache[m][w] # None
               PROVE  \/ userCache[m][w].rec = users'[m][w]
                      \/ \E s \in Requests : PurgeDue(req[s], m, w)
    BY <1>1 DEF RecordFits
  <2>1. ~ (m = n /\ w \in changed)
    BY <1>8, NotCached
  <2>2. users'[m][w] = users[m][w]
    BY <1>5, <1>6, <2>1
  <2>3. QED  BY <1>11, <2>2 DEF DirectoryInv, RecordFits, HistGrows
<1>18. HeldFits'
  <2> SUFFICES ASSUME NEW s \in Requests, req[s].pc \in Holding \cup {"verifier"},
                      req[s].user \notin raced'[req[s].node]
               PROVE  users'[req[s].node][req[s].user] = req[s].rec
    BY <1>1 DEF HeldFits
  <2>1. req[s].node \in Nodes /\ req[s].user \in Usernames
    BY DEF DirectoryInv, Places, WellPlaced, NoRequest, Holding
  <2>2. users[req[s].node][req[s].user] = req[s].rec
    BY <1>7, <2>1 DEF DirectoryInv, HeldFits
  <2>3. req[s].node = n => Underway(n, req[s].user)
    BY DEF Underway, Holding
  <2>4. users'[req[s].node][req[s].user] = users[req[s].node][req[s].user]
    BY <1>5, <1>6, <1>7, <2>1, <2>3
  <2>5. QED  BY <2>2, <2>4
<1>19. VerifiedFits'
  <2> SUFFICES ASSUME NEW s \in Requests,
                      Vouched(req[s].pc, req[s].answer, req[s].user,
                              raced'[req[s].node], unpurged'[req[s].node], kept'[req[s].node])
               PROVE  req[s].rec.pw = req[s].pw
    BY <1>1 DEF VerifiedFits
  <2>1. req[s].node \in Nodes
    BY DEF DirectoryInv, Places, WellPlaced, NoRequest, Holding, Vouched
  <2>2. Vouched(req[s].pc, req[s].answer, req[s].user, raced[req[s].node], unpurged[req[s].node], kept[req[s].node])
    BY <1>11, <2>1, VouchedBefore
  <2>3. QED  BY <2>2 DEF DirectoryInv, VerifiedFits
<1>20. Agreement'
  <2> SUFFICES ASSUME NEW w \in Usernames, w \notin conflict PROVE \E v : Agreed(w, v)'
    BY <1>1 DEF Agreement
  <2>1. PICK v : Agreed(w, v)
    BY DEF DirectoryInv, Agreement
  <2>2. w \in fresh[n] => snap[w] = v
    BY <1>1, <2>1 DEF Agreed
  <2>3. ASSUME NEW m \in Nodes
        PROVE  w \in missed'[m] \cup setBack'[m] \/ users'[m][w] = v \/ \E s \in Requests : Awaits(req[s], m, w)
    <3>1. w \in missed[m] \cup setBack[m] \/ users[m][w] = v \/ \E s \in Requests : Awaits(req[s], m, w)
      BY <2>1 DEF Agreed
    <3>2. CASE m # n
      BY <1>5, <1>10, <3>1, <3>2
    <3>3. CASE m = n /\ w \in fresh[n] /\ snap[w] # None
      BY <1>5, <2>2, <3>3
    <3>4. CASE m = n /\ w \notin changed /\ ~ (w \in fresh[n] /\ snap[w] # None)
      BY <1>6, <1>10, <3>1, <3>4
    <3>5. CASE m = n /\ w \in changed /\ w \notin fresh[n]
      <4>1. Awaited(n, w) => \E s \in Requests : Awaits(req[s], n, w)
        BY DEF Awaited, Awaits
      <4>2. QED  BY <1>6, <1>10, <3>5, <4>1
    <3>6. w \in changed => snap[w] # None
      BY <1>6, NoneApart
    <3>7. QED  BY <3>2, <3>3, <3>4, <3>5, <3>6
  <2>4. \A m \in Nodes : catchUp'[m].pc = "apply" /\ w \in fresh'[m] => catchUp'[m].snap[w] = v
    BY <1>12, <2>1 DEF Agreed
  <2>5. Agreed(w, v)'
    BY <1>1, <2>1, <2>3, <2>4 DEF Agreed
  <2>6. QED  BY <2>5
<1>21. QED  BY <1>13, <1>14, <1>15, <1>16, <1>17, <1>18, <1>19, <1>20 DEF DirectoryInv

\* A node gives up its copy.
LEMMA CatchUpFailInv ==
    ASSUME DirectoryInv, NEW n \in Nodes, CatchUpFail(n)
    PROVE  DirectoryInv'
<1>1. /\ UNCHANGED <<up, users, verifiers, userCache, authCache, req,
                     raced, unpurged, kept, conflict, missed, fresh, setBack, closed, late>>
      /\ catchUp' = [catchUp EXCEPT ![n] = Idle]
  BY DEF CatchUpFail, histVars, cacheHist, tableHist
<1>2. budget' \in [faults : Nat, crashes : Nat, logins : Nat]
  BY FaultBudget DEF CatchUpFail
<1>3. \A m \in Nodes : catchUp'[m] = IF m = n THEN Idle ELSE catchUp[m]
  BY <1>1 DEF DirectoryInv, TypeOK
<1>4. TypeOK'
  BY <1>1, <1>2, IdleType DEF DirectoryInv, TypeOK
<1>5. Places' /\ VerifierFits' /\ AuthFits' /\ RecordFits' /\ HeldFits' /\ VerifiedFits'
  BY <1>1, RequestsSame
<1>6. \A s \in Requests : SameWay(s)
  BY <1>1 DEF SameWay, Same
<1>7. Agreement'
  BY <1>1, <1>3, <1>6, IdleType, AgreementQuiet DEF DirectoryInv
<1>8. QED  BY <1>4, <1>5, <1>7 DEF DirectoryInv

\* A node starts again.
LEMMA RestartInv ==
    ASSUME DirectoryInv, NEW n \in Nodes, Restart(n)
    PROVE  DirectoryInv'
<1>1. /\ UNCHANGED <<users, verifiers, userCache, authCache, req, budget,
                     raced, unpurged, kept, conflict, missed, fresh, setBack, closed, late>>
      /\ up' = up \cup {n}
  BY DEF Restart, histVars, cacheHist, tableHist
<1>2. PICK pc \in {"idle", "fetch"} : catchUp' = [catchUp EXCEPT ![n].pc = pc]
  BY DEF Restart
<1>3. \A m \in Nodes : catchUp'[m] = IF m = n THEN [catchUp[m] EXCEPT !.pc = pc] ELSE catchUp[m]
  BY <1>2 DEF DirectoryInv, TypeOK
<1>4. catchUp' \in [Nodes -> [pc : {"idle", "fetch", "apply"}, snap : [Usernames -> UserRecord \cup {None}]]]
  <2>1. catchUp[n] \in [pc : {"idle", "fetch", "apply"},
                        snap : [Usernames -> UserRecord \cup {None}]]
    BY DEF DirectoryInv, TypeOK
  <2>2. [catchUp[n] EXCEPT !.pc = pc] \in [pc : {"idle", "fetch", "apply"},
                                           snap : [Usernames -> UserRecord \cup {None}]]
    BY <2>1
  <2>3. QED  BY <1>2, <2>2 DEF DirectoryInv, TypeOK
<1>5. catchUp'[n].pc # "apply"
  BY <1>3 DEF DirectoryInv, TypeOK
<1>6. TypeOK'
  BY <1>1, <1>4 DEF DirectoryInv, TypeOK
<1>7. Places' /\ VerifierFits' /\ AuthFits' /\ RecordFits' /\ HeldFits' /\ VerifiedFits'
  BY <1>1, RequestsSame
<1>8. \A s \in Requests : SameWay(s)
  BY <1>1 DEF SameWay, Same
<1>9. Agreement'
  BY <1>1, <1>3, <1>5, <1>8, AgreementQuiet DEF DirectoryInv
<1>10. QED  BY <1>6, <1>7, <1>9 DEF DirectoryInv

-----------------------------------------------------------------------------
(* Time and faults. *)

\* Entries of the caches expire.
LEMMA TickInv ==
    ASSUME DirectoryInv, Tick
    PROVE  DirectoryInv'
<1>1. UNCHANGED <<up, users, verifiers, req, catchUp, budget,
                  raced, unpurged, kept, conflict, missed, fresh, setBack, closed, late>>
  BY DEF Tick, histVars, cacheHist, tableHist
<1>2. /\ userCache' = [n \in Nodes |-> [u \in Usernames |->
             IF userCache[n][u] = None \/ userCache[n][u].left = 1 THEN None
             ELSE [userCache[n][u] EXCEPT !.left = @ - 1]]]
      /\ authCache' = [n \in Nodes |-> [k \in Usernames \X Passwords |->
             IF authCache[n][k] = 0 THEN 0 ELSE authCache[n][k] - 1]]
  BY DEF Tick
<1>3. /\ userCache \in [Nodes -> [Usernames -> Entry]]
      /\ authCache \in [Nodes -> [Usernames \X Passwords -> 0 .. Ttl]]
  BY DEF DirectoryInv, TypeOK
<1>4. ASSUME NEW n \in Nodes, NEW u \in Usernames
      PROVE  /\ userCache'[n][u] \in Entry
             /\ userCache'[n][u] # None => userCache[n][u] # None /\ userCache'[n][u].rec = userCache[n][u].rec
  <2>1. userCache[n][u] \in Entry
    BY <1>3
  <2>2. CASE userCache[n][u] = None \/ userCache[n][u].left = 1
    BY <1>2, <2>2 DEF Entry
  <2>3. CASE ~ (userCache[n][u] = None \/ userCache[n][u].left = 1)
    <3>1. userCache'[n][u] = [userCache[n][u] EXCEPT !.left = @ - 1]
      BY <1>2, <2>3
    <3>2. userCache[n][u] \in [rec : UserRecord, left : 1 .. Ttl]
      BY <2>1, <2>3 DEF Entry
    <3>3. userCache[n][u].left \in 1 .. Ttl /\ userCache[n][u].left - 1 \in 1 .. Ttl
      BY <2>3, <3>2, DirectoryAssumption
    <3>4. QED  BY <2>3, <3>1, <3>2, <3>3 DEF Entry
  <2>4. QED  BY <2>2, <2>3
<1>5. ASSUME NEW n \in Nodes, NEW k \in Usernames \X Passwords
      PROVE  authCache'[n][k] \in 0 .. Ttl /\ (authCache'[n][k] > 0 => authCache[n][k] > 0)
  <2>1. authCache[n][k] \in 0 .. Ttl
    BY <1>3
  <2>2. authCache'[n][k] = IF authCache[n][k] = 0 THEN 0 ELSE authCache[n][k] - 1
    BY <1>2
  <2>3. QED  BY <2>1, <2>2, DirectoryAssumption
<1>6. userCache' \in [Nodes -> [Usernames -> Entry]]
  BY <1>2, <1>4
<1>7. authCache' \in [Nodes -> [Usernames \X Passwords -> 0 .. Ttl]]
  BY <1>2, <1>5
<1>8. TypeOK' /\ HistGrows
  BY <1>1, <1>6, <1>7, SameHist DEF DirectoryInv, TypeOK
<1>9. Places' /\ VerifierFits' /\ HeldFits' /\ VerifiedFits'
  BY <1>1 DEF DirectoryInv, Places, VerifierFits, HeldFits, VerifiedFits
<1>10. AuthFits'
  <2>1. \A n \in Nodes, u \in Usernames, p \in Passwords :
            authCache'[n][AuthKey(u, p)] > 0 => authCache[n][AuthKey(u, p)] > 0
    BY <1>5 DEF AuthKey
  <2>2. QED  BY <1>1, <1>8, <2>1, AuthQuiet DEF DirectoryInv
<1>11. RecordFits'
  BY <1>1, <1>4, <1>8, RecordQuiet DEF DirectoryInv
<1>12. \A s \in Requests : SameWay(s)
  BY <1>1 DEF SameWay, Same
<1>13. Agreement'
  BY <1>1, <1>12, AgreementQuiet DEF DirectoryInv
<1>14. QED  BY <1>8, <1>9, <1>10, <1>11, <1>13 DEF DirectoryInv

\* A transaction fails.
LEMMA DbErrorInv ==
    ASSUME DirectoryInv, NEW r \in Requests, DbError(r)
    PROVE  DirectoryInv'
<1> DEFINE q == req[r]
<1>1. /\ UNCHANGED <<up, users, verifiers, userCache, authCache, catchUp,
                     raced, unpurged, kept, conflict, missed, fresh, setBack, closed, late>>
      /\ req' = [req EXCEPT ![r] = OnDbError(q)]
      /\ q.pc \in {"insert", "delete", "verifier", "read", "fast", "keep"}
  BY DEF DbError, histVars, cacheHist, tableHist
<1>2. budget' \in [faults : Nat, crashes : Nat, logins : Nat] /\ HistGrows /\ HistType'
  BY <1>1, FaultBudget DEF DbError, DirectoryInv, TypeOK, HistGrows, HistType
<1>3. /\ q \in Request /\ WellPlaced(q) /\ q.node \in Nodes /\ q.user \in Usernames /\ q.answer = "none"
      /\ q.pc \in {"insert", "verifier"} => q.kind = "create"
      /\ q.pc = "delete" => q.kind = "delete"
      /\ q.pc \in {"read", "fast", "keep"} => q.kind = "connect"
      /\ q.pc \in {"fast", "keep"} => q.rec \in UserRecord
  BY <1>1, PlaceOf DEF Holding
<1>4. TypeOK /\ Places
  BY DEF DirectoryInv
<1>5. CASE q.pc \in {"insert", "delete", "read", "keep"}
  <2>1. PICK answer \in {"error", "deny", "allow"} :
            /\ OnDbError(q) = [q EXCEPT !.pc = "done", !.answer = answer]
            /\ answer = "allow" => q.pc = "keep"
    <3>1. CASE q.pc \in {"insert", "delete"}
      BY <3>1 DEF OnDbError
    <3>2. CASE q.pc = "read"
      BY <3>2 DEF OnDbError
    <3>3. CASE q.pc = "keep"
      BY <3>3 DEF OnDbError
    <3>4. QED  BY <1>5, <3>1, <3>2, <3>3
  <2>2. StepHome(r, "done", answer, q.rec)
    <3>1. Finish(r, answer) /\ answer \in Answers
      BY <1>1, <1>4, <2>1 DEF Finish, Answers, TypeOK
    <3>2. QED  BY <1>4, <3>1, FinishEffect
  <2>3. answer = "allow" => q.rec.pw = q.pw
    BY <2>1 DEF DirectoryInv, VerifiedFits, Vouched
  <2>4. TypeOK'
    BY <1>1, <1>2, <2>2, MoveType
  <2>5. QED  BY <1>1, <1>2, <1>3, <1>5, <2>1, <2>2, <2>3, <2>4, HomeInv DEF Holding, Vouched
<1>6. CASE q.pc = "fast"
  <2>1. OnDbError(q) = [q EXCEPT !.pc = "hashWait"]
    BY <1>6 DEF OnDbError
  <2>2. StepHome(r, "hashWait", "none", q.rec)
    <3>1. Go(r, "hashWait") /\ "hashWait" \in PCs
      BY <1>1, <2>1 DEF Go, PCs
    <3>2. QED  BY <1>3, <1>4, <3>1, GoEffect
  <2>3. q.user \notin raced[q.node] => users[q.node][q.user] = q.rec
    BY <1>6 DEF DirectoryInv, HeldFits, Holding
  <2>4. TypeOK'
    BY <1>1, <1>2, <2>2, MoveType
  <2>5. QED  BY <1>1, <1>2, <1>3, <1>6, <2>2, <2>3, <2>4, HomeInv DEF Holding, Vouched
<1>7. CASE q.pc = "verifier"
  <2>1. OnDbError(q) = Fanned(q)
    BY <1>7 DEF OnDbError
  <2>2. StepFanned(r) /\ WellPlaced(req'[r])
    BY <1>1, <1>3, <1>4, <1>7, <2>1, FannedEffect
  <2>3. TypeOK'
    BY <1>1, <1>2, <2>2 DEF DirectoryInv, TypeOK, StepFanned, Step
  <2>4. Places' /\ HeldFits' /\ VerifiedFits'
    BY <1>1, <1>2, <2>2, FannedRest
  <2>5. Agreement'
    BY <1>1, <1>7, <2>2, FannedAgreement DEF Committed
  <2>6. VerifierFits'
    BY <1>1, <1>2, VerifierQuiet DEF DirectoryInv
  <2>7. ASSUME NEW s \in Requests, NEW m \in Nodes, NEW v \in Usernames
        PROVE  /\ AuthDue(req[s], m, v) => AuthDue(req'[s], m, v)
               /\ PurgeDue(req[s], m, v) => PurgeDue(req'[s], m, v)
    <3>1. CASE s = r
      <4>1. q.repl[m] = "none"
        BY <1>3, <1>7 DEF WellPlaced
      <4>2. QED  BY <1>7, <3>1, <4>1 DEF AuthDue, PurgeDue
    <3>2. CASE s # r
      BY <2>2, <3>2 DEF StepFanned, Step
    <3>3. QED  BY <3>1, <3>2
  <2>8. AuthFits'
    BY <1>1, <1>2, <2>7, AuthQuiet DEF DirectoryInv
  <2>9. RecordFits'
    BY <1>1, <1>2, <2>7, RecordQuiet DEF DirectoryInv
  <2>10. QED  BY <2>3, <2>4, <2>5, <2>6, <2>8, <2>9 DEF DirectoryInv
<1>8. QED  BY <1>1, <1>5, <1>6, <1>7

\* A handler is dropped.
LEMMA AbandonInv ==
    ASSUME DirectoryInv, NEW r \in Requests, NEW unsent \in SUBSET Nodes, Abandon(r, unsent)
    PROVE  DirectoryInv'
<1> DEFINE q == req[r]
           o == [q EXCEPT !.pc = "done", !.answer = "dropped",
                          !.repl = [p \in Nodes |-> IF p \in unsent THEN "lost" ELSE q.repl[p]]]
           miss == IF Committed(q) THEN Peers(q.node) ELSE unsent
<1>1. /\ UNCHANGED <<up, users, verifiers, userCache, authCache, catchUp,
                     raced, kept, conflict, fresh, setBack, closed, late>>
      /\ q.pc \in {"permit", "insert", "verifier", "delete", "purgeAuth", "fanout"}
      /\ \A p \in unsent : q.repl[p] = "sent"
      /\ Unpurge(q.node, {u \in {q.user} : q.pc = "purgeAuth"})
      /\ missed' = [n \in Nodes |-> IF n \in miss THEN missed[n] \cup {q.user} ELSE missed[n]]
  BY DEF Abandon
<1>2. req' = [req EXCEPT ![r] = o]
  BY DEF Abandon, DirectoryInv, TypeOK
<1>3. /\ q \in Request /\ WellPlaced(q) /\ q.node \in Nodes /\ q.user \in Usernames /\ q.kind \in {"create", "delete"}
      /\ TypeOK
  BY <1>1, PlaceOf DEF DirectoryInv
<1>4. /\ o.kind = q.kind /\ o.node = q.node /\ o.user = q.user /\ o.pw = q.pw /\ o.rec = q.rec
      /\ o.pc = "done" /\ o.answer = "dropped"
      /\ \A p \in Nodes : o.repl[p] = IF p \in unsent THEN "lost" ELSE q.repl[p]
  BY <1>3 DEF Request
<1>5. o \in Request
  BY <1>3 DEF Request, PCs, Answers, Stages
<1> HIDE DEF o
<1>6. /\ req' \in [Requests -> Request] /\ req'[r] = o
      /\ \A s \in Requests : s # r => req'[s] = req[s]
  BY <1>2, <1>3, <1>5, Replaced
<1>7. Step(r, "done", "dropped", q.rec)
  BY <1>4, <1>6 DEF Step, Same
<1>8. HistGrows /\ HistType' /\ (q.pc = "purgeAuth" => q.user \in unpurged'[q.node] \/ ~ Cached(q.node, q.user))
  <2>1. {u \in {q.user} : q.pc = "purgeAuth"} \subseteq Usernames
    BY <1>3
  <2>2. QED  BY <1>1, <1>3, <2>1, UnpurgeGrows
<1>9. /\ missed' \in [Nodes -> SUBSET Usernames]
      /\ \A n \in Nodes : missed[n] \subseteq missed'[n] /\ (n \in miss => q.user \in missed'[n])
  BY <1>1, <1>3 DEF TypeOK
<1>10. budget' \in [faults : Nat, crashes : Nat, logins : Nat]
  BY FaultBudget DEF Abandon
<1>11. TypeOK'
  BY <1>1, <1>6, <1>8, <1>9, <1>10 DEF DirectoryInv, TypeOK, HistType
<1>12. Places'
  <2>1. WellPlaced(o)
    BY <1>3, <1>4 DEF WellPlaced, Holding
  <2>2. QED  BY <1>6, <2>1 DEF DirectoryInv, Places
<1>13. VerifierFits'
  BY <1>1, <1>8, VerifierQuiet DEF DirectoryInv
<1>14. ASSUME NEW s \in Requests, NEW m \in Nodes, NEW v \in Usernames, v \notin unpurged'[m]
       PROVE  /\ AuthDue(req[s], m, v) => \/ AuthDue(req'[s], m, v)
                                          \/ \A x \in Passwords : ~ authCache'[m][AuthKey(v, x)] > 0
              /\ PurgeDue(req[s], m, v) => PurgeDue(req'[s], m, v) \/ userCache'[m][v] = None
  <2>1. CASE s = r
    <3>1. CASE q.pc = "purgeAuth" /\ q.node = m /\ q.user = v
      BY <1>1, <1>8, <1>14, <3>1, NotCached
    <3>2. CASE ~ (q.pc = "purgeAuth" /\ q.node = m /\ q.user = v)
      BY <1>1, <1>4, <1>6, <2>1, <3>2 DEF AuthDue, PurgeDue
    <3>3. QED  BY <3>1, <3>2
  <2>2. CASE s # r
    BY <1>6, <2>2
  <2>3. QED  BY <2>1, <2>2
<1>15. AuthFits'
  BY <1>1, <1>8, <1>14, AuthQuiet DEF DirectoryInv
<1>16. RecordFits'
  BY <1>1, <1>8, <1>14, RecordQuiet DEF DirectoryInv
<1>17. HeldFits' /\ VerifiedFits'
  <2>1. HeldFits /\ VerifiedFits /\ Places
    BY DEF DirectoryInv
  <2>2. QED  BY <1>1, <1>7, <1>8, <2>1, HeldStep DEF Holding, Vouched
<1>18. Agreement'
  <2> SUFFICES ASSUME NEW w \in Usernames, w \notin conflict PROVE \E v : Agreed(w, v)'
    BY <1>1 DEF Agreement
  <2>1. PICK v : Agreed(w, v)
    BY DEF DirectoryInv, Agreement
  <2>2. ASSUME NEW s \in Requests, req'[s].user = w, OnWay(req'[s])
        PROVE  OnWay(req[s]) /\ Target(req'[s]) = Target(req[s]) /\ req[s].user = w
    <3>1. CASE s = r
      BY <1>4, <1>6, <2>2, <3>1 DEF OnWay, Target, Committed
    <3>2. CASE s # r
      BY <1>6, <2>2, <3>2
    <3>3. QED  BY <3>1, <3>2
  <2>3. ASSUME NEW s \in Requests, NEW n \in Nodes, Awaits(req[s], n, w)
        PROVE  Awaits(req'[s], n, w) \/ w \in missed'[n]
    <3>1. CASE s = r /\ Committed(q)
      <4>1. q.repl[n] = "none"
        BY <1>3, <3>1 DEF WellPlaced, Committed
      <4>2. q.user = w /\ n # q.node
        BY <2>3, <3>1, <4>1 DEF Awaits
      <4>3. n \in miss
        BY <3>1, <4>2 DEF Peers
      <4>4. QED  BY <1>9, <4>2, <4>3
    <3>2. CASE s = r /\ ~ Committed(q)
      <4>1. q.repl[n] = "sent" /\ q.user = w
        BY <2>3, <3>2 DEF Awaits
      <4>2. CASE n \in unsent
        BY <1>9, <3>2, <4>1, <4>2
      <4>3. CASE n \notin unsent
        BY <1>4, <1>6, <3>2, <4>1, <4>3 DEF Awaits
      <4>4. QED  BY <4>2, <4>3
    <3>3. CASE s # r
      BY <1>6, <2>3, <3>3
    <3>4. QED  BY <3>1, <3>2, <3>3
  <2>4. \A n \in Nodes : SnapKept(n, w)
    BY <1>1 DEF SnapKept
  <2>5. \A n \in Nodes : /\ users'[n][w] = users[n][w]
                         /\ w \in missed[n] \cup setBack[n] => w \in missed'[n] \cup setBack'[n]
    BY <1>1, <1>9
  <2>6. Agreed(w, v)'
    BY <2>1, <2>2, <2>3, <2>4, <2>5, AgreedKept
  <2>7. QED  BY <2>6
<1>19. QED  BY <1>11, <1>12, <1>13, <1>15, <1>16, <1>17, <1>18 DEF DirectoryInv

\* what becomes of the POST to a node that stops
Stopped(stage) ==
    CASE stage = "sent" -> "lost"
      [] stage \in {"applied", "purged"} -> "done"
      [] OTHER -> stage

\* what becomes of a request when n stops
Cut(q, n) ==
    IF q.node = n /\ q.pc # "done" THEN [q EXCEPT !.repl[n] = Stopped(q.repl[n]), !.pc = "done", !.answer = "dropped"]
    ELSE [q EXCEPT !.repl[n] = Stopped(q.repl[n])]

\* What is left of it.
LEMMA CutEffect ==
    ASSUME NEW q \in Request, WellPlaced(q), NEW n \in Nodes
    PROVE  /\ Cut(q, n) \in Request /\ WellPlaced(Cut(q, n)) /\ Same(Cut(q, n), q) /\ Cut(q, n).rec = q.rec
           /\ \A m \in Nodes : Cut(q, n).repl[m] = IF m = n THEN Stopped(q.repl[m]) ELSE q.repl[m]
           /\ q.node = n => Cut(q, n).pc = "done"
           /\ q.node # n => Cut(q, n).pc = q.pc
           /\ Cut(q, n).pc \in {q.pc, "done"}
           /\ Cut(q, n).answer \in {q.answer, "dropped"}
           /\ Cut(q, n).repl[n] \notin {"sent", "applied", "purged"}
<1> DEFINE o == Cut(q, n)
<1>1. Stopped(q.repl[n]) \in Stages /\ Stopped(q.repl[n]) \notin {"sent", "applied", "purged"}
  BY DEF Request, Stages, Stopped
<1>2. q.repl[n] = "none" => Stopped(q.repl[n]) = "none"
  BY DEF Stopped
<1>3. /\ o \in Request
      /\ o.kind = q.kind /\ o.node = q.node /\ o.user = q.user /\ o.pw = q.pw /\ o.rec = q.rec
      /\ \A m \in Nodes : o.repl[m] = IF m = n THEN Stopped(q.repl[m]) ELSE q.repl[m]
      /\ IF q.node = n /\ q.pc # "done"
         THEN o.pc = "done" /\ o.answer = "dropped"
         ELSE o.pc = q.pc /\ o.answer = q.answer
  <2>1. CASE q.node = n /\ q.pc # "done"
    BY <1>1, <2>1 DEF Cut, Request, PCs, Answers
  <2>2. CASE ~ (q.node = n /\ q.pc # "done")
    BY <1>1, <2>2 DEF Cut, Request
  <2>3. QED  BY <2>1, <2>2
<1>4. q.kind = "none" => o = NoRequest
  <2> SUFFICES ASSUME q.kind = "none" PROVE o = NoRequest
    OBVIOUS
  <2>1. q = NoRequest /\ q.node = None /\ q.repl = [m \in Nodes |-> "none"]
    BY DEF WellPlaced, NoRequest
  <2>2. o = [q EXCEPT !.repl[n] = "none"]
    BY <1>2, <2>1, NoneApart DEF Cut
  <2>3. QED  BY <2>1, <2>2 DEF NoRequest
<1>5. \A m \in Nodes : q.repl[m] = "none" => o.repl[m] = "none"
  BY <1>2, <1>3
<1> HIDE DEF o
<1>6. WellPlaced(o)
  <2>1. o.kind # "none" => o.node \in Nodes /\ o.user \in Usernames /\ o.pc # "idle"
    BY <1>3 DEF WellPlaced
  <2>2. o.kind = "create" => /\ o.rec \in UserRecord /\ o.pw = o.rec.pw
                             /\ o.pc \in {"permit", "insert", "verifier", "fanout", "done"}
    BY <1>3 DEF WellPlaced
  <2>3. o.kind = "delete" => o.pc \in {"delete", "purgeAuth", "purgeUser", "fanout", "done"}
    BY <1>3 DEF WellPlaced
  <2>4. o.kind = "connect" => /\ o.pw \in Passwords
                              /\ o.pc \in {"lookup", "read", "done"} \cup Holding
                              /\ o.pc \in Holding => o.rec \in UserRecord
                              /\ \A m \in Nodes : o.repl[m] = "none"
    BY <1>3, <1>5 DEF WellPlaced, Holding
  <2>5. o.pc \notin {"fanout", "done"} => \A m \in Nodes : o.repl[m] = "none"
    BY <1>3, <1>5 DEF WellPlaced
  <2>6. (o.pc # "done" => o.answer = "none") /\ (o.answer = "allow" => o.kind = "connect")
    BY <1>3 DEF WellPlaced
  <2>7. QED  BY <1>3, <1>4, <2>1, <2>2, <2>3, <2>4, <2>5, <2>6 DEF WellPlaced
<1>7. QED  BY <1>1, <1>3, <1>6 DEF Same, o

\* A node stops.
LEMMA CrashInv ==
    ASSUME DirectoryInv, NEW n \in Nodes, Crash(n)
    PROVE  DirectoryInv'
<1>1. /\ UNCHANGED <<users, verifiers, raced, unpurged, kept, conflict, fresh, setBack, closed, late>>
      /\ up' = up \ {n}
      /\ userCache' = [userCache EXCEPT ![n] = [u \in Usernames |-> None]]
      /\ authCache' = [authCache EXCEPT ![n] = [k \in Usernames \X Passwords |-> 0]]
      /\ catchUp' = [catchUp EXCEPT ![n] = Idle]
  BY DEF Crash, cacheHist
<1>2. budget' \in [faults : Nat, crashes : Nat, logins : Nat]
  <2>1. budget \in [faults : Nat, crashes : Nat, logins : Nat]
    BY DEF DirectoryInv, TypeOK
  <2>2. budget.crashes > 0 /\ budget' = [budget EXCEPT !.crashes = @ - 1]
    BY DEF Crash
  <2>3. QED  BY <2>1, <2>2
<1>3. \A s \in Requests : req[s] \in Request /\ WellPlaced(req[s])
  BY DEF DirectoryInv, TypeOK, Places
<1>4. req' = [s \in Requests |-> Cut(req[s], n)]
  <2>1. ASSUME NEW s \in Requests
        PROVE  req'[s] = Cut(req[s], n)
    <3> DEFINE q == [req[s] EXCEPT !.repl[n] = Stopped(req[s].repl[n])]
    <3>1. req'[s] = IF q.node = n /\ q.pc # "done" THEN [q EXCEPT !.pc = "done", !.answer = "dropped"] ELSE q
      BY DEF Crash, Stopped
    <3>2. q.node = req[s].node /\ q.pc = req[s].pc
      BY <1>3 DEF Request
    <3>3. [q EXCEPT !.pc = "done", !.answer = "dropped"]
              = [req[s] EXCEPT !.repl[n] = Stopped(req[s].repl[n]), !.pc = "done", !.answer = "dropped"]
      BY <1>3 DEF Request
    <3>4. QED  BY <3>1, <3>2, <3>3 DEF Cut
  <2>2. DOMAIN req' = Requests /\ req' = [s \in Requests |-> req'[s]]
    BY DEF Crash
  <2>3. QED  BY <2>1, <2>2
<1>5. ASSUME NEW s \in Requests
      PROVE  /\ req'[s] \in Request /\ WellPlaced(req'[s]) /\ Same(req'[s], req[s]) /\ req'[s].rec = req[s].rec
             /\ \A m \in Nodes : m # n => req'[s].repl[m] = req[s].repl[m]
             /\ req[s].node = n => req'[s].pc = "done"
             /\ req[s].node # n => req'[s].pc = req[s].pc
             /\ req'[s].pc \in {req[s].pc, "done"}
             /\ req'[s].answer \in {req[s].answer, "dropped"}
             /\ req'[s].repl[n] \notin {"sent", "applied", "purged"}
  BY <1>3, <1>4, CutEffect
<1>6. req' \in [Requests -> Request]
  BY <1>4, <1>5
<1>7. Places'
  BY <1>5 DEF Places
<1>8. HistGrows
  BY <1>1 DEF HistGrows
<1>9. /\ userCache' \in [Nodes -> [Usernames -> Entry]]
      /\ \A m \in Nodes, u \in Usernames : userCache'[m][u] = IF m = n THEN None ELSE userCache[m][u]
  BY <1>1 DEF DirectoryInv, TypeOK, Entry
<1>10. /\ authCache' \in [Nodes -> [Usernames \X Passwords -> 0 .. Ttl]]
       /\ \A m \in Nodes, u \in Usernames, p \in Passwords :
              authCache'[m][AuthKey(u, p)] = IF m = n THEN 0 ELSE authCache[m][AuthKey(u, p)]
  <2>1. [k \in Usernames \X Passwords |-> 0] \in [Usernames \X Passwords -> 0 .. Ttl]
    BY DirectoryAssumption
  <2>2. QED  BY <1>1, <2>1 DEF DirectoryInv, TypeOK, AuthKey
<1>11. /\ \A m \in Nodes : catchUp'[m] = IF m = n THEN Idle ELSE catchUp[m]
       /\ catchUp' \in [Nodes -> [pc : {"idle", "fetch", "apply"}, snap : [Usernames -> UserRecord \cup {None}]]]
  BY <1>1, IdleType DEF DirectoryInv, TypeOK
<1>12. /\ missed' \in [Nodes -> SUBSET Usernames]
       /\ \A m \in Nodes : missed[m] \subseteq missed'[m]
       /\ \A s \in Requests : req[s].repl[n] = "sent" => req[s].user \in missed'[n]
       /\ \A s \in Requests, m \in Nodes : m # n /\ req[s].node = n /\ Committed(req[s]) => req[s].user \in missed'[m]
  <2> DEFINE A == {req[s].user : s \in {t \in Requests : req[t].repl[n] = "sent"}}
             B == {req[s].user : s \in {t \in Requests : req[t].node = n /\ Committed(req[t])}}
  <2>1. missed' = [m \in Nodes |-> IF m = n THEN missed[m] \cup A ELSE missed[m] \cup B]
    BY DEF Crash
  <2>2. A \subseteq Usernames
    BY PostPlace
  <2>3. B \subseteq Usernames
    BY PlaceOf DEF Committed
  <2>4. /\ \A s \in Requests : req[s].repl[n] = "sent" => req[s].user \in A
        /\ \A s \in Requests : req[s].node = n /\ Committed(req[s]) => req[s].user \in B
    OBVIOUS
  <2> HIDE DEF A, B
  <2>5. QED  BY <2>1, <2>2, <2>3, <2>4 DEF DirectoryInv, TypeOK
<1>13. TypeOK'
  BY <1>1, <1>2, <1>6, <1>9, <1>10, <1>11, <1>12 DEF DirectoryInv, TypeOK
<1>14. VerifierFits'
  BY <1>1, <1>8, VerifierQuiet DEF DirectoryInv
<1>15. AuthFits'
  <2>1. \A m \in Nodes, u \in Usernames, p \in Passwords :
            authCache'[m][AuthKey(u, p)] > 0 => authCache[m][AuthKey(u, p)] > 0
    BY <1>10
  <2>2. ASSUME NEW m \in Nodes, NEW u \in Usernames, NEW s \in Requests, AuthDue(req[s], m, u)
        PROVE  AuthDue(req'[s], m, u) \/ \A p \in Passwords : ~ authCache'[m][AuthKey(u, p)] > 0
    <3>1. CASE m = n
      BY <1>10, <3>1
    <3>2. CASE m # n
      BY <1>5, <2>2, <3>2 DEF AuthDue, Same
    <3>3. QED  BY <3>1, <3>2
  <2>3. QED  BY <1>1, <1>8, <2>1, <2>2, AuthQuiet DEF DirectoryInv
<1>16. RecordFits'
  <2>1. \A m \in Nodes, u \in Usernames :
            userCache'[m][u] # None => userCache[m][u] # None /\ userCache'[m][u].rec = userCache[m][u].rec
    BY <1>9
  <2>2. ASSUME NEW m \in Nodes, NEW u \in Usernames, NEW s \in Requests, PurgeDue(req[s], m, u)
        PROVE  PurgeDue(req'[s], m, u) \/ userCache'[m][u] = None
    <3>1. CASE m = n
      BY <1>9, <3>1
    <3>2. CASE m # n
      BY <1>5, <2>2, <3>2 DEF PurgeDue, Same
    <3>3. QED  BY <3>1, <3>2
  <2>3. QED  BY <1>1, <1>8, <2>1, <2>2, RecordQuiet DEF DirectoryInv
<1>17. HeldFits' /\ VerifiedFits'
  <2>1. ASSUME NEW s \in Requests PROVE Kept(s)
    BY <1>5 DEF Kept, Holding
  <2>2. QED  BY <1>1, <1>8, <2>1, HeldQuiet DEF DirectoryInv
<1>18. Agreement'
  <2> SUFFICES ASSUME NEW w \in Usernames, w \notin conflict PROVE \E v : Agreed(w, v)'
    BY <1>1 DEF Agreement
  <2>1. PICK v : Agreed(w, v)
    BY DEF DirectoryInv, Agreement
  <2>2. ASSUME NEW s \in Requests, req'[s].user = w, OnWay(req'[s])
        PROVE  OnWay(req[s]) /\ Target(req'[s]) = Target(req[s]) /\ req[s].user = w
    <3>1. Target(req'[s]) = Target(req[s]) /\ req[s].user = w
      BY <1>5, <2>2 DEF Same, Target
    <3>2. Committed(req'[s]) => Committed(req[s])
      BY <1>5 DEF Committed
    <3>3. \A m \in Nodes : req'[s].repl[m] = "sent" => req[s].repl[m] = "sent"
      BY <1>5
    <3>4. QED  BY <2>2, <3>1, <3>2, <3>3 DEF OnWay
  <2>3. ASSUME NEW s \in Requests, NEW m \in Nodes, Awaits(req[s], m, w)
        PROVE  Awaits(req'[s], m, w) \/ w \in missed'[m]
    <3>1. CASE req[s].repl[m] = "sent"
      BY <1>5, <1>12, <2>3, <3>1 DEF Awaits, Same
    <3>2. CASE Committed(req[s]) /\ m # req[s].node /\ req[s].node = n
      BY <1>12, <2>3, <3>2 DEF Awaits
    <3>3. CASE Committed(req[s]) /\ m # req[s].node /\ req[s].node # n
      <4>1. Committed(req'[s])
        BY <1>5, <3>3 DEF Committed
      <4>2. QED  BY <1>5, <2>3, <3>3, <4>1 DEF Awaits, Same
    <3>4. QED  BY <2>3, <3>1, <3>2, <3>3 DEF Awaits
  <2>4. \A m \in Nodes : SnapKept(m, w)
    BY <1>1, <1>11, IdleType DEF SnapKept
  <2>5. \A m \in Nodes : /\ users'[m][w] = users[m][w]
                         /\ w \in missed[m] \cup setBack[m] => w \in missed'[m] \cup setBack'[m]
    BY <1>1, <1>12
  <2>6. Agreed(w, v)'
    BY <2>1, <2>2, <2>3, <2>4, <2>5, AgreedKept
  <2>7. QED  BY <2>6
<1>19. QED  BY <1>7, <1>13, <1>14, <1>15, <1>16, <1>17, <1>18 DEF DirectoryInv

-----------------------------------------------------------------------------
(* The theorems. *)

\* Init establishes the invariant.
LEMMA InitDirectory == Init => DirectoryInv
<1> SUFFICES ASSUME Init PROVE DirectoryInv
  OBVIOUS
<1>1. TypeOK
  <2>1. \A n \in Nodes : [k \in Usernames \X Passwords |-> 0] \in [Usernames \X Passwords -> 0 .. Ttl]
    BY DirectoryAssumption
  <2>2. req \in [Requests -> Request]
    BY NoRequestOK DEF Init
  <2>3. budget \in [faults : Nat, crashes : Nat, logins : Nat]
    BY DirectoryAssumption DEF Init
  <2>4. catchUp \in [Nodes -> [pc : {"idle", "fetch", "apply"}, snap : [Usernames -> UserRecord \cup {None}]]]
    BY IdleType DEF Init
  <2>5. QED  BY <2>1, <2>2, <2>3, <2>4 DEF Init, TypeOK, Entry
<1>2. \A s \in Requests : req[s] = NoRequest
  BY DEF Init
<1>3. Places
  BY <1>2, NoRequestOK DEF Places
<1>4. VerifierFits /\ RecordFits
  BY DEF Init, VerifierFits, RecordFits
<1>5. AuthFits
  BY DEF Init, AuthFits, AuthKey
<1>6. HeldFits /\ VerifiedFits
  BY <1>2 DEF HeldFits, VerifiedFits, Vouched, NoRequest, Holding
<1>7. Agreement
  <2> SUFFICES ASSUME NEW u \in Usernames PROVE Agreed(u, None)
    BY DEF Agreement
  <2>1. \A s \in Requests : ~ OnWay(req[s])
    BY <1>2 DEF OnWay, Committed, NoRequest
  <2>2. \A n \in Nodes : users[n][u] = None /\ catchUp[n].pc # "apply"
    BY IdleType DEF Init
  <2>3. QED  BY <2>1, <2>2 DEF Agreed
<1>8. QED  BY <1>1, <1>3, <1>4, <1>5, <1>6, <1>7 DEF DirectoryInv

\* Every step keeps the invariant.
LEMMA NextDirectory == DirectoryInv /\ [Next]_vars => DirectoryInv'
<1> SUFFICES ASSUME DirectoryInv, [Next]_vars PROVE DirectoryInv'
  OBVIOUS
<1>1. ASSUME NEW r \in Requests, NEW n \in Nodes, NEW u \in Usernames,
             \/ \E rec \in UserRecord : BeginCreate(r, n, u, rec)
             \/ BeginDelete(r, n, u)
             \/ \E p \in Logins : BeginConnect(r, n, u, p)
      PROVE  DirectoryInv'
  BY <1>1, BeginCreateInv, BeginDeleteInv, BeginConnectInv
<1>2. ASSUME NEW r \in Requests, Create(r) \/ Delete(r) PROVE DirectoryInv'
  BY <1>2, CreatePermitInv, CreateInsertInv, CreateVerifierInv, DeleteCommitInv, DeletePurgeAuthInv, DeletePurgeUserInv
     DEF Create, Delete
<1>3. ASSUME NEW r \in Requests, Lookup(r) PROVE DirectoryInv'
  BY <1>3, LookupCachedInv, LookupReadInv, LookupRememberInv DEF Lookup
<1>4. ASSUME NEW r \in Requests, Verify(r) PROVE DirectoryInv'
  BY <1>4, ConnectCachedInv, ConnectFastInv, ConnectFastInsertInv, ConnectPermitInv, ConnectHashInv, ConnectKeepInv
     DEF Verify
<1>5. ASSUME NEW r \in Requests, Respond(r) \/ DbError(r) \/ \E unsent \in SUBSET Nodes : Abandon(r, unsent)
      PROVE  DirectoryInv'
  BY <1>5, RespondInv, DbErrorInv, AbandonInv
<1>6. ASSUME NEW r \in Requests, NEW p \in Nodes, Settle(r, p) \/ Replicate(r, p) \/ LoseReplicate(r, p)
      PROVE  DirectoryInv'
  BY <1>6, SettleInv, ReplicateCommitInv, ReplicatePurgeAuthInv, ReplicatePurgeUserInv, LoseReplicateInv DEF Replicate
<1>7. ASSUME NEW n \in Nodes, \/ \E p \in Nodes : CatchUpFetch(n, p)
                              \/ CatchUpApply(n) \/ CatchUpFail(n) \/ Crash(n) \/ Restart(n)
      PROVE  DirectoryInv'
  BY <1>7, CatchUpFetchInv, CatchUpApplyInv, CatchUpFailInv, CrashInv, RestartInv
<1>8. ASSUME Tick PROVE DirectoryInv'
  BY <1>8, TickInv
<1>9. ASSUME UNCHANGED vars PROVE DirectoryInv'
  <2>1. UNCHANGED <<up, users, verifiers, userCache, authCache, req, catchUp, budget,
                    raced, unpurged, kept, conflict, missed, fresh, setBack, closed, late>>
    BY <1>9 DEF vars
  <2>2. TypeOK'
    BY <2>1 DEF DirectoryInv, TypeOK
  <2>3. Places' /\ VerifierFits' /\ AuthFits' /\ RecordFits' /\ HeldFits' /\ VerifiedFits'
    BY <2>1, RequestsSame
  <2>4. \A s \in Requests : SameWay(s)
    BY <2>1 DEF SameWay, Same
  <2>5. Agreement'
    BY <2>1, <2>4, AgreementQuiet DEF DirectoryInv
  <2>6. QED  BY <2>2, <2>3, <2>5 DEF DirectoryInv
<1>10. QED  BY <1>1, <1>2, <1>3, <1>4, <1>5, <1>6, <1>7, <1>8, <1>9 DEF Next

\* The invariant that carries the theorems below: tables, caches, the records that logins
\* hold and the changes that are on their way fit together, whatever handlers, POSTs,
\* crashes and snapshots interleave.
THEOREM DirectoryInvariant == Spec => []DirectoryInv
<1>1. QED  BY InitDirectory, NextDirectory, PTL DEF Spec

\* Every variable stays in its type, and no cache entry outlives the time to live.
THEOREM DirectoryType == Spec => []TypeOK
<1>1. DirectoryInv => TypeOK
  BY DEF DirectoryInv
<1>2. QED  BY <1>1, DirectoryInvariant, PTL

\* What a node keeps beside a row agrees with it, but for the three causes that
\* CredentialsCoherent names, each with its own reach, and for caches whose purge is
\* outstanding.  Where the purges of delete_user and replicate are made and no login
\* overlaps, they are enough: a cache that no cause has touched is never stale.
THEOREM CredentialsAgree == Spec => []CredentialsCoherent
<1>1. DirectoryInv => CredentialsCoherent
  <2> SUFFICES ASSUME DirectoryInv, NEW n \in Nodes, NEW u \in Usernames, u \notin raced[n]
               PROVE  /\ userCache[n][u] # None /\ u \notin unpurged[n] /\ ~ PurgePending(n, u) =>
                             userCache[n][u].rec = users[n][u]
                      /\ \A p \in Passwords :
                            \/ /\ authCache[n][AuthKey(u, p)] > 0
                               /\ u \notin unpurged[n] \cup kept[n] /\ ~ PurgePending(n, u)
                            \/ verifiers[n][u] = p /\ u \notin kept[n]
                            => users[n][u] # None /\ users[n][u].pw = p
    BY DEF CredentialsCoherent
  <2>1. ~ PurgePending(n, u) => \A s \in Requests : ~ AuthDue(req[s], n, u) /\ ~ PurgeDue(req[s], n, u)
    BY DEF PurgePending, AuthDue, PurgeDue
  <2>2. userCache[n][u] # None /\ u \notin unpurged[n] /\ ~ PurgePending(n, u) => userCache[n][u].rec = users[n][u]
    BY <2>1 DEF DirectoryInv, RecordFits
  <2>3. ASSUME NEW p \in Passwords, authCache[n][AuthKey(u, p)] > 0,
               u \notin unpurged[n] \cup kept[n], ~ PurgePending(n, u)
        PROVE  users[n][u] # None /\ users[n][u].pw = p
    BY <2>1, <2>3 DEF DirectoryInv, AuthFits
  <2>4. ASSUME NEW p \in Passwords, verifiers[n][u] = p, u \notin kept[n]
        PROVE  users[n][u] # None /\ users[n][u].pw = p
    BY <2>4, NoneApart DEF DirectoryInv, VerifierFits
  <2>5. QED  BY <2>2, <2>3, <2>4
<1>2. QED  BY <1>1, DirectoryInvariant, PTL

\* A login is accepted only with the password of the record it was looked up under, whichever
\* of auth cache, verifier and hash decided it, but for the users that CredentialsCoherent
\* exempts on that node: a change overlapped a login, a purge was not made, or an upsert
\* left an older verifier behind.
THEOREM AcceptedCorrect == Spec => []AcceptedMatches
<1>1. DirectoryInv => AcceptedMatches
  BY DEF DirectoryInv, VerifiedFits, Vouched, AcceptedMatches
<1>2. QED  BY <1>1, DirectoryInvariant, PTL

\* Two nodes agree on a user once every POST about it was applied, unless changes of it
\* overlapped, one of the two missed the last one, or catch_up undid it there with a snapshot
\* that did not have it.  Every other interleaving of late POSTs, crashes and snapshots, of any
\* number of nodes, ends in agreement.
THEOREM NodesAgree == Spec => []SettledAgree
<1>1. DirectoryInv => SettledAgree
  <2> SUFFICES ASSUME DirectoryInv, NEW u \in Usernames, u \notin conflict, ~ Pending(u),
                      NEW m \in Nodes, NEW n \in Nodes,
                      u \notin missed[m] \cup missed[n] \cup setBack[m] \cup setBack[n]
               PROVE  users[m][u] = users[n][u]
    BY DEF SettledAgree
  <2>1. PICK v : Agreed(u, v)
    BY DEF DirectoryInv, Agreement
  <2>2. \A s \in Requests, k \in Nodes : ~ Awaits(req[s], k, u)
    BY DEF Pending, Awaits
  <2>3. users[m][u] = v /\ users[n][u] = v
    BY <2>1, <2>2 DEF Agreed
  <2>4. QED  BY <2>3
<1>2. QED  BY <1>1, DirectoryInvariant, PTL
=============================================================================
