--------------------------- MODULE ApiTokenProofs ---------------------------
(***************************************************************************)
(* What TLAPS proves of ApiToken for every set of requests, every period   *)
(* and timeout and every number of secrets: the types, that a node which   *)
(* accepts the secret goes on accepting it, and what a rejection means.    *)
(*                                                                         *)
(* The argument.  A call of the vault starts only when the limit allows it *)
(* and ends within the timeout, so at most two overlap, and then the older *)
(* one is about to end (CallsOk).  Hence at most one answer can be older   *)
(* than the secret the node already knows (AnswersOk), and the pair of     *)
(* tokens has room for it.                                                 *)
(***************************************************************************)
EXTENDS ApiToken, TLAPS

\* A token is known to the node or on its way only after the vault had it.
BoundOk ==
    /\ current \in Secrets => vault # None /\ current <= vault
    /\ previous \in Secrets => vault # None /\ previous <= vault
    /\ \A r \in Requests : /\ req[r].value \in Secrets => vault # None /\ req[r].value <= vault
                           /\ req[r].token \in Secrets => vault # None /\ req[r].token <= vault

\* What the place of a request in require_token says of its fields.
PlaceOk ==
    \A r \in Requests :
        /\ r \notin Waiting => req[r].age = 0
        /\ r \in Waiting => vault # None
        /\ req[r].pc = "got" <=> req[r].value # None
        /\ req[r].pc \in {"check", "refresh", "fetch", "got"} => req[r].outcome = "none"
        /\ req[r].pc = "recheck" => req[r].outcome # "none"

\* The calls of the vault in progress: a lone one is as old as the limit says or at
\* the timeout; of two, one has just begun and the other is at the timeout.
CallsOk ==
    /\ \A r \in Waiting : req[r].age = Period \/ req[r].age + cool = Period
    /\ \A r, s \in Waiting :
          r # s => /\ cool = Period
                   /\ \/ req[r].age = 0 /\ req[s].age = Period
                      \/ req[s].age = 0 /\ req[r].age = Period

\* the answers that left the vault before the present secret came
Stale == {r \in Requests : req[r].pc = "got" /\ req[r].value # vault}

\* Once the node knows the secret, at most one older answer is outstanding, and none
\* once the secret is only the previous token.
AnswersOk ==
    /\ current = vault => \A r, s \in Stale : r = s
    /\ current # vault /\ previous = vault => Stale = {}

\* A request with the secret that has not been replaced: the answer it gets is the
\* secret, and once it is applied the node knows the secret.
SteadyOk ==
    \A r \in Requests : req[r].steady =>
        /\ vault # None
        /\ req[r].pc # "rejected" => req[r].token = vault
        /\ req[r].pc = "got" => req[r].value = vault
        /\ req[r].pc = "recheck" /\ req[r].outcome = "applied" => TokenMatches(vault)
        /\ req[r].pc = "rejected" => req[r].outcome \in {"limited", "failed"}

\* The inductive invariant.
TokenInv == TypeOK /\ BoundOk /\ PlaceOk /\ CallsOk /\ AnswersOk /\ SteadyOk

-----------------------------------------------------------------------------
\* Init establishes the invariant.
LEMMA InitInv == Init => TokenInv
BY TokenAssumption DEF Init, TokenInv, TypeOK, BoundOk, PlaceOk, CallsOk, AnswersOk, SteadyOk,
    Request, NoRequest, Tokens, Secrets, Waiting, Stale

\* Every step keeps TypeOK.
LEMMA TypeOKKept == ASSUME TokenInv, [Next]_vars PROVE TypeOK'
<1> USE TokenAssumption DEF TokenInv
<1>0. NoRequest \in Request  BY DEF NoRequest, Request
<1>1. ASSUME NEW r \in Requests, NEW t \in Tokens \cup {None}, Present(r, t) PROVE TypeOK'
  BY <1>1 DEF Present, TypeOK, Request, NoRequest, Tokens, Secrets, PlaceOk, Waiting
<1>2. ASSUME NEW r \in Requests, Check(r) PROVE TypeOK'
  <2>1. CASE TokenMatches(req[r].token)
    BY <1>2, <2>1, <1>0 DEF Check, Accept, TypeOK
  <2>2. CASE ~TokenMatches(req[r].token)
    BY <1>2, <2>2 DEF Check, TypeOK, Request
  <2>3. QED  BY <2>1, <2>2
<1>3. ASSUME NEW r \in Requests, Refresh(r) PROVE TypeOK'
  BY <1>3 DEF Refresh, Back, TypeOK, Request
<1>4. ASSUME NEW r \in Requests, VaultAnswers(r) PROVE TypeOK'
  BY <1>4 DEF VaultAnswers, TypeOK, Request, PlaceOk, Waiting
<1>5. ASSUME NEW r \in Requests, Apply(r) PROVE TypeOK'
  BY <1>5 DEF Apply, Back, TypeOK, Request, PlaceOk
<1>6. ASSUME NEW r \in Requests, FetchFails(r) PROVE TypeOK'
  BY <1>6 DEF FetchFails, Back, TypeOK, Request, PlaceOk
<1>7. ASSUME NEW r \in Requests, Recheck(r) PROVE TypeOK'
  <2>1. CASE TokenMatches(req[r].token)
    BY <1>7, <2>1, <1>0 DEF Recheck, Accept, TypeOK
  <2>2. CASE ~TokenMatches(req[r].token)
    BY <1>7, <2>2 DEF Recheck, Reject, TypeOK, Request
  <2>3. QED  BY <2>1, <2>2
<1>8. ASSUME Rotate PROVE TypeOK'
  <2>1. vault' \in Secrets
    BY <1>8 DEF Rotate, TypeOK, Secrets
  <2>2. req' \in [Requests -> Request]
    <3>1. ASSUME NEW r \in Requests PROVE [req[r] EXCEPT !.steady = FALSE] \in Request
      <4>1. req[r] \in Request
        BY DEF TypeOK
      <4>2. QED  BY <4>1 DEF Request
    <3>2. req' = [r \in Requests |-> [req[r] EXCEPT !.steady = FALSE]]
      BY <1>8 DEF Rotate
    <3>3. QED  BY <3>1, <3>2
  <2>3. QED  BY <1>8, <2>1, <2>2 DEF Rotate, TypeOK
<1>9. ASSUME Tick PROVE TypeOK'
  BY <1>9 DEF Tick, TypeOK, Request, Waiting
<1>10. ASSUME UNCHANGED vars PROVE TypeOK'
  BY <1>10 DEF vars, TypeOK
<1>11. QED  BY <1>1, <1>2, <1>3, <1>4, <1>5, <1>6, <1>7, <1>8, <1>9, <1>10 DEF Next, Handle

\* Every step keeps BoundOk.
LEMMA BoundOkKept == ASSUME TokenInv, [Next]_vars PROVE BoundOk'
<1> USE TokenAssumption DEF TokenInv
<1>1. ASSUME NEW r \in Requests, NEW t \in Tokens \cup {None}, Present(r, t) PROVE BoundOk'
  BY <1>1 DEF Present, BoundOk, NoRequest, Secrets
<1>2. ASSUME NEW r \in Requests, Check(r) PROVE BoundOk'
  BY <1>2 DEF Check, Accept, BoundOk, TypeOK, Request, NoRequest, Secrets
<1>3. ASSUME NEW r \in Requests, Refresh(r) PROVE BoundOk'
  BY <1>3 DEF Refresh, Back, BoundOk, TypeOK, Request
<1>4. ASSUME NEW r \in Requests, VaultAnswers(r) PROVE BoundOk'
  BY <1>4 DEF VaultAnswers, BoundOk, TypeOK, Secrets
<1>5. ASSUME NEW r \in Requests, Apply(r) PROVE BoundOk'
  BY <1>5 DEF Apply, Back, BoundOk, TypeOK, Secrets
<1>6. ASSUME NEW r \in Requests, FetchFails(r) PROVE BoundOk'
  BY <1>6 DEF FetchFails, Back, BoundOk, TypeOK, Secrets
<1>7. ASSUME NEW r \in Requests, Recheck(r) PROVE BoundOk'
  BY <1>7 DEF Recheck, Accept, Reject, BoundOk, TypeOK, Request, NoRequest, Secrets
<1>8. ASSUME Rotate PROVE BoundOk'
  <2>1. vault \in Nat /\ vault' = vault + 1 /\ vault' # None
    BY <1>8 DEF Rotate, TypeOK, Secrets
  <2>2. /\ current' = current /\ previous' = previous
        /\ \A r \in Requests : req'[r].value = req[r].value /\ req'[r].token = req[r].token
    BY <1>8 DEF Rotate, TypeOK, Request
  <2>3. QED  BY <2>1, <2>2 DEF BoundOk, Secrets
<1>9. ASSUME Tick PROVE BoundOk'
  BY <1>9 DEF Tick, BoundOk
<1>10. ASSUME UNCHANGED vars PROVE BoundOk'
  BY <1>10 DEF vars, BoundOk
<1>11. QED  BY <1>1, <1>2, <1>3, <1>4, <1>5, <1>6, <1>7, <1>8, <1>9, <1>10 DEF Next, Handle

\* Every step keeps PlaceOk.
LEMMA PlaceOkKept == ASSUME TokenInv, [Next]_vars PROVE PlaceOk'
<1> USE TokenAssumption DEF TokenInv
<1>1. ASSUME NEW r \in Requests, NEW t \in Tokens \cup {None}, Present(r, t) PROVE PlaceOk'
  BY <1>1 DEF Present, PlaceOk, NoRequest, Waiting
<1>2. ASSUME NEW r \in Requests, Check(r) PROVE PlaceOk'
  BY <1>2 DEF Check, Accept, PlaceOk, TypeOK, Request, NoRequest, Waiting
<1>3. ASSUME NEW r \in Requests, Refresh(r) PROVE PlaceOk'
  BY <1>3 DEF Refresh, Back, PlaceOk, TypeOK, Request, Waiting
<1>4. ASSUME NEW r \in Requests, VaultAnswers(r) PROVE PlaceOk'
  BY <1>4 DEF VaultAnswers, PlaceOk, TypeOK, Waiting
<1>5. ASSUME NEW r \in Requests, Apply(r) PROVE PlaceOk'
  BY <1>5 DEF Apply, Back, PlaceOk, TypeOK, Waiting
<1>6. ASSUME NEW r \in Requests, FetchFails(r) PROVE PlaceOk'
  BY <1>6 DEF FetchFails, Back, PlaceOk, TypeOK, Waiting
<1>7. ASSUME NEW r \in Requests, Recheck(r) PROVE PlaceOk'
  BY <1>7 DEF Recheck, Accept, Reject, PlaceOk, TypeOK, Request, NoRequest, Waiting
<1>8. ASSUME Rotate PROVE PlaceOk'
  <2>1. vault' # None
    BY <1>8 DEF Rotate, TypeOK, Secrets
  <2>2. \A r \in Requests : /\ req'[r].pc = req[r].pc /\ req'[r].age = req[r].age
                            /\ req'[r].value = req[r].value /\ req'[r].outcome = req[r].outcome
    BY <1>8 DEF Rotate, TypeOK, Request
  <2>3. QED  BY <2>1, <2>2 DEF PlaceOk, Waiting
<1>9. ASSUME Tick PROVE PlaceOk'
  BY <1>9 DEF Tick, PlaceOk, Waiting
<1>10. ASSUME UNCHANGED vars PROVE PlaceOk'
  BY <1>10 DEF vars, PlaceOk, Waiting
<1>11. QED  BY <1>1, <1>2, <1>3, <1>4, <1>5, <1>6, <1>7, <1>8, <1>9, <1>10 DEF Next, Handle

\* Every step keeps CallsOk.
LEMMA CallsOkKept == ASSUME TokenInv, [Next]_vars PROVE CallsOk'
<1> USE TokenAssumption DEF TokenInv
<1>1. ASSUME NEW r \in Requests, NEW t \in Tokens \cup {None}, Present(r, t) PROVE CallsOk'
  BY <1>1 DEF Present, CallsOk, Waiting
<1>2. ASSUME NEW r \in Requests, Check(r) PROVE CallsOk'
  BY <1>2 DEF Check, Accept, CallsOk, TypeOK, Request, NoRequest, Waiting
<1>3. ASSUME NEW r \in Requests, Refresh(r) PROVE CallsOk'
  BY <1>3 DEF Refresh, Back, CallsOk, PlaceOk, TypeOK, Request, Waiting
<1>4. ASSUME NEW r \in Requests, VaultAnswers(r) PROVE CallsOk'
  BY <1>4 DEF VaultAnswers, PlaceOk, TypeOK, Request, Waiting
<1>5. ASSUME NEW r \in Requests, Apply(r) PROVE CallsOk'
  BY <1>5 DEF Apply, Back, PlaceOk, TypeOK, Request
<1>6. ASSUME NEW r \in Requests, FetchFails(r) PROVE CallsOk'
  BY <1>6 DEF FetchFails, Back, PlaceOk, TypeOK, Request
<1>7. ASSUME NEW r \in Requests, Recheck(r) PROVE CallsOk'
  BY <1>7 DEF Recheck, Accept, Reject, CallsOk, PlaceOk, TypeOK, Request, NoRequest, Waiting
<1>8. ASSUME Rotate PROVE CallsOk'
  BY <1>8 DEF Rotate, CallsOk, TypeOK, Request, Waiting
<1>9. ASSUME Tick PROVE CallsOk'
  BY <1>9 DEF Tick, CallsOk, TypeOK, Request, Waiting
<1>10. ASSUME UNCHANGED vars PROVE CallsOk'
  BY <1>10 DEF vars, CallsOk, Waiting
<1>11. QED  BY <1>1, <1>2, <1>3, <1>4, <1>5, <1>6, <1>7, <1>8, <1>9, <1>10 DEF Next, Handle

\* Every step keeps AnswersOk.
LEMMA AnswersOkKept == ASSUME TokenInv, [Next]_vars PROVE AnswersOk'
<1> USE TokenAssumption DEF TokenInv
<1>1. ASSUME NEW r \in Requests, NEW t \in Tokens \cup {None}, Present(r, t) PROVE AnswersOk'
  BY <1>1 DEF Present, AnswersOk, Stale
<1>2. ASSUME NEW r \in Requests, Check(r) PROVE AnswersOk'
  BY <1>2 DEF Check, Accept, AnswersOk, TypeOK, Request, NoRequest, Stale
<1>3. ASSUME NEW r \in Requests, Refresh(r) PROVE AnswersOk'
  BY <1>3 DEF Refresh, Back, AnswersOk, TypeOK, Request, Stale
<1>4. ASSUME NEW r \in Requests, VaultAnswers(r) PROVE AnswersOk'
  BY <1>4 DEF VaultAnswers, PlaceOk, TypeOK, Request, Waiting
<1>5. ASSUME NEW r \in Requests, Apply(r) PROVE AnswersOk'
  BY <1>5 DEF Apply, Back, PlaceOk, TypeOK, Request
<1>6. ASSUME NEW r \in Requests, FetchFails(r) PROVE AnswersOk'
  BY <1>6 DEF FetchFails, Back, PlaceOk, TypeOK, Request
<1>7. ASSUME NEW r \in Requests, Recheck(r) PROVE AnswersOk'
  BY <1>7 DEF Recheck, Accept, Reject, AnswersOk, TypeOK, Request, NoRequest, Secrets, Stale
<1>8. ASSUME Rotate PROVE AnswersOk'
  BY <1>8 DEF Rotate, AnswersOk, BoundOk, TypeOK, Secrets
<1>9. ASSUME Tick PROVE AnswersOk'
  BY <1>9 DEF Tick, AnswersOk, Stale
<1>10. ASSUME UNCHANGED vars PROVE AnswersOk'
  BY <1>10 DEF vars, AnswersOk, Stale
<1>11. QED  BY <1>1, <1>2, <1>3, <1>4, <1>5, <1>6, <1>7, <1>8, <1>9, <1>10 DEF Next, Handle

\* Every step keeps SteadyOk.
LEMMA SteadyOkKept == ASSUME TokenInv, [Next]_vars PROVE SteadyOk'
<1> USE TokenAssumption DEF TokenInv
<1>1. ASSUME NEW r \in Requests, NEW t \in Tokens \cup {None}, Present(r, t) PROVE SteadyOk'
  BY <1>1 DEF Present, SteadyOk, TypeOK, NoRequest, TokenMatches
<1>2. ASSUME NEW r \in Requests, Check(r) PROVE SteadyOk'
  BY <1>2 DEF Check, Accept, SteadyOk, TypeOK, Request, NoRequest, TokenMatches
<1>3. ASSUME NEW r \in Requests, Refresh(r) PROVE SteadyOk'
  BY <1>3 DEF Refresh, Back, SteadyOk, TypeOK, Request, TokenMatches
<1>4. ASSUME NEW r \in Requests, VaultAnswers(r) PROVE SteadyOk'
  BY <1>4 DEF VaultAnswers, SteadyOk, TypeOK, TokenMatches
<1>5. ASSUME NEW r \in Requests, Apply(r) PROVE SteadyOk'
  BY <1>5 DEF Apply, Back, PlaceOk, TypeOK, Request
<1>6. ASSUME NEW r \in Requests, FetchFails(r) PROVE SteadyOk'
  BY <1>6 DEF FetchFails, Back, PlaceOk, TypeOK, Request
<1>7. ASSUME NEW r \in Requests, Recheck(r) PROVE SteadyOk'
  BY <1>7 DEF Recheck, Accept, Reject, SteadyOk, TypeOK, Request, NoRequest, TokenMatches
<1>8. ASSUME Rotate PROVE SteadyOk'
  BY <1>8 DEF Rotate, SteadyOk, TypeOK, Request
<1>9. ASSUME Tick PROVE SteadyOk'
  BY <1>9 DEF Tick, SteadyOk, TokenMatches
<1>10. ASSUME UNCHANGED vars PROVE SteadyOk'
  BY <1>10 DEF vars, SteadyOk, TokenMatches
<1>11. QED  BY <1>1, <1>2, <1>3, <1>4, <1>5, <1>6, <1>7, <1>8, <1>9, <1>10 DEF Next, Handle

-----------------------------------------------------------------------------
\* Of three calls of the vault two are the same: no more than two overlap.
LEMMA TwoCalls ==
    ASSUME TokenInv, NEW r \in Waiting, NEW s \in Waiting, NEW t \in Waiting
    PROVE  r = s \/ r = t \/ s = t
BY TokenAssumption DEF TokenInv, CallsOk

\* The invariant holds in every state.
THEOREM TokenInvariant == Spec => []TokenInv
<1>1. TokenInv /\ [Next]_vars => TokenInv'
  BY TypeOKKept, BoundOkKept, PlaceOkKept, CallsOkKept, AnswersOkKept, SteadyOkKept DEF TokenInv
<1>2. QED  BY InitInv, <1>1, PTL DEF Spec

\* Every variable of the token component stays in its type, and no call of the vault
\* outlives the timeout of the HTTP client.
THEOREM TypeCorrect == Spec => []TypeOK
<1>1. TokenInv => TypeOK  BY DEF TokenInv
<1>2. QED  BY TokenInvariant, <1>1, PTL

\* refresh_token and require_token: a request with the vault's secret, not replaced
\* since the request came, is rejected only after a limited or a failed refresh.
THEOREM RejectionsExplained == Spec => []RejectionExplained
<1>1. TokenInv => RejectionExplained  BY DEF TokenInv, SteadyOk, RejectionExplained
<1>2. QED  BY TokenInvariant, <1>1, PTL

\* One step of the node never makes it forget the secret the vault still holds.
LEMMA StepKeepsKnown ==
    ASSUME TokenInv, [Next]_vars, vault' = vault, TokenMatches(vault)
    PROVE  vault \in {current', previous'}
<1>1. ASSUME NEW r \in Requests, Apply(r) PROVE vault \in {current', previous'}
  <2>1. CASE current = vault
    BY <1>1, <2>1 DEF Apply
  <2>2. CASE current # vault /\ previous = vault
    <3>1. req[r].value = vault
      BY <1>1, <2>2 DEF Apply, TokenInv, AnswersOk, Stale
    <3>2. QED  BY <1>1, <2>2, <3>1 DEF Apply
  <2>3. QED  BY <2>1, <2>2 DEF TokenMatches
<1>2. CASE UNCHANGED <<current, previous>>
  BY <1>2 DEF TokenMatches
<1>3. QED
  BY <1>1, <1>2 DEF Next, Handle, Present, Check, Refresh, VaultAnswers, FetchFails, Recheck,
      Rotate, Tick, vars

\* refresh_token: a node that accepts the vault's secret goes on accepting it until the
\* secret is replaced, whatever order the answers of the vault are applied in.
THEOREM SecretKept == Spec => KnownKept
<1>1. TokenInv /\ [Next]_vars
        => [vault' = vault /\ TokenMatches(vault) => vault \in {current', previous'}]_vars
  BY StepKeepsKnown
<1>2. QED  BY TokenInvariant, <1>1, PTL DEF Spec, KnownKept
=============================================================================
