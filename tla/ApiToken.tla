------------------------------ MODULE ApiToken ------------------------------
(***************************************************************************)
(* The bearer token of the management API on one node: TokenPair,          *)
(* require_token and refresh_token (src/src/api.rs), the vault client      *)
(* (src/src/vault.rs) and the startup of main.rs that reads the first      *)
(* token.                                                                  *)
(*                                                                         *)
(* The secret in the vault is replaced from outside, by a new value each   *)
(* time.  A node learns of it when a request presents a token it does not  *)
(* know: the request asks the vault, unless one did so less than five      *)
(* seconds ago, and the two latest tokens are accepted.                    *)
(*                                                                         *)
(* A step is one use of the lock of the TokenPair, or one message to or    *)
(* from the vault.                                                         *)
(***************************************************************************)
EXTENDS Naturals

CONSTANTS
    Requests,       \* bound: requests that may be in progress at once
    Fallback,       \* the token of the configuration, or the random one
    None,
    Period,         \* ticks between two refreshes: five seconds
    Timeout,        \* ticks until the HTTP client gives up: five seconds
    MaxRotations,   \* bound on the secrets after the first
    MaxFails        \* bound on failed calls of the vault

ASSUME TokenAssumption ==
    /\ {MaxRotations, MaxFails} \subseteq Nat
    /\ Period \in Nat \ {0} /\ Timeout \in 1 .. Period
    /\ None # Fallback /\ {None, Fallback} \cap Nat = {}

VARIABLES
    vault,      \* the secret ciqada/api-token; None if VAULT_ADDR is not set
    current,    \* TokenPair
    previous,
    cool,       \* ticks until refreshed_at is five seconds ago
    req,        \* the requests in require_token
    fails

vars == <<vault, current, previous, cool, req, fails>>

\* secrets are numbered in the order the vault gets them
Secrets == 0 .. MaxRotations

Tokens == Secrets \cup {Fallback}

\* steady records, for a property only, that token has been the secret since the request came
Request == [pc : {"none", "check", "refresh", "fetch", "got", "recheck", "rejected"},
            token : Tokens \cup {None}, value : Secrets \cup {None}, age : 0 .. Timeout,
            outcome : {"none", "limited", "failed", "applied"}, steady : BOOLEAN]

NoRequest == [pc |-> "none", token |-> None, value |-> None, age |-> 0, outcome |-> "none",
              steady |-> FALSE]

-----------------------------------------------------------------------------
(* require_token.  Definitions named Bug... are seeded faults, put in place of the *)
(* definition after them to show that a property notices.                          *)

\* the answer, once the token was compared: an accepted request leaves for its handler
Accept(r) == req' = [req EXCEPT ![r] = NoRequest]

Reject(r) == req' = [req EXCEPT ![r].pc = "rejected", ![r].token = None]

\* refresh_token returns
Back(r, outcome) ==
    req' = [req EXCEPT ![r].pc = "recheck", ![r].outcome = outcome, ![r].value = None, ![r].age = 0]

TokenMatches(t) == t \in {current, previous}

\* a request comes, with a token or without
Present(r, t) ==
    /\ req[r].pc \in {"none", "rejected"}
    /\ t \in Secrets => vault # None /\ t <= vault
    /\ req' = [req EXCEPT ![r] = [NoRequest EXCEPT !.pc = IF t = None THEN "rejected" ELSE "check",
                                                   !.token = t, !.steady = t # None /\ t = vault]]
    /\ UNCHANGED <<vault, current, previous, cool, fails>>

Check(r) ==
    /\ req[r].pc = "check"
    /\ IF TokenMatches(req[r].token) THEN Accept(r) ELSE req' = [req EXCEPT ![r].pc = "refresh"]
    /\ UNCHANGED <<vault, current, previous, cool, fails>>

BugLimitRestarts(r) ==
    /\ req[r].pc = "refresh"
    /\ \/ /\ vault = None \/ cool > 0
          /\ Back(r, "limited")
       \/ /\ vault # None /\ cool = 0
          /\ req' = [req EXCEPT ![r].pc = "fetch"]
    /\ cool' = Period
    /\ UNCHANGED <<vault, current, previous, fails>>

\* refresh_token up to its call of the vault: refreshed_at is set before the answer is known
Refresh(r) ==
    /\ req[r].pc = "refresh"
    /\ \/ /\ vault = None \/ cool > 0
          /\ Back(r, "limited")
          /\ UNCHANGED cool
       \/ /\ vault # None /\ cool = 0
          /\ req' = [req EXCEPT ![r].pc = "fetch"]
          /\ cool' = Period
    /\ UNCHANGED <<vault, current, previous, fails>>

\* the vault reads the secret; the answer is on its way
VaultAnswers(r) ==
    /\ req[r].pc = "fetch"
    /\ req' = [req EXCEPT ![r].pc = "got", ![r].value = vault]
    /\ UNCHANGED <<vault, current, previous, cool, fails>>

BugDropsCurrent(r) ==
    /\ req[r].pc = "got"
    /\ current' = req[r].value
    /\ Back(r, "applied")
    /\ UNCHANGED <<vault, previous, cool, fails>>

\* the rest of refresh_token
Apply(r) ==
    /\ req[r].pc = "got"
    /\ IF current # req[r].value THEN current' = req[r].value /\ previous' = current
                                 ELSE UNCHANGED <<current, previous>>
    /\ Back(r, "applied")
    /\ UNCHANGED <<vault, cool, fails>>

\* an error, no such secret, or the timeout
FetchFails(r) ==
    /\ req[r].pc \in {"fetch", "got"}
    /\ fails < MaxFails
    /\ fails' = fails + 1
    /\ Back(r, "failed")
    /\ UNCHANGED <<vault, current, previous, cool>>

BugRejectsAfterRefresh(r) ==
    /\ req[r].pc = "recheck"
    /\ Reject(r)
    /\ UNCHANGED <<vault, current, previous, cool, fails>>

Recheck(r) ==
    /\ req[r].pc = "recheck"
    /\ IF TokenMatches(req[r].token) THEN Accept(r) ELSE Reject(r)
    /\ UNCHANGED <<vault, current, previous, cool, fails>>

-----------------------------------------------------------------------------
(* The environment. *)

Rotate ==
    /\ vault # None
    /\ vault < MaxRotations
    /\ vault' = vault + 1
    /\ req' = [r \in Requests |-> [req[r] EXCEPT !.steady = FALSE]]
    /\ UNCHANGED <<current, previous, cool, fails>>

\* the HTTP client ends every call within its timeout
Waiting == {r \in Requests : req[r].pc \in {"fetch", "got"}}

BugNoTimeout ==
    /\ cool > 0 \/ Waiting # {}
    /\ cool' = IF cool = 0 THEN 0 ELSE cool - 1
    /\ req' = [r \in Requests |-> IF r \in Waiting THEN [req[r] EXCEPT !.age = @ + 1] ELSE req[r]]
    /\ UNCHANGED <<vault, current, previous, fails>>

Tick ==
    /\ cool > 0 \/ Waiting # {}
    /\ \A r \in Waiting : req[r].age < Timeout
    /\ cool' = IF cool = 0 THEN 0 ELSE cool - 1
    /\ req' = [r \in Requests |-> IF r \in Waiting THEN [req[r] EXCEPT !.age = @ + 1] ELSE req[r]]
    /\ UNCHANGED <<vault, current, previous, fails>>

-----------------------------------------------------------------------------
(* The specification. *)

\* startup: the vault's secret, or the configured token if there is no vault or it failed
Init ==
    /\ vault \in {0, None}
    /\ current \in {Fallback} \cup ({vault} \cap Secrets)
    /\ previous = None
    /\ cool = 0
    /\ req = [r \in Requests |-> NoRequest]
    /\ fails = 0

Handle(r) == Check(r) \/ Refresh(r) \/ VaultAnswers(r) \/ Apply(r) \/ FetchFails(r) \/ Recheck(r)

Next ==
    \/ \E r \in Requests :
          \/ \E t \in Tokens \cup {None} : Present(r, t)
          \/ Handle(r)
    \/ Rotate
    \/ Tick

Spec == Init /\ [][Next]_vars

\* Handlers run, the vault answers or fails, the clock advances, and some client keeps
\* presenting the secret.
Fairness ==
    /\ \A r \in Requests : WF_vars(Handle(r))
    /\ \E r \in Requests : SF_vars(vault # None /\ Present(r, vault))
    /\ WF_vars(Tick)

FairSpec == Spec /\ Fairness

-----------------------------------------------------------------------------
(* Properties. *)

\* Every variable stays in its type; no call of the vault outlives the timeout.
TypeOK ==
    /\ vault \in Secrets \cup {None}
    /\ current \in Tokens
    /\ previous \in Tokens \cup {None}
    /\ cool \in 0 .. Period
    /\ req \in [Requests -> Request]
    /\ fails \in 0 .. MaxFails

\* A node that accepts the vault's secret goes on accepting it until it is replaced,
\* although an answer that left the vault earlier may be applied after a newer one:
\* the limit on refreshes and the timeout leave at most one such answer, and the pair
\* has room for it.
KnownKept ==
    [][vault' = vault /\ TokenMatches(vault) => vault \in {current', previous'}]_vars

\* A request with the vault's secret, not replaced since it came, is rejected only when
\* the vault was not asked because of the limit, or did not answer.
RejectionExplained ==
    \A r \in Requests :
        req[r].pc = "rejected" /\ req[r].steady => req[r].outcome \in {"limited", "failed"}

\* Once the secret is no longer replaced the node comes to accept it and stays so, as
\* long as some client presents it: a failed or limited refresh is made up for.
SecretAccepted == <>[](vault # None => TokenMatches(vault))
=============================================================================
