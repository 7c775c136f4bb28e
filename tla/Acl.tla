-------------------------------- MODULE Acl --------------------------------
(***************************************************************************)
(* What an account may read and write: the rules the login hook gives a    *)
(* session (build_auth_info, src/src/api.rs), the filters the broker       *)
(* subscribes it to by itself (src/src/fanout.rs), and the checks of the   *)
(* rules (src/src/api.rs, vendored rmqtt acl.rs and hook.rs).              *)
(***************************************************************************)
EXTENDS TopicFilter

CONSTANTS
    Userids,           \* plain words: valid_segment allows no $, + or #
    PublishTopics,     \* [acl] of the configuration, split into levels
    FanoutPrefixes,
    AdminPrefixes

ASSUME AclAssumption ==
    /\ Userids \subseteq Words \ Metadata
    /\ PublishTopics \subseteq Topic
    /\ FanoutPrefixes \cup AdminPrefixes \subseteq Topic

Account == [userid : Userids, superuser : BOOLEAN, admin : BOOLEAN]

Prefixes(rec) == FanoutPrefixes \cup (IF rec.admin THEN AdminPrefixes ELSE {})

\* mutants: the rule without the userid level, and with it in the wrong place
BugWideRule(rec) == {<<"+", "#">>} \cup {p \o <<"#">> : p \in Prefixes(rec)}
BugShiftedRule(rec) == {<<rec.userid, "#">>} \cup {p \o <<"#">> : p \in Prefixes(rec)}

\* build_auth_info: a filter that does not parse becomes no rule
SubscribeRules(rec) ==
    {f \in {<<"+", rec.userid, "#">>} \cup {p \o <<"#">> : p \in Prefixes(rec)} :
        ValidFilter(f)}

AuthInfo(rec) ==
    [superuser |-> rec.superuser,
     reads  |-> IF rec.superuser THEN {} ELSE SubscribeRules(rec),
     writes |-> IF rec.superuser THEN {} ELSE PublishTopics]

\* AUTH_DISABLED lets everyone in as a superuser, without rules
OpenAuth == [superuser |-> TRUE, reads |-> {}, writes |-> {}]

\* what may be in force in a session
Auths == {AuthInfo(rec) : rec \in Account} \cup {OpenAuth}

\* a superuser is asked for nothing; enabled is acl.enabled
MaySubscribe(auth, enabled, f) ==
    \/ auth.superuser
    \/ ~ enabled
    \/ \E rule \in auth.reads : AclMatches(rule, f)

MayPublish(auth, enabled, t) ==
    \/ auth.superuser
    \/ ~ enabled
    \/ t \in auth.writes

\* UseridAutoSubscription::subscribes for a record it read
AutoFilters(rec) ==
    {<<"+", rec.userid, "#">>} \cup {p \o <<"#">> : p \in FanoutPrefixes}
        \cup (IF rec.admin THEN {p \o <<"#">> : p \in AdminPrefixes} ELSE {})

-----------------------------------------------------------------------------
(* What the rules are for. *)

StartsWith(t, p) == Len(p) <= Len(t) /\ \A i \in 1 .. Len(p) : t[i] = p[i]

\* topics of an account: its userid is the second level, or a prefix is open to it
Belongs(t, rec) ==
    \/ rec.superuser
    \/ Len(t) >= 2 /\ t[2] = rec.userid
    \/ \E p \in Prefixes(rec) : StartsWith(t, p)
=============================================================================
