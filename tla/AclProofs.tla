----------------------------- MODULE AclProofs -----------------------------
(***************************************************************************)
(* Facts about the matchers and the rules, for topics and filters of any   *)
(* length: the stored and the live path select the same messages, a rule   *)
(* lets no foreign topic through, and the filters the broker subscribes an *)
(* account to are granted by the rules of the same account.                *)
(***************************************************************************)
EXTENDS Acl, TLAPS

\* A filter without wildcards: topic_matches would select what get's exact index
\* selects, so StoreMatches is topic_matches throughout.
LEMMA StoreIsLoop ==
    ASSUME NEW t \in Topic, NEW f, ValidFilter(f)
    PROVE  StoreMatches(t, f) <=> TopicMatches(t, f)
<1>. t \in Seq(Words) /\ f \in Seq(Words \cup {"+", "#"}) /\ Len(t) \in Nat /\ Len(f) \in Nat
  BY DEF Topic, ValidFilter
<1>1. CASE HasWildcard(f)
  BY <1>1 DEF StoreMatches
<1>2. CASE ~ HasWildcard(f)
  <2>. \A i \in 1 .. Len(f) : f[i] # "+" /\ f[i] # "#"
    BY <1>2 DEF HasWildcard
  <2>1. ASSUME TopicMatches(t, f) PROVE t = f
    <3>1. PICK n \in 1 .. Len(f) + 1 :
            /\ \A i \in 1 .. n - 1 : Continues(t, f, i)
            /\ \/ n <= Len(f) /\ f[n] = "#"
               \/ n = Len(f) + 1 /\ n = Len(t) + 1
      BY <2>1 DEF TopicMatches
    <3>2. Len(t) = Len(f) /\ n = Len(f) + 1
      BY <3>1
    <3>3. \A i \in 1 .. Len(f) : t[i] = f[i]
      BY <3>1, <3>2 DEF Continues
    <3>. QED
      BY <3>2, <3>3
  <2>2. ASSUME t = f PROVE TopicMatches(t, f)
    <3>1. \A i \in 1 .. (Len(f) + 1) - 1 : Continues(t, f, i)
      BY <2>2 DEF Continues
    <3>. QED
      BY <2>2, <3>1 DEF TopicMatches
  <2>. QED
    BY <1>2, <2>1, <2>2 DEF StoreMatches
<1>. QED
  BY <1>1, <1>2

\* What topic_matches computes: the levels before a # or all of them agree.
LEMMA LoopMeaning ==
    ASSUME NEW t \in Topic, NEW f, ValidFilter(f)
    PROVE  TopicMatches(t, f) <=>
             LET body == IF f[Len(f)] = "#" THEN Len(f) - 1 ELSE Len(f)
             IN  /\ body <= Len(t)
                 /\ f[Len(f)] # "#" => body = Len(t)
                 /\ \A i \in 1 .. body : f[i] = "+" \/ f[i] = t[i]
<1>. t \in Seq(Words) /\ f \in Seq(Words \cup {"+", "#"})
     /\ Len(t) \in Nat \ {0} /\ Len(f) \in Nat \ {0}
  BY DEF Topic, ValidFilter
<1>. \A i \in 1 .. Len(f) : f[i] = "#" => i = Len(f)
  BY DEF ValidFilter
<1>. DEFINE body == IF f[Len(f)] = "#" THEN Len(f) - 1 ELSE Len(f)
<1>. body \in Nat /\ body <= Len(f)
  OBVIOUS
<1>. SUFFICES TopicMatches(t, f) <=> /\ body <= Len(t)
                                     /\ f[Len(f)] # "#" => body = Len(t)
                                     /\ \A i \in 1 .. body : f[i] = "+" \/ f[i] = t[i]
  OBVIOUS
<1>1. ASSUME TopicMatches(t, f)
      PROVE  /\ body <= Len(t)
             /\ f[Len(f)] # "#" => body = Len(t)
             /\ \A i \in 1 .. body : f[i] = "+" \/ f[i] = t[i]
  <2>1. PICK n \in 1 .. Len(f) + 1 :
          /\ \A i \in 1 .. n - 1 : Continues(t, f, i)
          /\ \/ n <= Len(f) /\ f[n] = "#"
             \/ n = Len(f) + 1 /\ n = Len(t) + 1
    BY <1>1 DEF TopicMatches
  <2>2. \A i \in 1 .. n - 1 : i <= Len(t) /\ f[i] # "#" /\ (f[i] = "+" \/ f[i] = t[i])
    BY <2>1 DEF Continues
  <2>3. CASE n <= Len(f) /\ f[n] = "#"
    <3>1. n = Len(f) /\ body = n - 1
      BY <2>3
    <3>2. body <= Len(t)
      <4>1. CASE n = 1
        BY <3>1, <4>1
      <4>2. CASE n # 1
        BY <2>2, <3>1, <4>2
      <4>. QED
        BY <4>1, <4>2
    <3>. QED
      BY <2>2, <2>3, <3>1, <3>2
  <2>4. CASE n = Len(f) + 1 /\ n = Len(t) + 1
    <3>1. f[Len(f)] # "#"
      BY <2>2, <2>4
    <3>. QED
      BY <2>2, <2>4, <3>1
  <2>. QED
    BY <2>1, <2>3, <2>4
<1>2. ASSUME body <= Len(t),
             f[Len(f)] # "#" => body = Len(t),
             \A i \in 1 .. body : f[i] = "+" \/ f[i] = t[i]
      PROVE  TopicMatches(t, f)
  <2>1. \A i \in 1 .. body : f[i] # "#"
    OBVIOUS
  <2>2. \A i \in 1 .. body : Continues(t, f, i)
    BY <1>2, <2>1 DEF Continues
  <2>3. CASE f[Len(f)] = "#"
    <3>1. \A i \in 1 .. Len(f) - 1 : Continues(t, f, i)
      BY <2>2, <2>3
    <3>. QED
      BY <2>3, <3>1 DEF TopicMatches
  <2>4. CASE f[Len(f)] # "#"
    <3>1. \A i \in 1 .. (Len(f) + 1) - 1 : Continues(t, f, i)
      BY <2>2, <2>4
    <3>2. Len(t) = Len(f)
      BY <1>2, <2>4
    <3>. QED
      BY <3>1, <3>2 DEF TopicMatches
  <2>. QED
    BY <2>3, <2>4
<1>. QED
  BY <1>1, <1>2

\* The router selects nothing the store does not select, and on topics that do not
\* start with $, or filters that do not start with a wildcard, both select the same:
\* a message that is missed live is found by the load, and the other way round.
THEOREM StoreAgreesWithRouter ==
    ASSUME NEW t \in Topic, NEW f, ValidFilter(f)
    PROVE  /\ RouteMatches(t, f) => StoreMatches(t, f)
           /\ t[1] \notin Metadata \/ f[1] \notin {"+", "#"} =>
                 (StoreMatches(t, f) <=> RouteMatches(t, f))
BY StoreIsLoop, LoopMeaning DEF RouteMatches

-----------------------------------------------------------------------------
(* Access rules. *)

\* Levels of a filter that are spelt out are levels of every topic it selects.
LEMMA FixedLevels ==
    ASSUME NEW t \in Topic, NEW f, ValidFilter(f), StoreMatches(t, f),
           NEW k \in 1 .. Len(f), f[k] \in Words
    PROVE  k <= Len(t) /\ t[k] = f[k]
<1>. t \in Seq(Words) /\ f \in Seq(Words \cup {"+", "#"})
     /\ Len(t) \in Nat \ {0} /\ Len(f) \in Nat \ {0}
  BY DEF Topic, ValidFilter
<1>. DEFINE body == IF f[Len(f)] = "#" THEN Len(f) - 1 ELSE Len(f)
<1>1. f[k] # "+" /\ f[k] # "#"
  BY WordsAssumption
<1>2. k <= body
  BY <1>1
<1>3. body <= Len(t) /\ \A i \in 1 .. body : f[i] = "+" \/ f[i] = t[i]
  BY StoreIsLoop, LoopMeaning
<1>. QED
  BY <1>1, <1>2, <1>3

\* The rule of a userid only admits filters with that userid on the second level.
LEMMA UseridRule ==
    ASSUME NEW u \in Words, NEW f, ValidFilter(f), AclMatches(<<"+", u, "#">>, f)
    PROVE  Len(f) >= 2 /\ f[2] = u
<1>. DEFINE rule == <<"+", u, "#">>
<1>. Len(f) \in Nat \ {0}
  BY DEF ValidFilter
<1>1. Len(rule) = 3 /\ rule[1] = "+" /\ rule[2] = u /\ rule[3] = "#"
  OBVIOUS
<1>2. u # "+" /\ u # "#"
  BY WordsAssumption
<1>3. PICK n \in 1 .. Len(f) + 1 :
        /\ \A i \in 1 .. n - 1 :
              i <= Len(rule) /\ rule[i] # "#" /\ LevelMatches(f[i], rule[i])
        /\ \/ n = Len(f) + 1 /\ RestMatches(rule, n)
           \/ /\ n <= Len(f) /\ n <= Len(rule)
              /\ \/ rule[n] = "#" /\ LevelMatches(f[n], "#")
                 \/ rule[n] = "+" /\ ~ LevelMatches(f[n], "+") /\ RestMatches(rule, n + 1)
  BY DEF AclMatches
<1>. HIDE DEF rule
<1>4. n <= 3
  BY <1>1, <1>3
<1>5. n # 1 /\ n # 2
  BY <1>1, <1>2, <1>3 DEF RestMatches
<1>6. n = 3
  BY <1>4, <1>5
<1>7. LevelMatches(f[2], rule[2])
  BY <1>3, <1>6
<1>. QED
  BY <1>1, <1>2, <1>3, <1>6, <1>7 DEF LevelMatches

\* The rule of a prefix only admits filters that spell the prefix out.
LEMMA PrefixRule ==
    ASSUME NEW p \in Topic,
           NEW f, ValidFilter(f), AclMatches(p \o <<"#">>, f)
    PROVE  Len(f) >= Len(p) /\ \A i \in 1 .. Len(p) : f[i] = p[i]
<1>. DEFINE rule == p \o <<"#">>
<1>. Len(f) \in Nat \ {0} /\ p \in Seq(Words) /\ Len(p) \in Nat \ {0}
  BY DEF ValidFilter, Topic
<1>1. /\ Len(rule) = Len(p) + 1 /\ rule[Len(p) + 1] = "#"
      /\ \A i \in 1 .. Len(p) : rule[i] = p[i] /\ p[i] \in Words
  OBVIOUS
<1>2. \A i \in 1 .. Len(p) : rule[i] # "+" /\ rule[i] # "#"
  BY <1>1, WordsAssumption
<1>3. PICK n \in 1 .. Len(f) + 1 :
        /\ \A i \in 1 .. n - 1 :
              i <= Len(rule) /\ rule[i] # "#" /\ LevelMatches(f[i], rule[i])
        /\ \/ n = Len(f) + 1 /\ RestMatches(rule, n)
           \/ /\ n <= Len(f) /\ n <= Len(rule)
              /\ \/ rule[n] = "#" /\ LevelMatches(f[n], "#")
                 \/ rule[n] = "+" /\ ~ LevelMatches(f[n], "+") /\ RestMatches(rule, n + 1)
  BY DEF AclMatches
<1>. HIDE DEF rule
<1>4. n <= Len(p) + 1
  BY <1>1, <1>3
<1>5. ~ (n <= Len(p))
  BY <1>1, <1>2, <1>3 DEF RestMatches
<1>6. n = Len(p) + 1
  BY <1>4, <1>5
<1>7. \A i \in 1 .. Len(p) : LevelMatches(f[i], rule[i])
  BY <1>3, <1>6
<1>. QED
  BY <1>1, <1>2, <1>3, <1>6, <1>7 DEF LevelMatches

\* No rule of build_auth_info lets a foreign topic through: whatever filter the
\* rules of an account admit, every topic it selects, stored or live, belongs to
\* the account.
THEOREM RulesAdmitOwnTopics ==
    ASSUME NEW rec \in Account, NEW t \in Topic, NEW f, ValidFilter(f),
           MaySubscribe(AuthInfo(rec), TRUE, f),
           StoreMatches(t, f) \/ RouteMatches(t, f)
    PROVE  Belongs(t, rec)
<1>. t \in Seq(Words) /\ f \in Seq(Words \cup {"+", "#"})
     /\ Len(t) \in Nat \ {0} /\ Len(f) \in Nat \ {0}
  BY DEF Topic, ValidFilter
<1>1. StoreMatches(t, f)
  BY StoreAgreesWithRouter
<1>2. CASE rec.superuser
  BY <1>2 DEF Belongs
<1>3. CASE ~ rec.superuser
  <2>1. PICK rule \in SubscribeRules(rec) : AclMatches(rule, f)
    BY <1>3 DEF MaySubscribe, AuthInfo
  <2>2. rec.userid \in Words
    BY AclAssumption DEF Account
  <2>3. CASE rule = <<"+", rec.userid, "#">>
    <3>1. Len(f) >= 2 /\ f[2] = rec.userid
      BY <2>1, <2>2, <2>3, UseridRule
    <3>2. 2 <= Len(t) /\ t[2] = f[2]
      BY <1>1, <2>2, <3>1, FixedLevels
    <3>. QED
      BY <3>1, <3>2 DEF Belongs
  <2>4. CASE \E p \in Prefixes(rec) : rule = p \o <<"#">>
    <3>1. PICK p \in Prefixes(rec) : rule = p \o <<"#">>
      BY <2>4
    <3>2. p \in Topic
      BY AclAssumption DEF Prefixes
    <3>3. p \in Seq(Words) /\ Len(p) \in Nat \ {0} /\ \A i \in 1 .. Len(p) : p[i] \in Words
      BY <3>2 DEF Topic
    <3>4. Len(f) >= Len(p) /\ \A i \in 1 .. Len(p) : f[i] = p[i]
      BY <2>1, <3>1, <3>2, PrefixRule
    <3>5. \A i \in 1 .. Len(p) : i <= Len(t) /\ t[i] = p[i]
      BY <1>1, <3>3, <3>4, FixedLevels
    <3>6. StartsWith(t, p)
      BY <3>3, <3>5 DEF StartsWith
    <3>. QED
      BY <3>6 DEF Belongs
  <2>. QED
    BY <2>1, <2>3, <2>4 DEF SubscribeRules
<1>. QED
  BY <1>2, <1>3

\* The filters the broker subscribes an account to (fanout.rs) are granted by the
\* rules the login gave it (api.rs), when both read the same record.
THEOREM AutoSubscriptionGranted ==
    ASSUME NEW rec \in Account, NEW f \in AutoFilters(rec), ValidFilter(f)
    PROVE  MaySubscribe(AuthInfo(rec), TRUE, f)
<1>1. CASE rec.superuser
  BY <1>1 DEF MaySubscribe, AuthInfo
<1>2. CASE ~ rec.superuser
  <2>1. f \in SubscribeRules(rec)
    BY DEF AutoFilters, SubscribeRules, Prefixes
  <2>2. f \in Seq(Words \cup {"+", "#"}) /\ Len(f) \in Nat \ {0}
    BY DEF ValidFilter
  <2>3. "#" \notin Metadata /\ "+" \notin Metadata
    BY WordsAssumption
  <2>4. f[Len(f)] = "#"
    <3>1. CASE f = <<"+", rec.userid, "#">>
      BY <3>1
    <3>2. CASE \E p \in Prefixes(rec) : f = p \o <<"#">>
      <4>1. PICK p \in Prefixes(rec) : f = p \o <<"#">>
        BY <3>2
      <4>2. p \in Seq(Words) /\ Len(p) \in Nat
        BY AclAssumption DEF Prefixes, Topic
      <4>. QED
        BY <4>1, <4>2
    <3>. QED
      BY <2>1, <3>1, <3>2 DEF SubscribeRules
  <2>5. \A i \in 1 .. Len(f) - 1 : f[i] # "#" /\ LevelMatches(f[i], f[i])
    <3>1. \A i \in 1 .. Len(f) - 1 : f[i] # "#"
      BY <2>2 DEF ValidFilter
    <3>. QED
      BY <2>3, <3>1 DEF LevelMatches
  <2>6. LevelMatches(f[Len(f)], "#")
    BY <2>3, <2>4 DEF LevelMatches
  <2>7. AclMatches(f, f)
    <3>. DEFINE n == Len(f)
    <3>1. n \in 1 .. Len(f) + 1 /\ n <= Len(f)
      BY <2>2
    <3>2. \A i \in 1 .. n - 1 : i <= Len(f) /\ f[i] # "#" /\ LevelMatches(f[i], f[i])
      BY <2>2, <2>5
    <3>. QED
      BY <2>4, <2>6, <3>1, <3>2 DEF AclMatches
  <2>. QED
    BY <1>2, <2>1, <2>7 DEF MaySubscribe, AuthInfo
<1>. QED
  BY <1>1, <1>2
=============================================================================
