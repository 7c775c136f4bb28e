---------------------------- MODULE TopicFilter ----------------------------
(***************************************************************************)
(* Topics and topic filters, and the three matchers a filter meets:        *)
(*   TopicMatches  the message store's (src/src/topic.rs)                  *)
(*   RouteMatches  the router's subscription tree (vendored rmqtt, trie.rs)*)
(*   AclMatches    the access rules' (vendored rmqtt, topic.rs), which     *)
(*                 matches a rule against a requested FILTER               *)
(*                                                                         *)
(* A topic is the sequence of its levels.  A loop over the levels is       *)
(* written as the number n of the iteration that returns: those before it  *)
(* continue.                                                               *)
(***************************************************************************)
EXTENDS Naturals, Sequences

CONSTANTS
    Words,      \* levels other than the wildcards, the empty one too
    Metadata    \* those that start with $

ASSUME WordsAssumption ==
    /\ {"+", "#"} \cap Words = {}
    /\ Metadata \subseteq Words

Topic == {t \in Seq(Words) : Len(t) > 0}

\* Topic::is_valid: # comes last, a $ level comes first
ValidFilter(f) ==
    /\ f \in Seq(Words \cup {"+", "#"})
    /\ Len(f) > 0
    /\ \A i \in 1 .. Len(f) : /\ f[i] = "#" => i = Len(f)
                              /\ f[i] \in Metadata => i = 1

HasWildcard(f) == \E i \in 1 .. Len(f) : f[i] \in {"+", "#"}

\* the loop of topic_matches goes on to the next level
Continues(t, f, i) ==
    /\ i <= Len(f) /\ i <= Len(t)
    /\ f[i] # "#"
    /\ f[i] = "+" \/ f[i] = t[i]

TopicMatches(t, f) ==
    \E n \in 1 .. Len(f) + 1 :
        /\ \A i \in 1 .. n - 1 : Continues(t, f, i)
        /\ \/ n <= Len(f) /\ f[n] = "#"
           \/ n = Len(f) + 1 /\ n = Len(t) + 1

\* get's candidates: the wildcard index or the exact one
StoreMatches(t, f) == IF HasWildcard(f) THEN TopicMatches(t, f) ELSE t = f

\* the tree walk reaches the node of f: at the root no wildcard takes a $ level,
\* a # node is taken at its parent level and below, any other when t is used up
RouteMatches(t, f) ==
    LET body == IF f[Len(f)] = "#" THEN Len(f) - 1 ELSE Len(f)
    IN  /\ t[1] \in Metadata => f[1] \notin {"+", "#"}
        /\ body <= Len(t)
        /\ f[Len(f)] # "#" => body = Len(t)
        /\ \A i \in 1 .. body : f[i] = "+" \/ f[i] = t[i]

\* match_level, as matches_str calls it: l is a level of the rule, s the text of one of
\* the requested filter; a level that is spelt out, an empty one too, takes only itself
LevelMatches(s, l) == IF l \in {"+", "#"} THEN s \notin Metadata ELSE s = l

\* what is left of a rule when the filter is used up
RestMatches(rule, k) == k > Len(rule) \/ rule[k] = "#"

AclMatches(rule, f) ==
    \E n \in 1 .. Len(f) + 1 :
        /\ \A i \in 1 .. n - 1 :
              i <= Len(rule) /\ rule[i] # "#" /\ LevelMatches(f[i], rule[i])
        /\ \/ n = Len(f) + 1 /\ RestMatches(rule, n)
           \/ /\ n <= Len(f) /\ n <= Len(rule)
              /\ \/ rule[n] = "#" /\ LevelMatches(f[n], "#")
                 \* + does not take a $ level: the loop breaks
                 \/ rule[n] = "+" /\ ~ LevelMatches(f[n], "+") /\ RestMatches(rule, n + 1)
=============================================================================
