----------------------------- MODULE SumLemmas -----------------------------
(***************************************************************************)
(* Sums of a natural-valued function over a finite domain (SumFunction of  *)
(* the Functions module), as needed for the byte counter of the message    *)
(* store: existence, type, independence of the order, additivity.          *)
(*                                                                         *)
(* The induction principles are stated for sets, so that they can be used  *)
(* without instantiating an operator.                                      *)
(***************************************************************************)
EXTENDS FiniteSetsExt, FiniteSetTheorems, TLAPS

\* A non-empty set of natural numbers has a least element; evict's loop count is one.
LEMMA LeastNatural ==
    ASSUME NEW S \in SUBSET Nat, S # {}
    PROVE  \E n \in S : \A k \in S : n <= k
<1> DEFINE R == {ss \in Nat \X Nat : ss[1] < ss[2]}
<1>1. OpToRel(<, Nat) = R
  BY Zenon DEF OpToRel
<1>2. IsWellFoundedOn(R, Nat)
  BY <1>1, NatLessThanWellFounded, Zenon
<1>3. PICK n \in S : \A k \in S : ~ (<<k, n>> \in R)
  <2> HIDE DEF R
  <2> QED BY <1>2, WFMin, Zenon
<1>4. ASSUME NEW k \in S PROVE n <= k
  <2>1. <<k, n>> \notin R
    BY <1>3
  <2>2. ~ (k < n)
    <3>1. <<k, n>> \in Nat \X Nat
      OBVIOUS
    <3>2. <<k, n>>[1] = k /\ <<k, n>>[2] = n
      OBVIOUS
    <3> QED BY <2>1, <3>1, <3>2, Zenon
  <2> QED BY <2>2
<1> QED
  BY <1>4, Zenon

\* Min picks that least element: the number of ids evict pops is well defined.
LEMMA MinIsMember ==
    ASSUME NEW S \in SUBSET Nat, S # {}
    PROVE  /\ Min(S) \in S
           /\ \A k \in S : Min(S) <= k
BY LeastNatural DEF Min

\* A non-empty set of natural numbers with an upper bound has a maximum, and Max picks
\* it: open recovers a definite counter from the table.
LEMMA MaxIsMember ==
    ASSUME NEW S \in SUBSET Nat, S # {}, NEW b \in Nat, \A k \in S : k <= b
    PROVE  /\ Max(S) \in S
           /\ \A k \in S : k <= Max(S)
<1> DEFINE T == {b - k : k \in S}
<1>1. T \in SUBSET Nat /\ T # {}
  <2>1. \A k \in S : b - k \in Nat
    OBVIOUS
  <2>2. PICK k \in S : TRUE
    OBVIOUS
  <2>3. b - k \in T
    OBVIOUS
  <2> QED BY <2>1, <2>3
<1>2. PICK d \in T : \A e \in T : d <= e
  <2> HIDE DEF T
  <2> QED BY <1>1, LeastNatural
<1>3. PICK n \in S : d = b - n
  OBVIOUS
<1>4. \A k \in S : k <= n
  <2> TAKE k \in S
  <2>1. b - k \in T
    OBVIOUS
  <2>2. d <= b - k
    BY <1>2, <2>1
  <2> QED BY <1>3, <2>2
<1>5. \E x \in S : \A y \in S : x >= y
  BY <1>4
<1> HIDE DEF T
<1> QED
  BY <1>5 DEF Max

\* Induction over the natural numbers, for a property given as a set (used for the sums
\* of message sizes).
LEMMA NatSetInduction ==
    ASSUME NEW G, 0 \in G, \A n \in Nat : n \in G => n + 1 \in G
    PROVE  Nat \subseteq G
<1> SUFFICES ASSUME Nat \ G # {} PROVE FALSE
  OBVIOUS
<1>1. PICK n \in Nat \ G : \A k \in Nat \ G : n <= k
  BY LeastNatural
<1>2. n - 1 \in Nat /\ n - 1 \notin Nat \ G
  BY <1>1
<1> QED
  BY <1>1, <1>2

\* the element MapThenFoldSet takes next, and one step of its recursion
Pick(s) == CHOOSE x \in s : TRUE

SumStep(f, g, s) == IF s = {} THEN 0 ELSE f[Pick(s)] + g[s \ {Pick(s)}]

\* Taking the picked element out of a finite set makes it smaller: the recursion that sums
\* approx_size over a map terminates.
LEMMA PickSmaller ==
    ASSUME NEW s, IsFiniteSet(s), s # {}
    PROVE  /\ Pick(s) \in s
           /\ IsFiniteSet(s \ {Pick(s)})
           /\ Cardinality(s) \in Nat \ {0}
           /\ Cardinality(s \ {Pick(s)}) = Cardinality(s) - 1
<1>1. Pick(s) \in s
  BY DEF Pick
<1>2. IsFiniteSet(s \ {Pick(s)}) /\ Cardinality(s \ {Pick(s)}) = Cardinality(s) - 1
  BY <1>1, FS_RemoveElement
<1>3. Cardinality(s) \in Nat /\ Cardinality(s) # 0
  BY FS_CardinalityType, FS_EmptySet
<1> QED
  BY <1>1, <1>2, <1>3

\* The recursion behind SumFunction has a solution on every finite set, so the byte count
\* of a memory state is defined.
LEMMA SumExists ==
    ASSUME NEW S, IsFiniteSet(S), NEW f \in [S -> Nat]
    PROVE  \E g : g = [s \in SUBSET S |-> SumStep(f, g, s)]
<1> DEFINE Small(n) == {s \in SUBSET S : Cardinality(s) <= n}
           Good == {n \in Nat : \E g : g = [s \in Small(n) |-> SumStep(f, g, s)]}
<1>0. \A s \in SUBSET S : IsFiniteSet(s) /\ Cardinality(s) \in Nat
  BY FS_Subset, FS_CardinalityType
<1>1. 0 \in Good
  <2>1. \A s \in Small(0) : s = {}
    BY <1>0, FS_EmptySet
  <2> DEFINE g == [s \in Small(0) |-> 0]
  <2>2. g = [s \in Small(0) |-> SumStep(f, g, s)]
    <3> HIDE DEF Small
    <3> QED BY <2>1 DEF SumStep
  <2> HIDE DEF g
  <2> QED BY <2>2
<1>2. ASSUME NEW n \in Nat, n \in Good PROVE n + 1 \in Good
  <2>1. PICK g : g = [s \in Small(n) |-> SumStep(f, g, s)]
    BY <1>2
  <2> DEFINE h == [s \in Small(n + 1) |-> SumStep(f, g, s)]
  <2>2. \A s \in Small(n + 1) : s # {} => s \ {Pick(s)} \in Small(n)
    BY <1>0, PickSmaller
  <2>3. \A s \in Small(n) : s \in Small(n + 1)
    BY <1>0
  <2> HIDE DEF Small
  <2>4. \A s \in Small(n) : h[s] = g[s]
    BY <2>1, <2>3
  <2>5. \A s \in Small(n + 1) : SumStep(f, g, s) = SumStep(f, h, s)
    BY <2>2, <2>4 DEF SumStep
  <2>6. h = [s \in Small(n + 1) |-> SumStep(f, h, s)]
    BY <2>5
  <2> HIDE DEF h
  <2> QED BY <2>6
<1>3. Cardinality(S) \in Good
  <2> HIDE DEF Good
  <2>1. Nat \subseteq Good
    BY <1>1, <1>2, NatSetInduction
  <2> QED BY <2>1, FS_CardinalityType
<1>4. Small(Cardinality(S)) = SUBSET S
  BY FS_Subset
<1> QED
  BY <1>3, <1>4

\* g maps every subset of S to the sum of f over it
Sums(f, S, g) == g = [s \in SUBSET S |-> SumStep(f, g, s)]

\* SumFunction is the value of that solution at the whole domain.
LEMMA SumUnfold ==
    ASSUME NEW S, IsFiniteSet(S), NEW f \in [S -> Nat]
    PROVE  \E g : Sums(f, S, g) /\ SumFunction(f) = g[S]
<1> DEFINE g == CHOOSE h : h = [s \in SUBSET S |-> SumStep(f, h, s)]
<1>1. g = [s \in SUBSET S |-> SumStep(f, g, s)]
  BY SumExists
<1>2. SumFunction(f) = g[S]
  BY DEF SumFunction, SumFunctionOnSet, FoldFunctionOnSet, MapThenFoldSet, SumStep, Pick
<1> QED
  BY <1>1, <1>2 DEF Sums

\* Induction over the subsets of a finite set, by their size (the ids of a message map).
LEMMA SubsetInduction ==
    ASSUME NEW S, IsFiniteSet(S), NEW G,
           \A s \in SUBSET S : (\A u \in SUBSET S : Cardinality(u) < Cardinality(s) => u \in G) => s \in G
    PROVE  SUBSET S \subseteq G
<1> DEFINE Good == {n \in Nat : \A s \in SUBSET S : Cardinality(s) < n => s \in G}
<1>0. \A s \in SUBSET S : Cardinality(s) \in Nat
  BY FS_Subset, FS_CardinalityType
<1>1. 0 \in Good
  BY <1>0
<1>2. \A n \in Nat : n \in Good => n + 1 \in Good
  BY <1>0
<1>3. Nat \subseteq Good
  <2> HIDE DEF Good
  <2> QED BY <1>1, <1>2, NatSetInduction
<1>4. ASSUME NEW s \in SUBSET S PROVE s \in G
  <2>1. Cardinality(s) + 1 \in Good
    BY <1>0, <1>3
  <2> QED BY <1>0, <2>1
<1> QED
  BY <1>4

\* Partial sums of message sizes are natural numbers.
LEMMA SumsType ==
    ASSUME NEW S, IsFiniteSet(S), NEW f \in [S -> Nat], NEW g, Sums(f, S, g)
    PROVE  g \in [SUBSET S -> Nat]
<1> DEFINE G == {s \in SUBSET S : g[s] \in Nat}
<1>1. ASSUME NEW s \in SUBSET S,
             \A u \in SUBSET S : Cardinality(u) < Cardinality(s) => u \in G
      PROVE  s \in G
  <2>1. IsFiniteSet(s)
    BY FS_Subset
  <2>2. g[s] = SumStep(f, g, s)
    BY DEF Sums
  <2>3. CASE s = {}
    BY <2>2, <2>3 DEF SumStep
  <2>4. CASE s # {}
    <3>1. Pick(s) \in S /\ s \ {Pick(s)} \in G
      BY <1>1, <2>1, <2>4, PickSmaller
    <3> QED BY <2>2, <2>4, <3>1 DEF SumStep
  <2> QED BY <2>3, <2>4
<1>2. SUBSET S \subseteq G
  <2> HIDE DEF G
  <2> QED BY <1>1, SubsetInduction
<1>3. g = [s \in SUBSET S |-> g[s]]
  BY DEF Sums
<1> QED
  BY <1>2, <1>3

\* The sum of sizes does not depend on the order in which ids are picked: HashMap
\* iteration order does not matter to bytes.
LEMMA SumsRemove ==
    ASSUME NEW S, IsFiniteSet(S), NEW f \in [S -> Nat], NEW g, Sums(f, S, g)
    PROVE  \A s \in SUBSET S : \A x \in s : g[s] = f[x] + g[s \ {x}]
<1> DEFINE G == {s \in SUBSET S : \A x \in s : g[s] = f[x] + g[s \ {x}]}
<1>0. g \in [SUBSET S -> Nat]
  BY SumsType
<1>1. ASSUME NEW s \in SUBSET S,
             \A u \in SUBSET S : Cardinality(u) < Cardinality(s) => u \in G
      PROVE  s \in G
  <2> SUFFICES ASSUME NEW x \in s PROVE g[s] = f[x] + g[s \ {x}]
    OBVIOUS
  <2>1. IsFiniteSet(s) /\ Cardinality(s) \in Nat
    BY FS_Subset, FS_CardinalityType
  <2>2. PICK p \in s : g[s] = f[p] + g[s \ {p}]
    BY <2>1, PickSmaller DEF Sums, SumStep
  <2>3. CASE x = p
    BY <2>2, <2>3
  <2>4. CASE x # p
    <3>1. Cardinality(s \ {p}) < Cardinality(s) /\ Cardinality(s \ {x}) < Cardinality(s)
      <4>1. Cardinality(s \ {p}) = Cardinality(s) - 1
        BY <2>1, FS_RemoveElement
      <4>2. Cardinality(s \ {x}) = Cardinality(s) - 1
        BY <2>1, FS_RemoveElement
      <4> QED BY <2>1, <4>1, <4>2
    <3>2. s \ {p} \in G /\ s \ {x} \in G
      BY <1>1, <3>1
    <3>3. g[s \ {p}] = f[x] + g[(s \ {p}) \ {x}]
      BY <2>4, <3>2
    <3>4. g[s \ {x}] = f[p] + g[(s \ {x}) \ {p}]
      BY <2>2, <2>4, <3>2
    <3>5. (s \ {p}) \ {x} = (s \ {x}) \ {p}
      OBVIOUS
    <3>6. f[x] \in Nat /\ f[p] \in Nat /\ g[(s \ {x}) \ {p}] \in Nat
      BY <1>0, <2>2
    <3> DEFINE rest == g[(s \ {x}) \ {p}]
    <3>7. g[s] = f[p] + (f[x] + rest) /\ g[s \ {x}] = f[p] + rest
      BY <2>2, <3>3, <3>4, <3>5, Zenon
    <3> HIDE DEF rest
    <3>8. f[p] + (f[x] + rest) = f[x] + (f[p] + rest)
      BY <3>6 DEF rest
    <3> QED BY <3>7, <3>8, Zenon
  <2> QED BY <2>3, <2>4
<1>2. SUBSET S \subseteq G
  <2> HIDE DEF G
  <2> QED BY <1>1, SubsetInduction
<1> QED
  BY <1>2

\* Restricting the map does not change the partial sums over what is left of it.
LEMMA SumsAgree ==
    ASSUME NEW S, IsFiniteSet(S), NEW f \in [S -> Nat], NEW g, Sums(f, S, g),
           NEW T \in SUBSET S, NEW h, Sums(Restrict(f, T), T, h)
    PROVE  \A s \in SUBSET T : h[s] = g[s]
<1> DEFINE G == {s \in SUBSET T : h[s] = g[s]}
<1>0. IsFiniteSet(T)
  BY FS_Subset
<1>1. ASSUME NEW s \in SUBSET T,
             \A u \in SUBSET T : Cardinality(u) < Cardinality(s) => u \in G
      PROVE  s \in G
  <2>1. IsFiniteSet(s)
    BY <1>0, FS_Subset
  <2>2. h[s] = SumStep(Restrict(f, T), h, s) /\ g[s] = SumStep(f, g, s)
    BY DEF Sums
  <2>3. CASE s = {}
    BY <2>2, <2>3 DEF SumStep
  <2>4. CASE s # {}
    <3>0. /\ Pick(s) \in s /\ Cardinality(s) \in Nat
          /\ Cardinality(s \ {Pick(s)}) = Cardinality(s) - 1
      BY <2>1, <2>4, PickSmaller
    <3>1. Pick(s) \in T /\ s \ {Pick(s)} \in G
      <4>1. s \ {Pick(s)} \in SUBSET T
        OBVIOUS
      <4>2. Cardinality(s \ {Pick(s)}) < Cardinality(s)
        BY <3>0
      <4> QED BY <1>1, <3>0, <4>1, <4>2, Zenon
    <3> QED BY <2>2, <2>4, <3>1 DEF SumStep, Restrict
  <2> QED BY <2>3, <2>4
<1>2. SUBSET T \subseteq G
  <2> HIDE DEF G
  <2> QED BY <1>0, <1>1, SubsetInduction
<1> QED
  BY <1>2

\* Sums over disjoint sets of ids add up.
LEMMA SumsUnion ==
    ASSUME NEW S, IsFiniteSet(S), NEW f \in [S -> Nat], NEW g, Sums(f, S, g),
           NEW a \in SUBSET S
    PROVE  \A b \in SUBSET (S \ a) : g[a \cup b] = g[a] + g[b]
<1> DEFINE G == {b \in SUBSET (S \ a) : g[a \cup b] = g[a] + g[b]}
<1>0. g \in [SUBSET S -> Nat] /\ IsFiniteSet(S \ a)
  BY SumsType, FS_Subset
<1>1. ASSUME NEW b \in SUBSET (S \ a),
             \A u \in SUBSET (S \ a) : Cardinality(u) < Cardinality(b) => u \in G
      PROVE  b \in G
  <2>1. IsFiniteSet(b)
    BY <1>0, FS_Subset
  <2>2. CASE b = {}
    <3>1. g[b] = 0
      BY <2>2 DEF Sums, SumStep
    <3>2. a \cup b = a
      BY <2>2
    <3>3. g[a] \in Nat
      BY <1>0
    <3>4. g[a \cup b] = g[a] + g[b]
      BY <3>1, <3>2, <3>3
    <3> QED BY <3>4
  <2>3. CASE b # {}
    <3>1. PICK x \in b : Cardinality(b \ {x}) < Cardinality(b)
      BY <2>1, <2>3, PickSmaller
    <3>2. b \ {x} \in G
      BY <1>1, <3>1
    <3>3. g[b] = f[x] + g[b \ {x}]
      BY SumsRemove
    <3>4. g[a \cup b] = f[x] + g[a \cup (b \ {x})]
      <4>1. (a \cup b) \ {x} = a \cup (b \ {x})
        OBVIOUS
      <4> QED BY <4>1, SumsRemove
    <3>5. g[a \cup (b \ {x})] = g[a] + g[b \ {x}]
      BY <3>2
    <3>6. f[x] \in Nat /\ g[a] \in Nat /\ g[b \ {x}] \in Nat
      BY <1>0
    <3> DEFINE rest == g[b \ {x}]
    <3>7. g[b] = f[x] + rest /\ g[a \cup b] = f[x] + (g[a] + rest)
      BY <3>3, <3>4, <3>5, Zenon
    <3> HIDE DEF rest
    <3>8. f[x] + (g[a] + rest) = g[a] + (f[x] + rest)
      BY <3>6 DEF rest
    <3> QED BY <3>7, <3>8, Zenon
  <2> QED BY <2>2, <2>3
<1>2. SUBSET (S \ a) \subseteq G
  <2> HIDE DEF G
  <2> QED BY <1>0, <1>1, SubsetInduction
<1> QED
  BY <1>2

\* The sum of the sizes in a finite map is a natural number (bytes fits usize's sign).
LEMMA SumIsNat ==
    ASSUME NEW S, IsFiniteSet(S), NEW f \in [S -> Nat]
    PROVE  SumFunction(f) \in Nat
<1>1. PICK g : Sums(f, S, g) /\ SumFunction(f) = g[S]
  BY SumUnfold
<1>2. g \in [SUBSET S -> Nat]
  BY <1>1, SumsType
<1> QED
  BY <1>1, <1>2

\* The empty store has no bytes.
LEMMA SumOfEmpty ==
    ASSUME NEW f \in [{} -> Nat]
    PROVE  SumFunction(f) = 0
<1>1. PICK g : Sums(f, {}, g) /\ SumFunction(f) = g[{}]
  BY SumUnfold, FS_EmptySet
<1> QED
  BY <1>1 DEF Sums, SumStep

\* The bytes of a map are those of any part of it plus those of the rest: what evict
\* subtracts for the popped ids is what the remaining ones no longer count.
LEMMA SumSplits ==
    ASSUME NEW S, IsFiniteSet(S), NEW f \in [S -> Nat], NEW T \in SUBSET S
    PROVE  SumFunction(f) = SumFunction(Restrict(f, T)) + SumFunction(Restrict(f, S \ T))
<1>0. /\ IsFiniteSet(T) /\ Restrict(f, T) \in [T -> Nat]
      /\ IsFiniteSet(S \ T) /\ Restrict(f, S \ T) \in [S \ T -> Nat]
  BY FS_Subset DEF Restrict
<1>1. PICK g : Sums(f, S, g) /\ SumFunction(f) = g[S]
  BY SumUnfold
<1>2. PICK h : Sums(Restrict(f, T), T, h) /\ SumFunction(Restrict(f, T)) = h[T]
  BY <1>0, SumUnfold
<1>3. PICK e : Sums(Restrict(f, S \ T), S \ T, e) /\ SumFunction(Restrict(f, S \ T)) = e[S \ T]
  BY <1>0, SumUnfold
<1>4. h[T] = g[T]
  BY <1>1, <1>2, SumsAgree
<1>5. e[S \ T] = g[S \ T]
  BY <1>1, <1>3, SumsAgree
<1>6. g[T \cup (S \ T)] = g[T] + g[S \ T]
  <2>1. S \ T \in SUBSET (S \ T)
    OBVIOUS
  <2>2. \A b \in SUBSET (S \ T) : g[T \cup b] = g[T] + g[b]
    BY <1>1, SumsUnion
  <2> QED BY <2>1, <2>2, Zenon
<1>7. T \cup (S \ T) = S
  OBVIOUS
<1> QED
  BY <1>1, <1>2, <1>3, <1>4, <1>5, <1>6, <1>7

\* A single message contributes its own size.
LEMMA SumOfOne ==
    ASSUME NEW x, NEW f \in [{x} -> Nat]
    PROVE  SumFunction(f) = f[x]
<1>0. IsFiniteSet({x})
  BY FS_Singleton
<1>1. PICK g : Sums(f, {x}, g) /\ SumFunction(f) = g[{x}]
  BY <1>0, SumUnfold
<1>2. g[{x}] = f[x] + g[{x} \ {x}]
  BY <1>0, <1>1, SumsRemove
<1>3. g[{x} \ {x}] = 0
  BY <1>1 DEF Sums, SumStep
<1> QED
  BY <1>1, <1>2, <1>3
=============================================================================
