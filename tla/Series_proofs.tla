---------------------------- MODULE Series_proofs ----------------------------
(***************************************************************************)
(* Proofs about the operators of Series, for every finite set of rows.     *)
(*                                                                         *)
(* Induction over a finite set is by a smallest counterexample: the strict *)
(* subset relation on the subsets of a finite set is well founded, so a    *)
(* set of them that is not empty has a minimal element.                    *)
(***************************************************************************)
EXTENDS Series, FiniteSetTheorems, WellFoundedInduction, TLAPS

-----------------------------------------------------------------------------
(* Sums over finite sets.                                                  *)

\* Induction without a predicate: among sets of subsets of a finite set there is a
\* minimal one.
LEMMA Minimal ==
  ASSUME NEW S, IsFiniteSet(S), NEW T \in SUBSET SUBSET S, T # {}
  PROVE  \E m \in T : \A t \in T : t \subseteq m => t = m
<1>1. FiniteSubsetsOf(S) = SUBSET S
  BY FS_FiniteSubsetsOfFinite
<1>2. IsWellFoundedOn(StrictSubsetOrdering(S), SUBSET S)
  BY <1>1, FS_StrictSubsetOrderingWellFounded
<1>3. PICK m \in T : \A t \in T : ~ (<<t, m>> \in StrictSubsetOrdering(S))
  BY <1>2, WFMin
<1>4. ASSUME NEW t \in T, t \subseteq m PROVE t = m
  BY <1>3, <1>4 DEF StrictSubsetOrdering
<1>5. QED
  BY <1>4

\* The element a sum begins with, and the recursion by which it goes on.
First(s) == CHOOSE x \in s : TRUE

Adds(g, f, S) ==
  g = [s \in SUBSET S |-> IF s = {} THEN 0 ELSE f[First(s)] + g[s \ {First(s)}]]

\* What is left of a set is a smaller one.
LEMMA Rest ==
  ASSUME NEW s, s # {}
  PROVE  First(s) \in s /\ s \ {First(s)} \subseteq s /\ s \ {First(s)} # s
BY DEF First

\* The function that adds up the subsets of S.
PartialSums(f, S) == CHOOSE g : Adds(g, f, S)

\* One step of that recursion.
LEMMA AddsUp ==
  ASSUME NEW f, NEW S, NEW g, Adds(g, f, S), NEW s \in SUBSET S
  PROVE  g[s] = IF s = {} THEN 0 ELSE f[First(s)] + g[s \ {First(s)}]
BY DEF Adds

\* Two functions that add up agree.
LEMMA AddsUnique ==
  ASSUME NEW f, NEW S, IsFiniteSet(S), NEW g, Adds(g, f, S),
         NEW U \in SUBSET S, NEW h, Adds(h, f, U)
  PROVE  \A s \in SUBSET U : g[s] = h[s]
<1> DEFINE T == {s \in SUBSET U : g[s] # h[s]}
<1>1. SUFFICES ASSUME T # {} PROVE FALSE
  OBVIOUS
<1>2. IsFiniteSet(U)
  BY FS_Subset
<1>3. PICK m \in T : \A t \in T : t \subseteq m => t = m
  <2> HIDE DEF T
  <2>1. T \in SUBSET SUBSET U
    BY DEF T
  <2>2. QED
    BY <1>1, <1>2, <2>1, Minimal
<1>4. m \in SUBSET U /\ m \in SUBSET S
  OBVIOUS
<1>5. m # {}
  <2>1. g[{}] = 0 /\ h[{}] = 0
    BY DEF Adds
  <2>2. QED
    BY <2>1
<1> DEFINE r == m \ {First(m)}
<1>6. r \in SUBSET U /\ r \in SUBSET S /\ g[r] = h[r]
  BY <1>3, <1>4, <1>5, Rest
<1>7. g[m] = f[First(m)] + g[r] /\ h[m] = f[First(m)] + h[r]
  BY <1>4, <1>5 DEF Adds
<1>8. QED
  BY <1>6, <1>7

\* There is a function that adds up the subsets of S: were it missing for some of
\* them, a smallest one of these would have it after all.
LEMMA AddsExists ==
  ASSUME NEW f, NEW S, IsFiniteSet(S)
  PROVE  \E g : Adds(g, f, S)
<1> DEFINE T == {s \in SUBSET S : ~ \E g : Adds(g, f, s)}
<1>1. SUFFICES ASSUME T # {} PROVE FALSE
  BY DEF T
<1>2. PICK m \in T : \A t \in T : t \subseteq m => t = m
  <2> HIDE DEF T
  <2>1. T \in SUBSET SUBSET S
    BY DEF T
  <2>2. QED
    BY <1>1, <2>1, Minimal
<1>3. m \in SUBSET S /\ ~ \E g : Adds(g, f, m)
  OBVIOUS
<1> DEFINE G(u) == PartialSums(f, u)
           H(u) == G(u)[u]
           sum == [s \in SUBSET m |-> IF s = {} THEN 0 ELSE f[First(s)] + H(s \ {First(s)})]
<1>4. ASSUME NEW u \in SUBSET m, u # m PROVE Adds(G(u), f, u) /\ IsFiniteSet(u)
  <2>1. \E g : Adds(g, f, u)
    BY <1>2, <1>3, <1>4
  <2>2. QED
    BY <1>3, <2>1, FS_Subset DEF PartialSums
<1>5. ASSUME NEW u \in SUBSET m, u # m PROVE H(u) = sum[u]
  <2>1. CASE u = {}
    BY <1>4, <1>5, <2>1, AddsUp
  <2>2. CASE u # {}
    <3> DEFINE v == u \ {First(u)}
    <3>1. v \in SUBSET u /\ v \in SUBSET m /\ v # m
      BY <1>5, <2>2, Rest
    <3>2. G(u)[u] = f[First(u)] + G(u)[v]
      BY <1>4, <1>5, <2>2, AddsUp
    <3>3. G(u)[v] = G(v)[v]
      <4>1. Adds(G(u), f, u) /\ IsFiniteSet(u) /\ Adds(G(v), f, v)
        BY <1>4, <1>5, <3>1
      <4> HIDE DEF G, v
      <4>2. QED
        BY <3>1, <4>1, AddsUnique
    <3>4. sum[u] = f[First(u)] + H(v)
      BY <2>2
    <3>5. QED
      BY <3>2, <3>3, <3>4
  <2>3. QED
    BY <2>1, <2>2
<1>6. Adds(sum, f, m)
  <2>1. ASSUME NEW s \in SUBSET m, s # {}
        PROVE  H(s \ {First(s)}) = sum[s \ {First(s)}]
    <3>1. s \ {First(s)} \in SUBSET m /\ s \ {First(s)} # m
      BY <2>1, Rest
    <3>2. QED
      BY <1>5, <3>1
  <2>2. sum = [s \in SUBSET m |-> IF s = {} THEN 0 ELSE f[First(s)] + sum[s \ {First(s)}]]
    <3> HIDE DEF H
    <3>1. \A s \in SUBSET m : sum[s] = IF s = {} THEN 0 ELSE f[First(s)] + sum[s \ {First(s)}]
      BY <2>1
    <3>2. QED
      BY <3>1
  <2> HIDE DEF sum
  <2>3. QED
    BY <2>2 DEF Adds
<1>7. QED
  BY <1>3, <1>6

\* The recursion of SumFunctionOnSet.
LEMMA SumUnfold ==
  ASSUME NEW f, NEW S, IsFiniteSet(S)
  PROVE  SumFunctionOnSet(f, S) =
           IF S = {} THEN 0 ELSE f[First(S)] + SumFunctionOnSet(f, S \ {First(S)})
<1> DEFINE G(u) == PartialSums(f, u)
           r == S \ {First(S)}
<1>1. \A u : SumFunctionOnSet(f, u) = G(u)[u]
  BY DEF SumFunctionOnSet, FoldFunctionOnSet, MapThenFoldSet, PartialSums, Adds, First
<1>2. IsFiniteSet(r) /\ r \in SUBSET S
  BY FS_RemoveElement
<1>3. Adds(G(S), f, S) /\ Adds(G(r), f, r)
  BY <1>2, AddsExists DEF PartialSums
<1>4. G(S)[r] = G(r)[r]
  <2> HIDE DEF G, r
  <2>1. QED
    BY <1>2, <1>3, AddsUnique
<1>5. G(S)[S] = IF S = {} THEN 0 ELSE f[First(S)] + G(S)[r]
  BY <1>3, AddsUp
<1>6. QED
  BY <1>1, <1>4, <1>5

\* Induction over the subsets of a finite set: T holds the good ones.
LEMMA SubsetInduction ==
  ASSUME NEW S, IsFiniteSet(S), NEW T,
         \A s \in SUBSET S : (\A u \in SUBSET s : u # s => u \in T) => s \in T
  PROVE  \A s \in SUBSET S : s \in T
<1> DEFINE bad == (SUBSET S) \ T
<1>1. SUFFICES ASSUME bad # {} PROVE FALSE
  OBVIOUS
<1>2. PICK m \in bad : \A t \in bad : t \subseteq m => t = m
  <2>1. bad \in SUBSET SUBSET S
    OBVIOUS
  <2> HIDE DEF bad
  <2>2. QED
    BY <1>1, <2>1, Minimal
<1>3. ASSUME NEW u \in SUBSET m, u # m PROVE u \in T
  <2>1. u \in SUBSET S
    OBVIOUS
  <2>2. QED
    BY <1>2, <1>3, <2>1
<1>4. m \in T
  <2>1. m \in SUBSET S
    OBVIOUS
  <2>2. \A u \in SUBSET m : u # m => u \in T
    BY <1>3
  <2> HIDE DEF bad
  <2>3. QED
    BY <2>1, <2>2
<1>5. QED
  BY <1>4

\* S is finite and its values are whole numbers.
Summable(f, S) == IsFiniteSet(S) /\ \A x \in S : f[x] \in Int

\* Nothing adds up to 0.
LEMMA SumEmpty == ASSUME NEW f PROVE SumFunctionOnSet(f, {}) = 0
BY SumUnfold, FS_EmptySet

\* Any element may be taken out of a sum first.
LEMMA SumRemove ==
  ASSUME NEW f, NEW S, Summable(f, S)
  PROVE  /\ SumFunctionOnSet(f, S) \in Int
         /\ \A x \in S : SumFunctionOnSet(f, S) = f[x] + SumFunctionOnSet(f, S \ {x})
<1> DEFINE sum(s) == SumFunctionOnSet(f, s)
           Good(s) == sum(s) \in Int /\ \A x \in s : sum(s) = f[x] + sum(s \ {x})
           T == {s \in SUBSET S : Good(s)}
<1>1. ASSUME NEW s \in SUBSET S, \A u \in SUBSET s : u # s => u \in T
      PROVE  Good(s)
  <2>1. CASE s = {}
    BY <2>1, SumEmpty
  <2>2. CASE s # {}
    <3> DEFINE c == First(s)
               r == s \ {c}
    <3>1. c \in s /\ f[c] \in Int
      BY <2>2, Rest DEF Summable
    <3>2. sum(s) = f[c] + sum(r)
      BY <2>2, SumUnfold, FS_Subset DEF Summable
    <3>3. Good(r)
      BY <1>1, <3>1
    <3> HIDE DEF c, sum
    <3>4. ASSUME NEW x \in s, x # c PROVE sum(s) = f[x] + sum(s \ {x})
      <4> DEFINE v == s \ {x}
      <4>1. Good(v)
        BY <1>1
      <4>2. r \ {x} = v \ {c} /\ x \in r /\ c \in v
        BY <3>1, <3>4
      <4>3. sum(r) = f[x] + sum(r \ {x}) /\ sum(v) = f[c] + sum(r \ {x})
        BY <3>3, <4>1, <4>2
      <4>4. r \ {x} \in T
        BY <1>1, <3>1, <3>4
      <4>5. f[x] \in Int /\ sum(r \ {x}) \in Int
        BY <4>4 DEF Summable
      <4> HIDE DEF r, v
      <4>6. QED
        BY <3>1, <3>2, <4>3, <4>5 DEF v
    <3>5. \A x \in s : sum(s) = f[x] + sum(s \ {x})
      BY <3>2, <3>4
    <3>6. sum(s) \in Int
      BY <3>1, <3>2, <3>3
    <3>7. QED
      BY <3>5, <3>6
  <2>3. QED
    BY <2>1, <2>2
<1>2. \A s \in SUBSET S : s \in T
  <2> HIDE DEF Good
  <2>1. \A s \in SUBSET S : (\A u \in SUBSET s : u # s => u \in T) => s \in T
    BY <1>1
  <2> HIDE DEF T
  <2>2. QED
    BY <2>1, SubsetInduction DEF Summable
<1>3. QED
  BY <1>2

\* A sum depends on the function within the set only.
LEMMA SumCongruence ==
  ASSUME NEW S, IsFiniteSet(S), NEW f, NEW g, \A x \in S : f[x] = g[x]
  PROVE  SumFunctionOnSet(f, S) = SumFunctionOnSet(g, S)
<1> DEFINE T == {s \in SUBSET S : SumFunctionOnSet(f, s) = SumFunctionOnSet(g, s)}
<1>1. ASSUME NEW s \in SUBSET S, \A u \in SUBSET s : u # s => u \in T
      PROVE  s \in T
  <2>1. CASE s = {}
    BY <2>1, SumEmpty
  <2>2. CASE s # {}
    <3>1. /\ SumFunctionOnSet(f, s) = f[First(s)] + SumFunctionOnSet(f, s \ {First(s)})
          /\ SumFunctionOnSet(g, s) = g[First(s)] + SumFunctionOnSet(g, s \ {First(s)})
      BY <2>2, SumUnfold, FS_Subset
    <3>2. s \ {First(s)} \in T /\ First(s) \in S
      BY <1>1, <2>2, Rest
    <3>3. QED
      BY <3>1, <3>2
  <2>3. QED
    BY <2>1, <2>2
<1>2. \A s \in SUBSET S : s \in T
  <2> HIDE DEF T
  <2>1. QED
    BY <1>1, SubsetInduction
<1>3. QED
  BY <1>2

\* A sum is that of a part and that of the rest.
LEMMA SumSplit ==
  ASSUME NEW f, NEW S, Summable(f, S), NEW A \in SUBSET S
  PROVE  SumFunctionOnSet(f, S) = SumFunctionOnSet(f, A) + SumFunctionOnSet(f, S \ A)
<1> DEFINE sum(s) == SumFunctionOnSet(f, s)
           T == {s \in SUBSET S : sum(S) = sum(s) + sum(S \ s)}
<1>0. \A s \in SUBSET S : Summable(f, s)
  BY FS_Subset DEF Summable
<1>1. ASSUME NEW s \in SUBSET S, \A u \in SUBSET s : u # s => u \in T
      PROVE  s \in T
  <2>1. CASE s = {}
    BY <2>1, <1>0, SumEmpty, SumRemove
  <2>2. CASE s # {}
    <3>1. PICK x \in s : TRUE
      BY <2>2
    <3> DEFINE r == s \ {x}
               w == S \ r
    <3>2. r \in T /\ w \in SUBSET S /\ x \in w /\ w \ {x} = S \ s
      BY <1>1, <3>1
    <3>3. /\ sum(s) = f[x] + sum(r) /\ sum(w) = f[x] + sum(S \ s)
          /\ sum(S) = sum(r) + sum(w)
      <4>1. sum(s) = f[x] + sum(r)
        BY <1>0, SumRemove
      <4>2. sum(w) = f[x] + sum(S \ s)
        <5>1. sum(w) = f[x] + sum(w \ {x})
          BY <1>0, <3>2, SumRemove
        <5>2. QED
          BY <3>2, <5>1
      <4>3. QED
        BY <3>2, <4>1, <4>2
    <3>4. sum(r) \in Int /\ sum(S \ s) \in Int /\ f[x] \in Int
      <4>1. r \in SUBSET S /\ S \ s \in SUBSET S
        OBVIOUS
      <4>2. QED
        BY <1>0, <4>1, SumRemove DEF Summable
    <3> HIDE DEF sum, r, w
    <3>5. QED
      BY <3>3, <3>4
  <2>3. QED
    BY <2>1, <2>2
<1>2. \A s \in SUBSET S : s \in T
  <2> HIDE DEF T
  <2>1. QED
    BY <1>1, SubsetInduction DEF Summable
<1>3. QED
  BY <1>2

\* There are finitely many groups.
LEMMA GroupsFinite ==
  ASSUME NEW S, IsFiniteSet(S), NEW group
  PROVE  IsFiniteSet({group[x] : x \in S})
<1> DEFINE groups == {group[x] : x \in S}
           onto == [x \in S |-> group[x]]
<1>1. onto \in Surjection(S, groups)
  BY DEF Surjection
<1> HIDE DEF groups, onto
<1>2. IsFiniteSet(groups)
  BY <1>1, FS_Surjection
<1>3. QED
  BY <1>2 DEF groups

\* A sum is the sum of the sums of groups.
LEMMA SumGroups ==
  ASSUME NEW f, NEW S, Summable(f, S), NEW group
  PROVE  SumFunctionOnSet(f, S) =
           LET groups == {group[x] : x \in S}
               of(b) == {x \in S : group[x] = b} IN
           SumFunctionOnSet([b \in groups |-> SumFunctionOnSet(f, of(b))], groups)
<1> DEFINE Groups(s) == {group[x] : x \in s}
           Of(s, b) == {x \in s : group[x] = b}
           Sums(s) == [b \in Groups(s) |-> SumFunctionOnSet(f, Of(s, b))]
           Good(s) == SumFunctionOnSet(f, s) = SumFunctionOnSet(Sums(s), Groups(s))
           T == {s \in SUBSET S : Good(s)}
<1>0. \A s \in SUBSET S : Summable(f, s)
  BY FS_Subset DEF Summable
<1>1. ASSUME NEW s \in SUBSET S, \A u \in SUBSET s : u # s => u \in T
      PROVE  Good(s)
  <2>1. CASE s = {}
    <3>1. Groups(s) = {}
      BY <2>1
    <3>2. QED
      BY <2>1, <3>1, SumEmpty
  <2>2. CASE s # {}
    <3>1. PICK x \in s : TRUE
      BY <2>2
    <3> DEFINE c == group[x]
               a == Of(s, c)
               r == s \ a
    <3>2. /\ Groups(s) \ {c} = Groups(r) /\ c \in Groups(s)
          /\ \A b \in Groups(r) : Of(r, b) = Of(s, b)
      BY <3>1
    <3>3. Good(r)
      <4>1. r \in SUBSET s /\ r # s
        BY <3>1
      <4>2. QED
        BY <1>1, <4>1
    <3>4. IsFiniteSet(Groups(s))
      <4>1. IsFiniteSet(s)
        BY <1>0 DEF Summable
      <4> HIDE DEF Groups
      <4>2. QED
        BY <4>1, GroupsFinite DEF Groups
    <3>5. Summable(Sums(s), Groups(s))
      <4>1. ASSUME NEW b \in Groups(s) PROVE Sums(s)[b] \in Int
        <5>1. Of(s, b) \in SUBSET S
          OBVIOUS
        <5>2. Summable(f, Of(s, b))
          BY <1>0, <5>1
        <5>3. SumFunctionOnSet(f, Of(s, b)) \in Int
          <6> HIDE DEF Of
          <6>1. QED
            BY <5>2, SumRemove
        <5>4. QED
          BY <5>3
      <4> HIDE DEF Sums, Groups
      <4>2. QED
        BY <3>4, <4>1 DEF Summable
    <3>6. SumFunctionOnSet(Sums(s), Groups(s))
            = Sums(s)[c] + SumFunctionOnSet(Sums(s), Groups(r))
      <4> HIDE DEF Sums, Groups, c, r
      <4>1. QED
        BY <3>2, <3>5, SumRemove
    <3>7. Sums(s)[c] = SumFunctionOnSet(f, a)
      BY <3>2
    <3>8. SumFunctionOnSet(Sums(s), Groups(r)) = SumFunctionOnSet(Sums(r), Groups(r))
      <4>1. \A b \in Groups(r) : Sums(s)[b] = Sums(r)[b]
        BY <3>2
      <4>2. IsFiniteSet(Groups(r))
        <5>1. Groups(r) \subseteq Groups(s)
          OBVIOUS
        <5> HIDE DEF Groups
        <5>2. QED
          BY <3>4, <5>1, FS_Subset
      <4> HIDE DEF Sums, Groups, r
      <4>3. QED
        BY <4>1, <4>2, SumCongruence
    <3>9. SumFunctionOnSet(f, s) = SumFunctionOnSet(f, a) + SumFunctionOnSet(f, r)
      <4>1. a \in SUBSET s
        OBVIOUS
      <4> HIDE DEF a
      <4>2. QED
        BY <1>0, <4>1, SumSplit
    <3>10. QED
      BY <3>3, <3>6, <3>7, <3>8, <3>9
  <2>3. QED
    BY <2>1, <2>2
<1>2. \A s \in SUBSET S : s \in T
  <2> HIDE DEF Good
  <2>1. \A s \in SUBSET S : (\A u \in SUBSET s : u # s => u \in T) => s \in T
    BY <1>1
  <2> HIDE DEF T
  <2>2. QED
    BY <2>1, SubsetInduction DEF Summable
<1>3. QED
  BY <1>2

-----------------------------------------------------------------------------
(* Greatest and least elements, and rounding.                              *)

\* A finite set of integers that is not empty has a greatest element.
LEMMA Greatest ==
  ASSUME NEW S \in SUBSET Int, IsFiniteSet(S), S # {}
  PROVE  Max(S) \in S /\ \A y \in S : y <= Max(S)
<1> DEFINE Good(s) == s = {} \/ \E x \in s : \A y \in s : y <= x
           T == {s \in SUBSET S : Good(s)}
<1>1. ASSUME NEW s \in SUBSET S, \A u \in SUBSET s : u # s => u \in T
      PROVE  Good(s)
  <2>1. SUFFICES ASSUME s # {} PROVE \E x \in s : \A y \in s : y <= x
    OBVIOUS
  <2>2. PICK c \in s : TRUE
    BY <2>1
  <2>3. Good(s \ {c})
    <3>1. s \ {c} \in SUBSET s /\ s \ {c} # s
      BY <2>2
    <3>2. s \ {c} \in T
      BY <1>1, <3>1
    <3>3. QED
      BY <3>2
  <2>4. s \subseteq Int
    OBVIOUS
  <2>5. CASE s \ {c} = {}
    <3>1. \A y \in s : y <= c
      BY <2>4, <2>5
    <3>2. QED
      BY <3>1
  <2>6. CASE s \ {c} # {}
    <3>1. PICK x \in s \ {c} : \A y \in s \ {c} : y <= x
      BY <2>3, <2>6
    <3>2. x \in Int /\ c \in Int
      BY <2>4
    <3>3. CASE c <= x
      <4>1. \A y \in s : y <= x
        BY <3>1, <3>3
      <4>2. QED
        BY <4>1
    <3>4. CASE x <= c
      <4>1. \A y \in s : y <= c
        BY <2>4, <3>1, <3>2, <3>4
      <4>2. QED
        BY <4>1
    <3>5. QED
      BY <3>2, <3>3, <3>4
  <2>7. QED
    BY <2>5, <2>6
<1>2. \A s \in SUBSET S : s \in T
  <2> HIDE DEF Good
  <2>1. \A s \in SUBSET S : (\A u \in SUBSET s : u # s => u \in T) => s \in T
    BY <1>1
  <2> HIDE DEF T
  <2>2. QED
    BY <2>1, SubsetInduction
<1>3. \E x \in S : \A y \in S : y <= x
  BY <1>2
<1>4. \E x \in S : \A y \in S : x >= y
  BY <1>3
<1>5. QED
  BY <1>4 DEF Max

\* ... and a least one.
LEMMA Least ==
  ASSUME NEW S \in SUBSET Int, IsFiniteSet(S), S # {}
  PROVE  Min(S) \in S /\ \A y \in S : Min(S) <= y
<1> DEFINE minus == [x \in S |-> 0 - x]
           M == {minus[x] : x \in S}
<1>1. M \in SUBSET Int /\ M # {}
  <2>1. \A x \in S : minus[x] \in Int
    OBVIOUS
  <2> HIDE DEF minus
  <2>2. QED
    BY <2>1
<1>2. IsFiniteSet(M)
  <2> HIDE DEF minus
  <2>1. QED
    BY GroupsFinite
<1>3. Max(M) \in M /\ \A y \in M : y <= Max(M)
  <2> HIDE DEF M
  <2>1. QED
    BY <1>1, <1>2, Greatest
<1>4. PICK x \in S : Max(M) = 0 - x
  BY <1>3
<1>5. ASSUME NEW y \in S PROVE x <= y
  <2>1. minus[y] \in M /\ minus[y] = 0 - y
    OBVIOUS
  <2>2. 0 - y <= 0 - x
    BY <1>3, <1>4, <2>1
  <2>3. QED
    BY <2>2
<1>6. QED
  BY <1>5 DEF Min

\* The multiple of w below t, which may be negative, is less than w away.
LEMMA FloorBounds ==
  ASSUME NEW t \in Int, NEW w \in Nat \ {0}
  PROVE  Floor(t, w) \in Int /\ Floor(t, w) <= t /\ t < Floor(t, w) + w
<1>1. t = w * (t \div w) + (t % w) /\ t % w \in 0..(w - 1) /\ t \div w \in Int
  OBVIOUS
<1>2. QED
  BY <1>1 DEF Floor

\* Later times are rounded down to no earlier ones.
LEMMA FloorMonotone ==
  ASSUME NEW t \in Int, NEW u \in Int, NEW w \in Nat \ {0}, t <= u
  PROVE  Floor(t, w) <= Floor(u, w)
<1> DEFINE a == t \div w
           b == u \div w
<1>1. a \in Int /\ b \in Int
  OBVIOUS
<1>2. a * w <= t /\ u < b * w + w
  BY FloorBounds DEF Floor
<1> HIDE DEF a, b
<1>3. CASE a <= b
  <2>1. a * w <= b * w
    BY <1>1, <1>3
  <2>2. QED
    BY <2>1 DEF Floor, a, b
<1>4. CASE b + 1 <= a
  <2>1. (b + 1) * w <= a * w
    BY <1>1, <1>4
  <2>2. (b + 1) * w = b * w + w
    BY <1>1
  <2>3. b * w \in Int /\ a * w \in Int
    BY <1>1
  <2>4. QED
    BY <1>2, <2>1, <2>2, <2>3
<1>5. QED
  BY <1>1, <1>3, <1>4

-----------------------------------------------------------------------------
(* LightningRiskHook.                                                      *)

\* Two elements make a finite set.
LEMMA PairFinite == ASSUME NEW a, NEW b PROVE IsFiniteSet({a, b})
<1>1. IsFiniteSet({a}) /\ IsFiniteSet({b})
  BY FS_Singleton
<1>2. IsFiniteSet({a} \cup {b})
  BY <1>1, FS_Union
<1>3. {a} \cup {b} = {a, b}
  OBVIOUS
<1>4. QED
  BY <1>2, <1>3

\* What Max is for two numbers.
LEMMA MaxPair ==
  ASSUME NEW a \in Int, NEW b \in Int
  PROVE  Max({a, b}) \in Int /\ Max({a, b}) = IF a >= b THEN a ELSE b
<1>1. IsFiniteSet({a, b})
  BY PairFinite
<1> DEFINE S == {a, b}
<1>2. S \in SUBSET Int /\ S # {} /\ IsFiniteSet(S)
  BY <1>1
<1>3. Max(S) \in S /\ \A y \in S : y <= Max(S)
  <2> HIDE DEF S
  <2>1. QED
    BY <1>2, Greatest
<1>4. QED
  BY <1>3

\* What Min is for two numbers.
LEMMA MinPair ==
  ASSUME NEW a \in Int, NEW b \in Int
  PROVE  Min({a, b}) \in Int /\ Min({a, b}) = IF a <= b THEN a ELSE b
<1>1. IsFiniteSet({a, b})
  BY PairFinite
<1> DEFINE S == {a, b}
<1>2. S \in SUBSET Int /\ S # {} /\ IsFiniteSet(S)
  BY <1>1
<1>3. Min(S) \in S /\ \A y \in S : Min(S) <= y
  <2> HIDE DEF S
  <2>1. QED
    BY <1>2, Least
<1>4. QED
  BY <1>3

\* The least and the greatest reading are readings.
LEMMA Extremes ==
  ASSUME NEW S, Summable(Measure, S), S # {}
  PROVE  /\ \E r \in S : Min({Measure[q] : q \in S}) = Measure[r]
         /\ \E r \in S : Max({Measure[q] : q \in S}) = Measure[r]
         /\ \A q \in S : /\ Min({Measure[r] : r \in S}) <= Measure[q]
                         /\ Measure[q] <= Max({Measure[r] : r \in S})
<1> DEFINE values == {Measure[q] : q \in S}
<1>1. IsFiniteSet(values) /\ values # {} /\ values \in SUBSET Int
  BY GroupsFinite DEF Summable
<1>2. /\ Min(values) \in values /\ \A y \in values : Min(values) <= y
      /\ Max(values) \in values /\ \A y \in values : y <= Max(values)
  <2> HIDE DEF values
  <2>1. QED
    BY <1>1, Least, Greatest
<1>3. QED
  BY <1>2

\* One more strike, not overhead, does not move the nearest one away: an unknown
\* distance counts as 40 km, but then the minimum was 0 before and still is, or below.
LEMMA NearestOfMore ==
  ASSUME NEW S, Summable(Measure, S), NEW r \in S, Measure[r] # 0, S \ {r} # {}
  PROVE  /\ Nearest(S) \in Int /\ Nearest(S \ {r}) \in Int
         /\ Nearest(S) <= Nearest(S \ {r})
<1> DEFINE R == S \ {r}
           less(T) == Min({Measure[q] : q \in T})
<1>1. Summable(Measure, R) /\ R # {} /\ R \subseteq S /\ S # {}
  <2>1. IsFiniteSet(R)
    BY FS_RemoveElement DEF Summable
  <2>2. QED
    BY <2>1 DEF Summable
<1>2. /\ \E q \in S : less(S) = Measure[q]
      /\ \A q \in S : less(S) <= Measure[q]
  BY <1>1, Extremes
<1>3. /\ \E q \in R : less(R) = Measure[q]
      /\ \A q \in R : less(R) <= Measure[q]
  <2> HIDE DEF R
  <2>1. QED
    BY <1>1, Extremes
<1>4. PICK a \in S : less(S) = Measure[a]
  BY <1>2
<1>5. PICK b \in R : less(R) = Measure[b]
  BY <1>3
<1>6. \A q \in S : Measure[q] \in Int
  BY DEF Summable
<1>7. Measure[a] <= Measure[b] /\ Measure[a] \in Int /\ Measure[b] \in Int
  BY <1>2, <1>4, <1>6
<1>8. /\ Nearest(S) = (IF Measure[a] = 0 THEN 40 ELSE Measure[a])
      /\ Nearest(R) = (IF Measure[b] = 0 THEN 40 ELSE Measure[b])
  BY <1>4, <1>5 DEF Nearest
<1>9. CASE Measure[a] = 0
  <2>1. a # r /\ a \in R
    BY <1>9
  <2>2. Measure[b] <= Measure[a]
    BY <1>3, <1>5, <2>1
  <2>3. QED
    BY <1>7, <1>8, <1>9, <2>2
<1>10. CASE Measure[b] = 0 /\ Measure[a] # 0
  BY <1>7, <1>8, <1>10
<1>11. QED
  BY <1>7, <1>8, <1>9, <1>10

\* For every finite set of strikes with whole distances, one more that is not overhead
\* does not lower the risk (LightningRiskHook).
THEOREM RiskOfMore ==
  ASSUME NEW S, Summable(Measure, S), NEW r \in S, Measure[r] # 0
  PROVE  LightningRisk(S \ {r}) <= LightningRisk(S)
<1> DEFINE R == S \ {r}
           near(T) == Max({0, 40 - Nearest(T)})
           often(T) == Min({20, Cardinality(T)})
<1>1. /\ IsFiniteSet(S) /\ IsFiniteSet(R) /\ S # {}
      /\ Cardinality(S) \in Nat /\ Cardinality(R) \in Nat
      /\ Cardinality(R) <= Cardinality(S)
  <2>1. IsFiniteSet(S) /\ S # {}
    BY DEF Summable
  <2>2. IsFiniteSet(R) /\ Cardinality(R) = Cardinality(S) - 1
    BY <2>1, FS_RemoveElement
  <2>3. Cardinality(S) \in Nat /\ Cardinality(R) \in Nat
    BY <2>1, <2>2, FS_CardinalityType
  <2>4. QED
    BY <2>1, <2>2, <2>3
<1>2. /\ often(S) \in Int /\ often(S) >= 0 /\ often(R) \in Int /\ often(R) <= often(S)
  BY <1>1, MinPair
<1>3. Nearest(S) \in Int
  <2>1. /\ \E q \in S : Min({Measure[t] : t \in S}) = Measure[q]
        /\ \A q \in S : Measure[q] \in Int
    BY <1>1, Extremes DEF Summable
  <2>2. QED
    BY <2>1 DEF Nearest
<1>4. near(S) \in Int /\ near(S) >= 0 /\ near(S) = IF 0 >= 40 - Nearest(S) THEN 0 ELSE 40 - Nearest(S)
  BY <1>3, MaxPair
<1>5. LightningRisk(S) = 15 * near(S) + 20 * often(S)
  BY <1>1 DEF LightningRisk
<1>6. CASE R = {}
  <2>1. LightningRisk(R) = 0
    BY <1>6 DEF LightningRisk
  <2> HIDE DEF R, near, often
  <2>2. QED
    BY <1>2, <1>4, <1>5, <2>1 DEF R
<1>7. CASE R # {}
  <2>1. Nearest(R) \in Int /\ Nearest(S) <= Nearest(R)
    BY <1>7, NearestOfMore
  <2>2. near(R) \in Int /\ near(R) = IF 0 >= 40 - Nearest(R) THEN 0 ELSE 40 - Nearest(R)
    <3> HIDE DEF R
    <3>1. QED
      BY <2>1, MaxPair
  <2>3. near(R) <= near(S)
    <3> HIDE DEF R, near
    <3>1. QED
      BY <1>3, <1>4, <2>1, <2>2
  <2>4. LightningRisk(R) = 15 * near(R) + 20 * often(R)
    BY <1>7 DEF LightningRisk
  <2> HIDE DEF R, near, often
  <2>5. QED
    BY <1>2, <1>4, <1>5, <2>2, <2>3, <2>4 DEF R
<1>8. QED
  BY <1>6, <1>7

-----------------------------------------------------------------------------
(* WeatherAnomalyHook.                                                     *)

\* Summable between low and high: as (high - v) * (v - low) is not negative, no square
\* is above the chord through low and high, and nor is their sum.
LEMMA SquaresBound ==
  ASSUME NEW S, Summable(Measure, S), NEW low \in Int, NEW high \in Int,
         \A r \in S : low <= Measure[r] /\ Measure[r] <= high
  PROVE  LET squares == [r \in S |-> Measure[r] * Measure[r]] IN
         /\ SumFunctionOnSet(squares, S) \in Int
         /\ SumFunctionOnSet(squares, S)
              <= (low + high) * Total(S) - Cardinality(S) * (low * high)
<1> DEFINE squares == [r \in S |-> Measure[r] * Measure[r]]
           sum(s) == SumFunctionOnSet(squares, s)
           k == low + high
           l == low * high
           Good(s) == sum(s) <= k * Total(s) - Cardinality(s) * l
           T == {s \in SUBSET S : Good(s)}
<1>0. /\ \A s \in SUBSET S : Summable(Measure, s) /\ Summable(squares, s)
      /\ k \in Int /\ l \in Int
  <2>1. \A r \in S : Measure[r] \in Int /\ squares[r] \in Int
    BY DEF Summable
  <2>2. QED
    BY <2>1, FS_Subset DEF Summable
<1>1. ASSUME NEW r \in S PROVE Measure[r] * Measure[r] <= k * Measure[r] - l
  <2> DEFINE v == Measure[r]
  <2>1. v \in Int /\ v - low >= 0 /\ high - v >= 0
    BY DEF Summable
  <2> HIDE DEF v
  <2>2. (v - low) * (high - v) >= 0
    BY <2>1
  <2>3. (v - low) * (high - v) = k * v - l - v * v
    BY <2>1
  <2>4. v * v \in Int /\ k * v \in Int
    BY <1>0, <2>1
  <2> HIDE DEF k, l
  <2>5. QED
    BY <1>0, <2>2, <2>3, <2>4 DEF v
<1>2. ASSUME NEW s \in SUBSET S, \A u \in SUBSET s : u # s => u \in T
      PROVE  Good(s)
  <2>1. CASE s = {}
    <3>1. sum(s) = 0 /\ Total(s) = 0 /\ Cardinality(s) = 0
      BY <2>1, SumEmpty, FS_EmptySet DEF Total
    <3> HIDE DEF k, l
    <3>2. QED
      BY <1>0, <3>1
  <2>2. CASE s # {}
    <3>1. PICK x \in s : TRUE
      BY <2>2
    <3> DEFINE r == s \ {x}
               v == Measure[x]
    <3>2. Good(r)
      <4>1. r \in SUBSET s /\ r # s
        BY <3>1
      <4>2. r \in T
        BY <1>2, <4>1
      <4>3. QED
        BY <4>2
    <3>3. sum(s) = v * v + sum(r) /\ sum(r) \in Int
      <4>1. squares[x] = v * v /\ Summable(squares, s) /\ Summable(squares, r)
        BY <1>0
      <4> HIDE DEF squares
      <4>2. QED
        BY <4>1, SumRemove
    <3>4. Total(s) = v + Total(r) /\ Total(r) \in Int
      <4>1. Summable(Measure, s) /\ Summable(Measure, r)
        <5>1. r \in SUBSET S
          OBVIOUS
        <5>2. QED
          BY <1>0, <5>1
      <4>2. QED
        BY <4>1, SumRemove DEF Total
    <3>5. Cardinality(s) = 1 + Cardinality(r) /\ Cardinality(r) \in Nat
      <4>1. IsFiniteSet(s)
        BY <1>0 DEF Summable
      <4>2. IsFiniteSet(r) /\ Cardinality(r) = Cardinality(s) - 1
        BY <4>1, FS_RemoveElement
      <4>3. Cardinality(s) \in Nat /\ Cardinality(r) \in Nat
        BY <4>1, <4>2, FS_CardinalityType
      <4>4. QED
        BY <4>2, <4>3
    <3>6. v \in Int /\ v * v <= k * v - l
      BY <1>1 DEF Summable
    <3> HIDE DEF sum, r, v, k, l
    <3> DEFINE a == sum(r)  b == Total(r)  n == Cardinality(r)
    <3>7. a <= k * b - n * l
      BY <3>2
    <3>8. a \in Int /\ b \in Int /\ n \in Int /\ v \in Int
      BY <3>3, <3>4, <3>5, <3>6
    <3> HIDE DEF a, b, n
    <3>9. k * (v + b) = k * v + k * b /\ (1 + n) * l = l + n * l
      BY <1>0, <3>8
    <3>10. k * v \in Int /\ k * b \in Int /\ n * l \in Int /\ v * v \in Int
      BY <1>0, <3>8
    <3>11. v * v + a <= k * (v + b) - (1 + n) * l
      BY <1>0, <3>6, <3>7, <3>8, <3>9, <3>10
    <3>12. QED
      BY <3>3, <3>4, <3>5, <3>11 DEF a, b, n
  <2>3. QED
    BY <2>1, <2>2
<1>3. \A s \in SUBSET S : s \in T
  <2> HIDE DEF Good
  <2>1. \A s \in SUBSET S : (\A u \in SUBSET s : u # s => u \in T) => s \in T
    BY <1>2
  <2> HIDE DEF T
  <2>2. QED
    BY <2>1, SubsetInduction DEF Summable
<1>4. sum(S) \in Int
  <2>1. Summable(squares, S)
    BY <1>0
  <2> HIDE DEF squares
  <2>2. QED
    BY <2>1, SumRemove
<1>5. QED
  BY <1>3, <1>4

\* The variance is at most a quarter of the square of the range: d, n * (n - 1) times
\* the variance, is at most the product of n * high - s and s - n * low, which is at
\* most a quarter of the square of their sum.
LEMMA Spread ==
  ASSUME NEW n \in Nat, n >= 2, NEW s \in Int, NEW q \in Int, NEW low \in Int, NEW high \in Int,
         q <= (low + high) * s - n * (low * high),
         NEW d \in Int, d = n * q - s * s, d # 0,
         100 * n * d >= 9 * (n - 1) * s * s
  PROVE  LET apart == n * (high - low) IN
         low # high /\ 100 * apart * apart >= 18 * s * s
<1> DEFINE a == n * high - s
           b == s - n * low
           e == n * (high - low)
           z == s * s
<1>1. a \in Int /\ b \in Int /\ e \in Int /\ z \in Int /\ z >= 0
  OBVIOUS
<1>2. d <= a * b
  <2> DEFINE bound == (low + high) * s - n * (low * high)
  <2>1. bound \in Int /\ n * q <= n * bound
    OBVIOUS
  <2>2. a * b = n * bound - s * s
    OBVIOUS
  <2>3. n * q \in Int /\ n * bound \in Int /\ s * s \in Int /\ a * b \in Int
    BY <2>1
  <2> HIDE DEF bound, a, b
  <2>4. QED
    BY <2>1, <2>2, <2>3
<1>3. 4 * d <= e * e
  <2>1. a + b = e
    OBVIOUS
  <2> HIDE DEF a, b, e
  <2>2. (a - b) * (a - b) >= 0
    BY <1>1
  <2>3. (a - b) * (a - b) = (a + b) * (a + b) - 4 * (a * b)
    BY <1>1
  <2>4. a * b \in Int /\ e * e \in Int
    BY <1>1
  <2>5. QED
    BY <1>2, <2>1, <2>2, <2>3, <2>4
<1>4. 200 * d >= 9 * z
  <2>1. 100 * (n * d) >= 9 * ((n - 1) * z)
    OBVIOUS
  <2> HIDE DEF z
  <2>2. 2 * ((n - 1) * z) = n * z + (n - 2) * z
    BY <1>1
  <2>3. (n - 2) * z >= 0
    BY <1>1
  <2>4. n * (200 * d - 9 * z) = 200 * (n * d) - 9 * (n * z)
    BY <1>1
  <2>5. n * d \in Int /\ n * z \in Int /\ (n - 1) * z \in Int /\ (n - 2) * z \in Int
    BY <1>1
  <2>6. n * (200 * d - 9 * z) >= 0
    BY <2>1, <2>2, <2>3, <2>4, <2>5
  <2>7. 200 * d - 9 * z >= 0
    <3> DEFINE x == 200 * d - 9 * z
    <3>1. x \in Int /\ n * x >= 0
      BY <1>1, <2>6
    <3> HIDE DEF x
    <3>2. x >= 0
      BY <3>1
    <3>3. QED
      BY <3>2 DEF x
  <2>8. QED
    BY <1>1, <2>7
<1>5. low # high
  <2>1. ASSUME low = high PROVE FALSE
    <3>1. e = 0
      BY <2>1
    <3>2. 4 * d <= 0
      BY <1>3, <3>1
    <3> HIDE DEF z
    <3>3. QED
      BY <1>1, <1>4, <3>2
  <2>2. QED
    BY <2>1
<1>6. 100 * (e * e) >= 18 * z
  <2>1. e * e \in Int
    BY <1>1
  <2> HIDE DEF e, z
  <2>2. QED
    BY <1>1, <1>3, <1>4, <2>1
<1>7. 100 * e * e = 100 * (e * e) /\ 18 * s * s = 18 * z
  BY <1>1
<1>8. QED
  BY <1>5, <1>6, <1>7

\* For every finite window of whole readings that WeatherAnomalyHook calls anomalous,
\* two of its rows differ by at least 0.42 of the mean.
THEOREM AnomalousRows ==
  ASSUME NEW S, Summable(Measure, S), WeatherLabel(S) = "anomalous"
  PROVE  \E r, q \in S :
           LET apart == Cardinality(S) * (Measure[r] - Measure[q]) IN
           r # q /\ 100 * apart * apart >= 18 * Total(S) * Total(S)
<1> DEFINE n == Cardinality(S)
           s == Total(S)
           d == Dispersion(S)
           squares == [r \in S |-> Measure[r] * Measure[r]]
           q == SumFunctionOnSet(squares, S)
<1>1. n # 0 /\ d # 0 /\ ~ (100 * n * d < 9 * (n - 1) * s * s)
  BY DEF WeatherLabel
<1>2. n \in Nat /\ s \in Int /\ IsFiniteSet(S)
  BY FS_CardinalityType, SumRemove DEF Summable, Total
<1>3. S # {}
  BY <1>1, FS_EmptySet
<1>4. PICK low \in S, high \in S :
        \A r \in S : Measure[low] <= Measure[r] /\ Measure[r] <= Measure[high]
  <2> DEFINE least == Min({Measure[r] : r \in S})
             most == Max({Measure[r] : r \in S})
  <2>1. /\ \E r \in S : least = Measure[r]
        /\ \E r \in S : most = Measure[r]
        /\ \A r \in S : least <= Measure[r] /\ Measure[r] <= most
    BY <1>3, Extremes
  <2> HIDE DEF least, most
  <2>2. QED
    BY <2>1
<1>5. Measure[low] \in Int /\ Measure[high] \in Int
  BY DEF Summable
<1>6. q \in Int /\ q <= (Measure[low] + Measure[high]) * s - n * (Measure[low] * Measure[high])
  BY <1>4, <1>5, SquaresBound
<1>7. d = n * q - s * s
  BY DEF Dispersion
<1>8. n >= 2
  <2>1. ASSUME n = 1 PROVE FALSE
    <3>1. PICK x : S = {x}
      BY <1>2, <2>1, FS_Singleton
    <3>2. x \in S /\ S \ {x} = {} /\ Measure[x] \in Int
      BY <3>1 DEF Summable
    <3>3. s = Measure[x]
      BY <3>2, SumRemove, SumEmpty DEF Total
    <3>4. q = Measure[x] * Measure[x]
      <4>1. squares[x] = Measure[x] * Measure[x] /\ Summable(squares, S)
        BY <3>1, <3>2 DEF Summable
      <4>2. q = squares[x] + SumFunctionOnSet(squares, S \ {x})
        <5> HIDE DEF squares
        <5>1. QED
          BY <3>2, <4>1, SumRemove
      <4>3. SumFunctionOnSet(squares, S \ {x}) = 0
        BY <3>2, SumEmpty
      <4>4. Measure[x] * Measure[x] \in Int
        BY <3>2
      <4> HIDE DEF q, squares
      <4>5. QED
        BY <4>1, <4>2, <4>3, <4>4
    <3>5. d = 1 * q - s * s
      BY <1>7, <2>1
    <3> HIDE DEF n, s, d, q
    <3>6. d = 0
      BY <3>2, <3>3, <3>4, <3>5
    <3>7. QED
      BY <1>1, <3>6
  <2> HIDE DEF n, s, d, q
  <2>2. QED
    BY <1>1, <1>2, <2>1
<1>9. d \in Int /\ 100 * n * d >= 9 * (n - 1) * s * s
  <2> HIDE DEF n, s, q, d
  <2>1. d \in Int
    BY <1>2, <1>6, <1>7
  <2>2. 100 * n * d \in Int /\ 9 * (n - 1) * s * s \in Int
    BY <1>2, <2>1
  <2>3. QED
    BY <1>1, <2>1, <2>2
<1>10. LET apart == n * (Measure[high] - Measure[low]) IN
       Measure[low] # Measure[high] /\ 100 * apart * apart >= 18 * s * s
  <2> HIDE DEF n, s, q, d
  <2>1. QED
    BY <1>1, <1>2, <1>5, <1>6, <1>7, <1>8, <1>9, Spread
<1>11. high # low
  BY <1>10
<1>12. QED
  BY <1>10, <1>11

-----------------------------------------------------------------------------
(* Histories.                                                              *)

\* A bucket begins at most its width before the rows in it.
LEMMA BucketBounds ==
  ASSUME NEW interval \in DOMAIN Width, NEW from, NEW t \in Int
  PROVE  LET b == BucketOf(interval, from, t) IN
         b \in Int /\ b <= t /\ t < b + Width[interval]
<1>1. Width[interval] \in Nat \ {0} /\ Zone \in Int
  BY SeriesConstantsOK
<1>2. t + Zone \in Int
  BY <1>1
<1>3. /\ Floor(t, Width[interval]) \in Int
      /\ Floor(t, Width[interval]) <= t /\ t < Floor(t, Width[interval]) + Width[interval]
  BY <1>1, FloorBounds
<1>4. /\ Floor(t + Zone, Width[interval]) \in Int
      /\ Floor(t + Zone, Width[interval]) <= t + Zone
      /\ t + Zone < Floor(t + Zone, Width[interval]) + Width[interval]
  BY <1>1, <1>2, FloorBounds
<1>5. QED
  BY <1>1, <1>3, <1>4 DEF BucketOf

\* Later rows are in no earlier bucket.
LEMMA BucketMonotone ==
  ASSUME NEW interval \in DOMAIN Width, NEW from, NEW t \in Int, NEW u \in Int, t <= u
  PROVE  BucketOf(interval, from, t) <= BucketOf(interval, from, u)
<1>1. Width[interval] \in Nat \ {0} /\ Zone \in Int
  BY SeriesConstantsOK
<1>2. t + Zone \in Int /\ u + Zone \in Int /\ t + Zone <= u + Zone
  BY <1>1
<1>3. Floor(t, Width[interval]) <= Floor(u, Width[interval])
  BY <1>1, FloorMonotone
<1>4. /\ Floor(t + Zone, Width[interval]) <= Floor(u + Zone, Width[interval])
      /\ Floor(t + Zone, Width[interval]) \in Int /\ Floor(u + Zone, Width[interval]) \in Int
  BY <1>1, <1>2, FloorMonotone, FloorBounds
<1>5. QED
  BY <1>1, <1>3, <1>4 DEF BucketOf

\* For every finite set of rows, interval and range, the sums of the buckets add up to
\* the sum of the raw rows of the range (_bucketed_series against raw_series).
THEOREM BucketsAddUp ==
  ASSUME NEW S, Summable(Measure, S), NEW interval, NEW from, NEW to
  PROVE  LET found == BucketedSeries(S, interval, from, to) IN
         Total(InRange(S, from, to)) = SumFunction([b \in DOMAIN found |-> found[b].sum])
<1> DEFINE R == InRange(S, from, to)
           found == BucketedSeries(S, interval, from, to)
           bucket == [r \in R |-> BucketOf(interval, from, r.at)]
           groups == {bucket[r] : r \in R}
           of(b) == {r \in R : bucket[r] = b}
           sums == [b \in groups |-> SumFunctionOnSet(Measure, of(b))]
<1>1. Summable(Measure, R)
  <2>1. R \subseteq S
    BY DEF InRange
  <2>2. QED
    BY <2>1, FS_Subset DEF Summable
<1>2. Total(R) = SumFunctionOnSet(sums, groups)
  <2> HIDE DEF R, bucket
  <2>1. QED
    BY <1>1, SumGroups DEF Total
<1>3. groups = {BucketOf(interval, from, r.at) : r \in R}
  OBVIOUS
<1>4. DOMAIN found = groups
  BY DEF BucketedSeries
<1>5. \A b \in groups : found[b].sum = sums[b]
  <2>1. ASSUME NEW b \in groups PROVE found[b].sum = sums[b]
    <3>1. of(b) = {r \in R : BucketOf(interval, from, r.at) = b}
      OBVIOUS
    <3>2. found[b].sum = Total({r \in R : BucketOf(interval, from, r.at) = b})
      BY DEF BucketedSeries
    <3>3. QED
      BY <3>1, <3>2 DEF Total
  <2>2. QED
    BY <2>1
<1>6. [b \in DOMAIN found |-> found[b].sum] = sums
  <2> HIDE DEF groups, found
  <2>1. QED
    BY <1>4, <1>5
<1>7. DOMAIN sums = groups
  OBVIOUS
<1>8. SumFunction(sums) = SumFunctionOnSet(sums, groups)
  <2> HIDE DEF sums, groups
  <2>1. QED
    BY <1>7 DEF SumFunction
<1>9. QED
  BY <1>2, <1>6, <1>8

\* For every set of rows and every zone, a bucket that lies within two ranges is the
\* same in both.
THEOREM BucketsStable ==
  ASSUME NEW S, \A r \in S : r.at \in Int, NEW interval \in DOMAIN Width,
         NEW from \in Int, NEW to \in Int, NEW from2 \in Int, NEW to2 \in Int,
         NEW b \in DOMAIN BucketedSeries(S, interval, from, to),
         from <= b, b + Width[interval] <= to, from2 <= b, b + Width[interval] <= to2
  PROVE  LET found == BucketedSeries(S, interval, from, to)
             other == BucketedSeries(S, interval, from2, to2) IN
         b \in DOMAIN other /\ other[b] = found[b]
<1> DEFINE in(f, t) == {r \in InRange(S, f, t) : BucketOf(interval, f, r.at) = b}
           all == {r \in S : BucketOf(interval, from, r.at) = b}
<1>1. ASSUME NEW f \in Int, NEW t \in Int, f <= b, b + Width[interval] <= t
      PROVE  in(f, t) = all
  <2>1. \A r \in S : BucketOf(interval, f, r.at) = BucketOf(interval, from, r.at)
    BY DEF BucketOf
  <2>2. ASSUME NEW r \in S, BucketOf(interval, from, r.at) = b
        PROVE  f <= r.at /\ r.at < t
    <3>1. b \in Int /\ b <= r.at /\ r.at < b + Width[interval] /\ r.at \in Int
      BY <2>2, BucketBounds
    <3>2. Width[interval] \in Int
      BY SeriesConstantsOK
    <3>3. QED
      BY <1>1, <3>1, <3>2
  <2>3. QED
    BY <2>1, <2>2 DEF InRange
<1>2. in(from, to) = all /\ in(from2, to2) = all
  BY <1>1
<1>3. all # {}
  BY <1>2 DEF BucketedSeries
<1>4. b \in DOMAIN BucketedSeries(S, interval, from2, to2)
  <2>1. PICK r \in in(from2, to2) : TRUE
    BY <1>2, <1>3
  <2>2. QED
    BY <2>1 DEF BucketedSeries
<1>5. /\ BucketedSeries(S, interval, from, to)[b] = [sum |-> Total(all), max |-> Highest(all)]
      /\ BucketedSeries(S, interval, from2, to2)[b] = [sum |-> Total(all), max |-> Highest(all)]
  BY <1>2, <1>4 DEF BucketedSeries
<1>6. QED
  BY <1>4, <1>5

\* For every finite set of rows, the newest one (latest) is in the last bucket of each
\* history that has it.
THEOREM NewestInLastBucket ==
  ASSUME NEW S, IsFiniteSet(S), \A r \in S : r.at \in Int, NEW interval \in DOMAIN Width,
         NEW from, NEW to, NEW r \in InRange(S, from, to), IsNewest({r}, S, 1)
  PROVE  Max(DOMAIN BucketedSeries(S, interval, from, to)) = BucketOf(interval, from, r.at)
<1> DEFINE R == InRange(S, from, to)
           bucket == [q \in R |-> BucketOf(interval, from, q.at)]
           B == {bucket[q] : q \in R}
<1>1. DOMAIN BucketedSeries(S, interval, from, to) = B
  BY DEF BucketedSeries
<1>2. R \subseteq S /\ r \in R /\ r.at \in Int
  BY DEF InRange
<1>3. \A q \in R : q.at \in Int /\ q.at <= r.at
  BY <1>2 DEF IsNewest
<1>4. \A q \in R : bucket[q] \in Int /\ bucket[q] <= bucket[r]
  <2>1. ASSUME NEW q \in R
        PROVE  /\ BucketOf(interval, from, q.at) \in Int
               /\ BucketOf(interval, from, q.at) <= BucketOf(interval, from, r.at)
    <3>1. q.at \in Int /\ r.at \in Int /\ q.at <= r.at
      BY <1>2, <1>3
    <3> HIDE DEF R
    <3>2. QED
      BY <3>1, BucketBounds, BucketMonotone
  <2>2. QED
    BY <1>2, <2>1
<1>5. IsFiniteSet(R)
  BY <1>2, FS_Subset
<1>6. IsFiniteSet(B)
  <2> HIDE DEF R, bucket
  <2>1. QED
    BY <1>5, GroupsFinite
<1>7. bucket[r] \in B /\ B \in SUBSET Int /\ \A b \in B : b <= bucket[r]
  <2> HIDE DEF bucket, R
  <2>1. QED
    BY <1>2, <1>4
<1>8. Max(B) \in B /\ \A b \in B : b <= Max(B)
  <2>1. B # {}
    BY <1>7
  <2> HIDE DEF B
  <2>2. QED
    BY <1>6, <1>7, <2>1, Greatest
<1>9. Max(B) = bucket[r]
  <2> HIDE DEF B, bucket
  <2>1. bucket[r] \in Int /\ Max(B) \in Int
    BY <1>7, <1>8
  <2>2. bucket[r] <= Max(B) /\ Max(B) <= bucket[r]
    BY <1>7, <1>8
  <2>3. QED
    BY <2>1, <2>2
<1>10. QED
  BY <1>1, <1>2, <1>9

=============================================================================
