------------------------------- MODULE Sums_proofs -------------------------------
EXTENDS Sums, FiniteSetTheorems, NaturalsInduction, WellFoundedInduction, TLAPS

Below == {p \in Nat \X Nat : p[1] < p[2]}

LEMMA BelowIsWellFounded == IsWellFoundedOn(Below, Nat)
<1>1. Below = OpToRel(<, Nat)
  BY Zenon DEF Below, OpToRel
<1> QED BY <1>1, NatLessThanWellFounded, Zenon

LEMMA LeastNatural ==
    ASSUME NEW T \in SUBSET Nat, T # {}
    PROVE  \E n \in T : \A m \in T : n <= m
<1>0. T \subseteq Nat OBVIOUS
<1>1. \E n \in T : \A m \in T : ~ (<<m, n>> \in Below)
  BY <1>0, BelowIsWellFounded, WFMin
<1>2. PICK n \in T : \A m \in T : ~ (<<m, n>> \in Below)
  BY <1>1
<1>3. \A m \in T : ~(m < n)
  BY <1>2 DEF Below
<1>4. \A m \in T : n <= m
  BY <1>3
<1> QED BY <1>4

LEMMA SetInduction ==
    ASSUME NEW S, IsFiniteSet(S), NEW G,
           \A s \in SUBSET S : (\A x \in s : s \ {x} \in G) => s \in G
    PROVE  S \in G
<1> SUFFICES ASSUME S \notin G PROVE FALSE
  OBVIOUS
<1> DEFINE bad == {s \in SUBSET S : s \notin G}
           sizes == {Cardinality(s) : s \in bad}
<1>1. \A s \in SUBSET S : IsFiniteSet(s) /\ Cardinality(s) \in Nat
  BY FS_Subset, FS_CardinalityType
<1>2. sizes \in SUBSET Nat /\ sizes # {}
  BY <1>1
<1>3. PICK n \in sizes : \A m \in sizes : n <= m
  <2> HIDE DEF sizes
  <2> QED BY <1>2, LeastNatural
<1>4. PICK s \in bad : Cardinality(s) = n
  BY <1>3
<1>5. \A x \in s : s \ {x} \in G
  <2> SUFFICES ASSUME NEW x \in s, s \ {x} \notin G PROVE FALSE
    OBVIOUS
  <2>1. Cardinality(s \ {x}) \in sizes
    OBVIOUS
  <2>2. Cardinality(s \ {x}) = Cardinality(s) - 1
    BY <1>1, <1>4, FS_RemoveElement
  <2>3. Cardinality(s) <= Cardinality(s \ {x})
    BY <1>3, <1>4, <2>1
  <2> QED BY <1>1, <2>2, <2>3
<1> QED BY <1>4, <1>5

Pick(s) == CHOOSE x \in s : TRUE
IterOf(f, h, S) ==
    f = [s \in SUBSET S |-> IF s = {} THEN 0 ELSE h[Pick(s)] + f[s \ {Pick(s)}]]
Iter(h, S) == CHOOSE f : IterOf(f, h, S)

LEMMA SumIsIter == \A h, S : SumOver(h, S) = Iter(h, S)[S]
  BY DEF SumOver, MapThenSumSet, MapThenFoldSet, Iter, IterOf, Pick

LEMMA PickIsMember == ASSUME NEW s, s # {} PROVE Pick(s) \in s
  BY DEF Pick

\* Two iterations agree on a set where the functions they add up do.
LEMMA IterationsAgree ==
    ASSUME NEW s, IsFiniteSet(s), NEW h, NEW k, NEW S, NEW R, s \subseteq S, s \subseteq R,
           \A x \in s : h[x] = k[x],
           NEW f, IterOf(f, h, S), NEW g, IterOf(g, k, R)
    PROVE  f[s] = g[s]
<1> DEFINE G == {u \in SUBSET s : f[u] = g[u]}
<1>1. ASSUME NEW u \in SUBSET s, \A x \in u : u \ {x} \in G
      PROVE  u \in G
  <2>1. u \in SUBSET S /\ u \in SUBSET R
    OBVIOUS
  <2>2. f[u] = IF u = {} THEN 0 ELSE h[Pick(u)] + f[u \ {Pick(u)}]
    BY <2>1 DEF IterOf
  <2>3. g[u] = IF u = {} THEN 0 ELSE k[Pick(u)] + g[u \ {Pick(u)}]
    BY <2>1 DEF IterOf
  <2>4. CASE u = {}
    BY <2>2, <2>3, <2>4
  <2>5. CASE u # {}
    <3>1. Pick(u) \in u
      BY <2>5, PickIsMember
    <3>2. f[u \ {Pick(u)}] = g[u \ {Pick(u)}] /\ h[Pick(u)] = k[Pick(u)]
      BY <1>1, <3>1
    <3> QED BY <2>2, <2>3, <2>5, <3>2
  <2> QED BY <2>4, <2>5
<1>2. s \in G
  <2> HIDE DEF G
  <2> QED BY <1>1, SetInduction
<1> QED BY <1>2

\* The iteration exists.
LEMMA IterationExists ==
    ASSUME NEW S, IsFiniteSet(S), NEW h, \A x \in S : h[x] \in Int
    PROVE  Iter(h, S) \in [SUBSET S -> Int] /\ IterOf(Iter(h, S), h, S)
<1> DEFINE Step(f) == [s \in SUBSET S |-> IF s = {} THEN 0 ELSE h[Pick(s)] + f[s \ {Pick(s)}]]
<1>1. \A f \in [SUBSET S -> Int] : Step(f) \in [SUBSET S -> Int]
  BY PickIsMember
<1> DEFINE Level(n) == \E f \in [SUBSET S -> Int] :
                         \A s \in SUBSET S : Cardinality(s) <= n => f[s] = Step(f)[s]
           Bad == {n \in Nat : ~Level(n)}
<1>2. \A s \in SUBSET S : IsFiniteSet(s) /\ Cardinality(s) \in Nat
  BY FS_Subset, FS_CardinalityType
<1>3. Level(0)
  <2> DEFINE f == [s \in SUBSET S |-> 0]
  <2>1. \A s \in SUBSET S : Cardinality(s) <= 0 => s = {}
    BY <1>2, FS_EmptySet
  <2>2. f \in [SUBSET S -> Int] /\ Step(f)[{}] = 0 /\ f[{}] = 0
    OBVIOUS
  <2>3. \A s \in SUBSET S : Cardinality(s) <= 0 => f[s] = Step(f)[s]
    BY <2>1, <2>2
  <2> QED BY <2>2, <2>3
<1>4. ASSUME NEW n \in Nat, Level(n) PROVE Level(n + 1)
  <2>1. PICK f \in [SUBSET S -> Int] :
           \A s \in SUBSET S : Cardinality(s) <= n => f[s] = Step(f)[s]
    BY <1>4
  <2> DEFINE g == Step(f)
  <2>2. g \in [SUBSET S -> Int]
    BY <1>1
  <2>3. ASSUME NEW s \in SUBSET S, Cardinality(s) <= n + 1 PROVE g[s] = Step(g)[s]
    <3>1. CASE s = {}
      BY <3>1
    <3>2. CASE s # {}
      <4>1. Pick(s) \in s
        BY <3>2, PickIsMember
      <4>2. Cardinality(s \ {Pick(s)}) = Cardinality(s) - 1 /\ s \ {Pick(s)} \in SUBSET S
        BY <4>1, <1>2, FS_RemoveElement
      <4>3. Cardinality(s \ {Pick(s)}) <= n
        BY <4>2, <2>3, <1>2
      <4>4. f[s \ {Pick(s)}] = g[s \ {Pick(s)}]
        BY <2>1, <4>2, <4>3
      <4>5. g[s] = h[Pick(s)] + f[s \ {Pick(s)}]
        BY <3>2
      <4>6. Step(g)[s] = h[Pick(s)] + g[s \ {Pick(s)}]
        BY <3>2
      <4> QED BY <4>4, <4>5, <4>6
    <3> QED BY <3>1, <3>2
  <2> HIDE DEF g
  <2>4. \A s \in SUBSET S : Cardinality(s) <= n + 1 => g[s] = Step(g)[s]
    BY <2>3
  <2> QED BY <2>2, <2>4
<1>5. Bad = {}
  <2> SUFFICES ASSUME Bad # {} PROVE FALSE
    OBVIOUS
  <2>1. PICK n \in Bad : \A m \in Bad : n <= m
    <3>1. Bad \in SUBSET Nat
      OBVIOUS
    <3> HIDE DEF Bad
    <3> QED BY <3>1, LeastNatural
  <2> HIDE DEF Level
  <2>2. n \in Nat /\ ~Level(n) /\ n # 0
    BY <2>1, <1>3
  <2>3. n - 1 \in Nat /\ n - 1 \notin Bad
    BY <2>1, <2>2
  <2>4. Level(n - 1)
    BY <2>3
  <2>5. Level((n - 1) + 1)
    BY <1>4, <2>3, <2>4
  <2>6. (n - 1) + 1 = n
    BY <2>2
  <2> QED BY <2>2, <2>5, <2>6
<1>6. Level(Cardinality(S))
  BY <1>2, <1>5
<1>7. PICK f \in [SUBSET S -> Int] :
         \A s \in SUBSET S : Cardinality(s) <= Cardinality(S) => f[s] = Step(f)[s]
  BY <1>6
<1>8. \A s \in SUBSET S : f[s] = Step(f)[s]
  BY <1>7, FS_Subset
<1>9. f = Step(f)
  <2>1. Step(f) \in [SUBSET S -> Int]
    BY <1>1
  <2> HIDE DEF Step
  <2> QED BY <1>8, <2>1
<1>10. IterOf(f, h, S)
  BY <1>9 DEF IterOf
<1>11. IterOf(Iter(h, S), h, S)
  BY <1>10 DEF Iter
<1>12. \A s \in SUBSET S : Iter(h, S)[s] = f[s]
  BY <1>2, <1>10, <1>11, IterationsAgree
<1>13. Iter(h, S) = [s \in SUBSET S |-> Iter(h, S)[s]]
  BY <1>11 DEF IterOf
<1> QED BY <1>11, <1>12, <1>13


LEMMA SumsAgree ==
    ASSUME NEW S, IsFiniteSet(S), NEW h, NEW k, \A x \in S : h[x] \in Int /\ h[x] = k[x]
    PROVE  SumOver(h, S) = SumOver(k, S)
<1>1. IterOf(Iter(h, S), h, S) /\ IterOf(Iter(k, S), k, S)
  BY IterationExists
<1>2. Iter(h, S)[S] = Iter(k, S)[S]
  BY <1>1, IterationsAgree
<1> QED BY <1>2, SumIsIter

LEMMA SumEmpty == \A h : SumOver(h, {}) = 0
<1> SUFFICES ASSUME NEW h PROVE SumOver(h, {}) = 0
  OBVIOUS
<1>1. IterOf(Iter(h, {}), h, {})
  BY IterationExists, FS_EmptySet
<1>2. Iter(h, {})[{}] = 0
  BY <1>1 DEF IterOf
<1> QED BY <1>2, SumIsIter

LEMMA SumIsInt ==
    ASSUME NEW S, IsFiniteSet(S), NEW h, \A x \in S : h[x] \in Int
    PROVE  SumOver(h, S) \in Int
BY IterationExists, SumIsIter

LEMMA SumStep ==
    ASSUME NEW S, IsFiniteSet(S), S # {}, NEW h, \A x \in S : h[x] \in Int
    PROVE  SumOver(h, S) = h[Pick(S)] + SumOver(h, S \ {Pick(S)})
<1> DEFINE u == S \ {Pick(S)}
<1>1. IsFiniteSet(u) /\ u \subseteq S
  BY FS_Subset
<1>2. IterOf(Iter(h, S), h, S) /\ IterOf(Iter(h, u), h, u)
  BY <1>1, IterationExists
<1>3. Iter(h, S)[u] = Iter(h, u)[u]
  <2> HIDE DEF u
  <2> QED BY <1>1, <1>2, IterationsAgree
<1>4. Iter(h, S)[S] = h[Pick(S)] + Iter(h, S)[u]
  BY <1>2 DEF IterOf
<1> QED BY <1>3, <1>4, SumIsIter

\* Any member may be taken out first.
LEMMA SumTake ==
    ASSUME NEW S, IsFiniteSet(S), NEW h, \A x \in S : h[x] \in Int
    PROVE  \A x \in S : SumOver(h, S) = h[x] + SumOver(h, S \ {x})
<1> DEFINE G == {s \in SUBSET S : \A x \in s : SumOver(h, s) = h[x] + SumOver(h, s \ {x})}
<1>1. ASSUME NEW s \in SUBSET S, \A x \in s : s \ {x} \in G
      PROVE  s \in G
  <2> SUFFICES ASSUME NEW x \in s PROVE SumOver(h, s) = h[x] + SumOver(h, s \ {x})
    OBVIOUS
  <2> DEFINE p == Pick(s)
  <2>1. p \in s
    BY PickIsMember
  <2> HIDE DEF p
  <2>2. \A u \in SUBSET S : SumOver(h, u) \in Int
    BY SumIsInt, FS_Subset
  <2>3. SumOver(h, s) = h[p] + SumOver(h, s \ {p})
    BY SumStep, FS_Subset DEF p
  <2>4. CASE x = p
    BY <2>3, <2>4
  <2>5. CASE x # p
    <3>1. SumOver(h, s \ {p}) = h[x] + SumOver(h, (s \ {p}) \ {x})
      BY <1>1, <2>1, <2>5
    <3>2. SumOver(h, s \ {x}) = h[p] + SumOver(h, (s \ {x}) \ {p})
      BY <1>1, <2>1, <2>5
    <3>3. (s \ {x}) \ {p} = (s \ {p}) \ {x}
      OBVIOUS
    <3>4. h[x] \in Int /\ h[p] \in Int /\ SumOver(h, (s \ {p}) \ {x}) \in Int
      BY <2>1, <2>2
    <3>5. SumOver(h, s \ {x}) = h[p] + SumOver(h, (s \ {p}) \ {x})
      BY <3>2, <3>3
    <3> HIDE DEF G
    <3> QED BY <2>3, <3>1, <3>4, <3>5
  <2> QED BY <2>4, <2>5
<1>2. S \in G
  <2> HIDE DEF G
  <2> QED BY <1>1, SetInduction
<1> QED BY <1>2

LEMMA SumIsNat ==
    ASSUME NEW S, IsFiniteSet(S), NEW h, \A x \in S : h[x] \in Nat
    PROVE  SumOver(h, S) \in Nat
<1> DEFINE G == {s \in SUBSET S : SumOver(h, s) \in Nat}
<1>1. ASSUME NEW s \in SUBSET S, \A x \in s : s \ {x} \in G
      PROVE  s \in G
  <2>1. CASE s = {}
    BY <2>1, SumEmpty
  <2>2. CASE s # {}
    <3>1. PICK x \in s : TRUE
      BY <2>2
    <3>2. SumOver(h, s) = h[x] + SumOver(h, s \ {x})
      BY SumTake, FS_Subset, \A y \in s : h[y] \in Int
    <3> QED BY <1>1, <3>2
  <2> QED BY <2>1, <2>2
<1>2. S \in G
  <2> HIDE DEF G
  <2> QED BY <1>1, SetInduction
<1> QED BY <1>2

LEMMA SumOfUnion ==
    ASSUME NEW S, IsFiniteSet(S), NEW R, IsFiniteSet(R), S \cap R = {},
           NEW h, \A x \in S \cup R : h[x] \in Int
    PROVE  SumOver(h, S \cup R) = SumOver(h, S) + SumOver(h, R)
<1> DEFINE G == {s \in SUBSET S : SumOver(h, s \cup R) = SumOver(h, s) + SumOver(h, R)}
<1>0. \A u \in SUBSET (S \cup R) : IsFiniteSet(u) /\ SumOver(h, u) \in Int
  BY SumIsInt, FS_Subset, FS_Union
<1>1. ASSUME NEW s \in SUBSET S, \A x \in s : s \ {x} \in G
      PROVE  s \in G
  <2>1. CASE s = {}
    BY <2>1, SumEmpty, <1>0
  <2>2. CASE s # {}
    <3>1. PICK x \in s : TRUE
      BY <2>2
    <3>2. SumOver(h, s) = h[x] + SumOver(h, s \ {x})
      BY SumTake, <1>0
    <3>3. (s \cup R) \ {x} = (s \ {x}) \cup R
      OBVIOUS
    <3>4. SumOver(h, s \cup R) = h[x] + SumOver(h, (s \ {x}) \cup R)
      BY <1>0, <3>3, SumTake
    <3>5. SumOver(h, (s \ {x}) \cup R) = SumOver(h, s \ {x}) + SumOver(h, R)
      BY <1>1
    <3>6. h[x] \in Int /\ SumOver(h, s \ {x}) \in Int /\ SumOver(h, R) \in Int
      BY <1>0
    <3>7. SumOver(h, s \cup R) = h[x] + SumOver(h, s \ {x}) + SumOver(h, R)
      BY <3>4, <3>5, <3>6
    <3>8. SumOver(h, s \cup R) = SumOver(h, s) + SumOver(h, R)
      BY <3>2, <3>7
    <3> QED BY <3>8
  <2> QED BY <2>1, <2>2
<1>2. S \in G
  <2> HIDE DEF G
  <2> QED BY <1>1, SetInduction
<1> QED BY <1>2

LEMMA SumOfPart ==
    ASSUME NEW S, IsFiniteSet(S), NEW h, \A x \in S : h[x] \in Int, NEW R \in SUBSET S
    PROVE  SumOver(h, S) = SumOver(h, R) + SumOver(h, S \ R)
<1>1. IsFiniteSet(R) /\ IsFiniteSet(S \ R) /\ R \cap (S \ R) = {} /\ S = R \cup (S \ R)
  BY FS_Subset
<1>2. SumOver(h, R \cup (S \ R)) = SumOver(h, R) + SumOver(h, S \ R)
  BY <1>1, SumOfUnion
<1> QED BY <1>1, <1>2

LEMMA SumOfPartIsLess ==
    ASSUME NEW S, IsFiniteSet(S), NEW h, \A x \in S : h[x] \in Nat, NEW R \in SUBSET S
    PROVE  SumOver(h, R) <= SumOver(h, S)
<1>1. IsFiniteSet(R) /\ IsFiniteSet(S \ R)
  BY FS_Subset
<1>2. SumOver(h, R) \in Nat /\ SumOver(h, S \ R) \in Nat
  BY <1>1, SumIsNat
<1>3. SumOver(h, S) = SumOver(h, R) + SumOver(h, S \ R)
  BY SumOfPart
<1> QED BY <1>2, <1>3

LEMMA SumOfZeros ==
    ASSUME NEW S, IsFiniteSet(S), NEW h, \A x \in S : h[x] = 0
    PROVE  SumOver(h, S) = 0
<1> DEFINE G == {s \in SUBSET S : SumOver(h, s) = 0}
<1>1. ASSUME NEW s \in SUBSET S, \A x \in s : s \ {x} \in G
      PROVE  s \in G
  <2>1. CASE s = {}
    BY <2>1, SumEmpty
  <2>2. CASE s # {}
    <3>1. PICK x \in s : TRUE
      BY <2>2
    <3>2. SumOver(h, s) = h[x] + SumOver(h, s \ {x})
      BY SumTake, FS_Subset, \A y \in s : h[y] \in Int
    <3> QED BY <1>1, <3>2
  <2> QED BY <2>1, <2>2
<1>2. S \in G
  <2> HIDE DEF G
  <2> QED BY <1>1, SetInduction
<1> QED BY <1>2

LEMMA SumAbove ==
    ASSUME NEW S, IsFiniteSet(S), NEW h, \A x \in S : h[x] \in Nat
    PROVE  \A x \in S : h[x] <= SumOver(h, S)
<1> SUFFICES ASSUME NEW x \in S PROVE h[x] <= SumOver(h, S)
  OBVIOUS
<1>1. SumOver(h, S) = h[x] + SumOver(h, S \ {x})
  BY SumTake
<1>2. SumOver(h, S \ {x}) \in Nat
  BY SumIsNat, FS_Subset
<1> QED BY <1>1, <1>2

\* One value changed.
LEMMA SumUpdate ==
    ASSUME NEW S, IsFiniteSet(S), NEW h, NEW k, NEW x \in S,
           \A y \in S : h[y] \in Int, k[x] \in Int, \A y \in S \ {x} : k[y] = h[y]
    PROVE  SumOver(k, S) = SumOver(h, S) - h[x] + k[x]
<1>1. SumOver(h, S) = h[x] + SumOver(h, S \ {x})
  BY SumTake
<1>2. \A y \in S : k[y] \in Int
  OBVIOUS
<1>3. SumOver(k, S) = k[x] + SumOver(k, S \ {x})
  BY <1>2, SumTake
<1>4. IsFiniteSet(S \ {x})
  BY FS_Subset
<1>5. SumOver(k, S \ {x}) = SumOver(h, S \ {x})
  BY <1>4, SumsAgree
<1>6. SumOver(h, S \ {x}) \in Int
  BY <1>4, SumIsInt
<1> QED BY <1>1, <1>3, <1>5, <1>6
=================================================================================
