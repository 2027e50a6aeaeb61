---------------------------- MODULE SumTheorems ----------------------------
(***************************************************************************)
(* What the sums of the community modules compute: the value of             *)
(* SumFunctionOnSet does not depend on the order in which the elements are   *)
(* taken.  The folds are recursive functions over the subsets of a set; that *)
(* such a function exists and what it returns is shown with a smallest       *)
(* subset for which it would not hold.                                       *)
(***************************************************************************)
EXTENDS Naturals, FiniteSets, Functions, FiniteSetTheorems, TLAPS

\* Among some subsets of a finite set there is one with none of the others inside.
LEMMA SmallestSubset ==
  ASSUME NEW S, IsFiniteSet(S), NEW T \in SUBSET SUBSET S, T # {}
  PROVE  \E m \in T : \A y \in T : y \subseteq m => y = m
<1>1. FiniteSubsetsOf(S) = SUBSET S
  BY FS_FiniteSubsetsOfFinite
<1>2. PICK m \in T : \A y \in T : ~(<<y, m>> \in StrictSubsetOrdering(S))
  BY <1>1, WFMin, FS_StrictSubsetOrderingWellFounded
<1>3. ASSUME NEW y \in T, y \subseteq m, y # m PROVE FALSE
  <2>1. <<y, m>> \in StrictSubsetOrdering(S)
    BY <1>3 DEF StrictSubsetOrdering
  <2> QED
    BY <1>2, <2>1
<1> QED
  BY <1>3

\* The element that a fold takes next.
Pick(s) == CHOOSE x \in s : TRUE

LEMMA PickIn == ASSUME NEW s, s # {} PROVE Pick(s) \in s
BY DEF Pick

\* g sums f over every subset of S, taking one element after the other.
Sums(f, S, g) ==
  g = [s \in SUBSET S |-> IF s = {} THEN 0 ELSE f[Pick(s)] + g[s \ {Pick(s)}]]

LEMMA SumIsFold ==
  ASSUME NEW f, NEW S
  PROVE  SumFunctionOnSet(f, S) = (CHOOSE g : Sums(f, S, g))[S]
BY Zenon DEF SumFunctionOnSet, FoldFunctionOnSet, MapThenFoldSet, Sums, Pick

\* What the recursion says of one subset.
LEMMA SumsAt ==
  ASSUME NEW f, NEW S, NEW g, Sums(f, S, g), NEW s \in SUBSET S
  PROVE  /\ s = {} => g[s] = 0
         /\ s # {} => g[s] = f[Pick(s)] + g[s \ {Pick(s)}]
BY DEF Sums

\* There is at most one such function.
LEMMA SumsUnique ==
  ASSUME NEW f, NEW S, IsFiniteSet(S), NEW g, NEW h, Sums(f, S, g), Sums(f, S, h)
  PROVE  g = h
<1> DEFINE T == {s \in SUBSET S : g[s] # h[s]}
<1>1. ASSUME T # {} PROVE FALSE
  <2>1. T \in SUBSET SUBSET S
    OBVIOUS
  <2>2. PICK m \in T : \A y \in T : y \subseteq m => y = m
    <3> HIDE DEF T
    <3> QED
      BY <1>1, <2>1, SmallestSubset
  <2>3. m # {}
    BY SumsAt
  <2>4. m \ {Pick(m)} \subseteq m /\ m \ {Pick(m)} # m
    BY <2>3, PickIn
  <2>5. m \ {Pick(m)} \notin T
    BY <2>2, <2>4
  <2>6. g[m \ {Pick(m)}] = h[m \ {Pick(m)}]
    BY <2>5
  <2> QED
    BY <2>3, <2>6, SumsAt
<1>2. \A s \in SUBSET S : g[s] = h[s]
  BY <1>1
<1>3. /\ g = [s \in SUBSET S |-> IF s = {} THEN 0 ELSE f[Pick(s)] + g[s \ {Pick(s)}]]
      /\ h = [s \in SUBSET S |-> IF s = {} THEN 0 ELSE f[Pick(s)] + h[s \ {Pick(s)}]]
  BY DEF Sums
<1>4. g = [s \in SUBSET S |-> g[s]] /\ h = [s \in SUBSET S |-> h[s]]
  BY <1>3
<1> QED
  BY <1>2, <1>4

\* Summing inside a smaller set gives the same values.
LEMMA SumsRestrict ==
  ASSUME NEW f, NEW S, NEW g, Sums(f, S, g), NEW U \in SUBSET S
  PROVE  Sums(f, U, [s \in SUBSET U |-> g[s]])
<1> DEFINE h == [s \in SUBSET U |-> g[s]]
<1>1. ASSUME NEW s \in SUBSET U
      PROVE  h[s] = IF s = {} THEN 0 ELSE f[Pick(s)] + h[s \ {Pick(s)}]
  <2>1. s \in SUBSET S /\ s \ {Pick(s)} \in SUBSET U /\ h[s] = g[s] /\ h[s \ {Pick(s)}] = g[s \ {Pick(s)}]
    OBVIOUS
  <2> QED
    BY <2>1, SumsAt
<1>2. h = [s \in SUBSET U |-> IF s = {} THEN 0 ELSE f[Pick(s)] + h[s \ {Pick(s)}]]
  BY <1>1
<1> QED
  BY <1>2 DEF Sums

\* There is such a function.
LEMMA SumsExist ==
  ASSUME NEW f, NEW S, IsFiniteSet(S)
  PROVE  \E g : Sums(f, S, g)
<1> DEFINE T == {s \in SUBSET S : ~\E g : Sums(f, s, g)}
           Of(s) == CHOOSE g : Sums(f, s, g)
<1>1. ASSUME T # {} PROVE FALSE
  <2>1. T \in SUBSET SUBSET S
    OBVIOUS
  <2>2. PICK m \in T : \A y \in T : y \subseteq m => y = m
    <3> HIDE DEF T
    <3> QED
      BY <1>1, <2>1, SmallestSubset
  <2>3. m \in SUBSET S /\ ~\E g : Sums(f, m, g)
    OBVIOUS
  <2>4. ASSUME NEW s \in SUBSET m, s # m PROVE Sums(f, s, Of(s)) /\ IsFiniteSet(s)
    <3>1. \E g : Sums(f, s, g)
      BY <2>2, <2>3, <2>4
    <3>2. IsFiniteSet(s)
      BY <2>3, FS_Subset
    <3> QED
      BY <3>1, <3>2
  <2> DEFINE G == [s \in SUBSET m |->
                     IF s = {} THEN 0
                     ELSE IF s = m THEN f[Pick(m)] + Of(m \ {Pick(m)})[m \ {Pick(m)}] ELSE Of(s)[s]]
  <2>5. ASSUME NEW s \in SUBSET m, s # m, s # {}
        PROVE  Of(s)[s] = f[Pick(s)] + Of(s \ {Pick(s)})[s \ {Pick(s)}]
    <3> DEFINE u == s \ {Pick(s)}
    <3>1. u \in SUBSET s /\ u \in SUBSET m /\ u # m
      BY <2>5, PickIn
    <3>2. Sums(f, s, Of(s)) /\ Sums(f, u, Of(u)) /\ IsFiniteSet(u)
      BY <2>4, <2>5, <3>1
    <3> HIDE DEF Of
    <3>3. Sums(f, u, [v \in SUBSET u |-> Of(s)[v]])
      <4> HIDE DEF u
      <4> QED
        BY <3>1, <3>2, SumsRestrict
    <3>4. [v \in SUBSET u |-> Of(s)[v]] = Of(u)
      <4> HIDE DEF u
      <4> QED
        BY <3>2, <3>3, SumsUnique
    <3>5. Of(s)[u] = Of(u)[u]
      BY <3>4
    <3>6. Of(s)[s] = f[Pick(s)] + Of(s)[u]
      BY <2>5, <3>2, SumsAt
    <3> QED
      BY <3>5, <3>6
  <2> HIDE DEF Of
  <2>6. ASSUME NEW s \in SUBSET m
        PROVE  G[s] = IF s = {} THEN 0 ELSE f[Pick(s)] + G[s \ {Pick(s)}]
    <3>1. CASE s = {}
      BY <3>1
    <3>2. CASE s # {}
      <4> DEFINE u == s \ {Pick(s)}
      <4>1. u \in SUBSET m /\ u # m
        BY <3>2, PickIn
      <4>2. G[u] = Of(u)[u]
        <5>1. CASE u = {}
          <6>1. Of(u)[u] = 0
            <7>1. Sums(f, u, Of(u))
              BY <2>4, <4>1
            <7> QED
              BY <5>1, <7>1, SumsAt
          <6>2. G[u] = 0
            BY <4>1, <5>1
          <6> QED
            BY <6>1, <6>2
        <5>2. CASE u # {}
          BY <4>1, <5>2
        <5> QED
          BY <5>1, <5>2
      <4>3. CASE s = m
        BY <3>2, <4>2, <4>3
      <4>4. CASE s # m
        BY <2>5, <3>2, <4>2, <4>4
      <4> QED
        BY <4>3, <4>4
    <3> QED
      BY <3>1, <3>2
  <2>7. G = [s \in SUBSET m |-> IF s = {} THEN 0 ELSE f[Pick(s)] + G[s \ {Pick(s)}]]
    BY <2>6
  <2>8. Sums(f, m, G)
    BY <2>7 DEF Sums
  <2> QED
    BY <2>3, <2>8
<1> QED
  BY <1>1

\* The sum of nothing, and the sum with the element that the fold takes first.
LEMMA SumUnfolds ==
  ASSUME NEW f, NEW S, IsFiniteSet(S)
  PROVE  /\ S = {} => SumFunctionOnSet(f, S) = 0
         /\ S # {} => SumFunctionOnSet(f, S) = f[Pick(S)] + SumFunctionOnSet(f, S \ {Pick(S)})
<1> DEFINE Of(s) == CHOOSE g : Sums(f, s, g)
           u == S \ {Pick(S)}
<1>1. u \in SUBSET S /\ IsFiniteSet(u)
  BY FS_Subset
<1>2. Sums(f, S, Of(S)) /\ Sums(f, u, Of(u))
  BY <1>1, SumsExist
<1>3. SumFunctionOnSet(f, S) = Of(S)[S] /\ SumFunctionOnSet(f, u) = Of(u)[u]
  BY SumIsFold
<1> HIDE DEF Of
<1>4. Of(S)[u] = Of(u)[u]
  <2> HIDE DEF u
  <2>1. Sums(f, u, [v \in SUBSET u |-> Of(S)[v]])
    BY <1>1, <1>2, SumsRestrict
  <2>2. [v \in SUBSET u |-> Of(S)[v]] = Of(u)
    BY <1>1, <1>2, <2>1, SumsUnique
  <2> QED
    BY <2>2
<1>5. /\ S = {} => Of(S)[S] = 0
      /\ S # {} => Of(S)[S] = f[Pick(S)] + Of(S)[u]
  BY <1>2, SumsAt
<1> QED
  BY <1>3, <1>4, <1>5

\* A sum of naturals is one.
LEMMA SumIsNat ==
  ASSUME NEW f, NEW S, IsFiniteSet(S), \A x \in S : f[x] \in Nat
  PROVE  SumFunctionOnSet(f, S) \in Nat
<1> DEFINE T == {s \in SUBSET S : SumFunctionOnSet(f, s) \notin Nat}
<1>1. ASSUME T # {} PROVE FALSE
  <2>1. T \in SUBSET SUBSET S
    OBVIOUS
  <2>2. PICK m \in T : \A y \in T : y \subseteq m => y = m
    <3> HIDE DEF T
    <3> QED
      BY <1>1, <2>1, SmallestSubset
  <2>3. m \in SUBSET S /\ IsFiniteSet(m) /\ SumFunctionOnSet(f, m) \notin Nat
    BY FS_Subset
  <2>4. m # {}
    <3>1. m = {} => SumFunctionOnSet(f, m) = 0
      BY <2>3, SumUnfolds
    <3> QED
      BY <2>3, <3>1
  <2>5. Pick(m) \in m /\ m \ {Pick(m)} \subseteq m /\ m \ {Pick(m)} # m
    BY <2>4, PickIn
  <2>6. SumFunctionOnSet(f, m \ {Pick(m)}) \in Nat
    BY <2>2, <2>3, <2>5
  <2>7. SumFunctionOnSet(f, m) = f[Pick(m)] + SumFunctionOnSet(f, m \ {Pick(m)})
    BY <2>3, <2>4, SumUnfolds
  <2> QED
    BY <2>3, <2>5, <2>6, <2>7
<1> QED
  BY <1>1

\* The order does not matter: any element may be taken first.
LEMMA SumRemove ==
  ASSUME NEW f, NEW S, IsFiniteSet(S), \A x \in S : f[x] \in Nat, NEW y \in S
  PROVE  SumFunctionOnSet(f, S) = f[y] + SumFunctionOnSet(f, S \ {y})
<1> DEFINE T == {s \in SUBSET S : \E z \in s : SumFunctionOnSet(f, s) # f[z] + SumFunctionOnSet(f, s \ {z})}
<1>1. ASSUME T # {} PROVE FALSE
  <2>1. T \in SUBSET SUBSET S
    OBVIOUS
  <2>2. PICK m \in T : \A w \in T : w \subseteq m => w = m
    <3> HIDE DEF T
    <3> QED
      BY <1>1, <2>1, SmallestSubset
  <2>3. PICK z \in m : SumFunctionOnSet(f, m) # f[z] + SumFunctionOnSet(f, m \ {z})
    OBVIOUS
  <2>4. m \in SUBSET S /\ IsFiniteSet(m)
    BY FS_Subset
  <2> DEFINE x == Pick(m)
  <2>5. x \in m /\ SumFunctionOnSet(f, m) = f[x] + SumFunctionOnSet(f, m \ {x})
    BY <2>4, SumUnfolds, PickIn
  <2> HIDE DEF x
  <2>6. x # z
    BY <2>3, <2>5
  <2>7. SumFunctionOnSet(f, m \ {x}) = f[z] + SumFunctionOnSet(f, (m \ {x}) \ {z})
    <3>1. m \ {x} \in SUBSET S /\ m \ {x} \subseteq m /\ m \ {x} # m /\ z \in m \ {x}
      BY <2>4, <2>5, <2>6
    <3> QED
      BY <2>2, <3>1
  <2>8. SumFunctionOnSet(f, m \ {z}) = f[x] + SumFunctionOnSet(f, (m \ {z}) \ {x})
    <3>1. m \ {z} \in SUBSET S /\ m \ {z} \subseteq m /\ m \ {z} # m /\ x \in m \ {z}
      BY <2>4, <2>5, <2>6
    <3> QED
      BY <2>2, <3>1
  <2>9. (m \ {x}) \ {z} = (m \ {z}) \ {x}
    OBVIOUS
  <2>10. f[x] \in Nat /\ f[z] \in Nat /\ SumFunctionOnSet(f, (m \ {z}) \ {x}) \in Nat
    <3>1. (m \ {z}) \ {x} \in SUBSET S /\ IsFiniteSet((m \ {z}) \ {x})
      BY <2>4, FS_Subset
    <3>2. SumFunctionOnSet(f, (m \ {z}) \ {x}) \in Nat
      BY <3>1, SumIsNat
    <3> QED
      BY <2>4, <2>5, <3>2
  <2>11. SumFunctionOnSet(f, m) = f[x] + (f[z] + SumFunctionOnSet(f, (m \ {z}) \ {x}))
    BY <2>5, <2>7, <2>9
  <2>12. f[z] + SumFunctionOnSet(f, m \ {z}) = f[z] + (f[x] + SumFunctionOnSet(f, (m \ {z}) \ {x}))
    BY <2>8
  <2>13. \A a, b, c \in Nat : a + (b + c) = b + (a + c)
    OBVIOUS
  <2> QED
    BY <2>3, <2>10, <2>11, <2>12, <2>13, Zenon
<1>2. S \notin T
  BY <1>1
<1> QED
  BY <1>2

\* A sum depends on the values at its indices only.
LEMMA SumSame ==
  ASSUME NEW f, NEW g, NEW S, IsFiniteSet(S), \A x \in S : f[x] = g[x]
  PROVE  SumFunctionOnSet(f, S) = SumFunctionOnSet(g, S)
<1> DEFINE T == {s \in SUBSET S : SumFunctionOnSet(f, s) # SumFunctionOnSet(g, s)}
<1>1. ASSUME T # {} PROVE FALSE
  <2>1. T \in SUBSET SUBSET S
    OBVIOUS
  <2>2. PICK m \in T : \A y \in T : y \subseteq m => y = m
    <3> HIDE DEF T
    <3> QED
      BY <1>1, <2>1, SmallestSubset
  <2>3. m \in SUBSET S /\ IsFiniteSet(m) /\ SumFunctionOnSet(f, m) # SumFunctionOnSet(g, m)
    BY FS_Subset
  <2>4. m # {}
    BY <2>3, SumUnfolds
  <2>5. Pick(m) \in m /\ m \ {Pick(m)} \subseteq m /\ m \ {Pick(m)} # m
    BY <2>4, PickIn
  <2>6. SumFunctionOnSet(f, m \ {Pick(m)}) = SumFunctionOnSet(g, m \ {Pick(m)})
    BY <2>2, <2>3, <2>5
  <2>7. /\ SumFunctionOnSet(f, m) = f[Pick(m)] + SumFunctionOnSet(f, m \ {Pick(m)})
        /\ SumFunctionOnSet(g, m) = g[Pick(m)] + SumFunctionOnSet(g, m \ {Pick(m)})
    BY <2>3, <2>4, SumUnfolds
  <2> QED
    BY <2>3, <2>5, <2>6, <2>7
<1> QED
  BY <1>1

\* Zeros sum to zero.
LEMMA SumOfZeros ==
  ASSUME NEW f, NEW S, IsFiniteSet(S), \A x \in S : f[x] = 0
  PROVE  SumFunctionOnSet(f, S) = 0
<1> DEFINE T == {s \in SUBSET S : SumFunctionOnSet(f, s) # 0}
<1>1. ASSUME T # {} PROVE FALSE
  <2>1. T \in SUBSET SUBSET S
    OBVIOUS
  <2>2. PICK m \in T : \A y \in T : y \subseteq m => y = m
    <3> HIDE DEF T
    <3> QED
      BY <1>1, <2>1, SmallestSubset
  <2>3. m \in SUBSET S /\ IsFiniteSet(m) /\ SumFunctionOnSet(f, m) # 0
    BY FS_Subset
  <2>4. m # {}
    BY <2>3, SumUnfolds
  <2>5. Pick(m) \in m /\ m \ {Pick(m)} \subseteq m /\ m \ {Pick(m)} # m
    BY <2>4, PickIn
  <2>6. SumFunctionOnSet(f, m \ {Pick(m)}) = 0
    BY <2>2, <2>3, <2>5
  <2>7. SumFunctionOnSet(f, m) = f[Pick(m)] + SumFunctionOnSet(f, m \ {Pick(m)})
    BY <2>3, <2>4, SumUnfolds
  <2> QED
    BY <2>3, <2>5, <2>6, <2>7
<1> QED
  BY <1>1

\* Two functions that differ at one index only.
LEMMA SumChange ==
  ASSUME NEW f, NEW g, NEW S, IsFiniteSet(S), NEW y \in S,
         \A x \in S : f[x] \in Nat, \A x \in S : g[x] \in Nat,
         \A x \in S : x # y => g[x] = f[x]
  PROVE  SumFunctionOnSet(g, S) + f[y] = SumFunctionOnSet(f, S) + g[y]
<1> DEFINE u == S \ {y}
<1>1. IsFiniteSet(u) /\ u \subseteq S
  BY FS_Subset
<1>2. SumFunctionOnSet(f, S) = f[y] + SumFunctionOnSet(f, u)
  BY SumRemove
<1>3. SumFunctionOnSet(g, S) = g[y] + SumFunctionOnSet(g, u)
  BY SumRemove
<1>4. SumFunctionOnSet(f, u) = SumFunctionOnSet(g, u)
  <2>1. \A x \in u : f[x] = g[x]
    OBVIOUS
  <2> HIDE DEF u
  <2> QED
    BY <1>1, <2>1, SumSame
<1>5. SumFunctionOnSet(f, u) \in Nat /\ f[y] \in Nat /\ g[y] \in Nat
  <2>1. \A x \in u : f[x] \in Nat
    OBVIOUS
  <2> HIDE DEF u
  <2> QED
    BY <1>1, <2>1, SumIsNat
<1> HIDE DEF u
<1> QED
  BY <1>2, <1>3, <1>4, <1>5

\* Fewer indices, a smaller sum.
LEMMA SumSubset ==
  ASSUME NEW f, NEW S, IsFiniteSet(S), \A x \in S : f[x] \in Nat, NEW U \in SUBSET S
  PROVE  SumFunctionOnSet(f, U) <= SumFunctionOnSet(f, S)
<1> DEFINE T == {s \in SUBSET S : U \subseteq s /\ ~(SumFunctionOnSet(f, U) <= SumFunctionOnSet(f, s))}
<1>1. ASSUME T # {} PROVE FALSE
  <2>1. T \in SUBSET SUBSET S
    OBVIOUS
  <2>2. PICK m \in T : \A y \in T : y \subseteq m => y = m
    <3> HIDE DEF T
    <3> QED
      BY <1>1, <2>1, SmallestSubset
  <2>3. /\ m \in SUBSET S /\ IsFiniteSet(m) /\ U \subseteq m
        /\ ~(SumFunctionOnSet(f, U) <= SumFunctionOnSet(f, m))
    BY FS_Subset
  <2>4. SumFunctionOnSet(f, U) \in Nat /\ IsFiniteSet(U)
    BY FS_Subset, SumIsNat
  <2>5. PICK y \in m : y \notin U
    BY <2>3, <2>4
  <2>6. SumFunctionOnSet(f, m) = f[y] + SumFunctionOnSet(f, m \ {y})
    BY <2>3, SumRemove
  <2>7. m \ {y} \in SUBSET S /\ IsFiniteSet(m \ {y}) /\ U \subseteq m \ {y} /\ m \ {y} # m
    BY <2>3, <2>5, FS_Subset
  <2>8. SumFunctionOnSet(f, U) <= SumFunctionOnSet(f, m \ {y})
    BY <2>2, <2>7
  <2>9. SumFunctionOnSet(f, m \ {y}) \in Nat /\ f[y] \in Nat
    BY <2>3, <2>7, SumIsNat
  <2> QED
    BY <2>3, <2>4, <2>6, <2>8, <2>9
<1>2. S \notin T
  BY <1>1
<1> QED
  BY <1>2

\* Indices that are all zero may be left out.
LEMMA SumIgnoresZeros ==
  ASSUME NEW f, NEW S, IsFiniteSet(S), \A x \in S : f[x] \in Nat, NEW U \in SUBSET S,
         \A x \in S \ U : f[x] = 0
  PROVE  SumFunctionOnSet(f, U) = SumFunctionOnSet(f, S)
<1> DEFINE T == {s \in SUBSET S : U \subseteq s /\ SumFunctionOnSet(f, U) # SumFunctionOnSet(f, s)}
<1>1. ASSUME T # {} PROVE FALSE
  <2>1. T \in SUBSET SUBSET S
    OBVIOUS
  <2>2. PICK m \in T : \A y \in T : y \subseteq m => y = m
    <3> HIDE DEF T
    <3> QED
      BY <1>1, <2>1, SmallestSubset
  <2>3. /\ m \in SUBSET S /\ IsFiniteSet(m) /\ U \subseteq m
        /\ SumFunctionOnSet(f, U) # SumFunctionOnSet(f, m)
    BY FS_Subset
  <2>5. PICK y \in m : y \notin U
    BY <2>3
  <2>6. SumFunctionOnSet(f, m) = f[y] + SumFunctionOnSet(f, m \ {y})
    BY <2>3, SumRemove
  <2>7. m \ {y} \in SUBSET S /\ IsFiniteSet(m \ {y}) /\ U \subseteq m \ {y} /\ m \ {y} # m
    BY <2>3, <2>5, FS_Subset
  <2>8. SumFunctionOnSet(f, U) = SumFunctionOnSet(f, m \ {y})
    BY <2>2, <2>7
  <2>9. SumFunctionOnSet(f, m \ {y}) \in Nat /\ f[y] = 0
    BY <2>3, <2>5, <2>7, SumIsNat
  <2> QED
    BY <2>3, <2>6, <2>8, <2>9
<1>2. S \notin T
  BY <1>1
<1> QED
  BY <1>2

\* A sum over a part of two sets is within the two sums.
LEMMA SumCover ==
  ASSUME NEW f, NEW A, NEW B, IsFiniteSet(A), IsFiniteSet(B), \A x \in A \cup B : f[x] \in Nat,
         NEW U \in SUBSET (A \cup B)
  PROVE  SumFunctionOnSet(f, U) <= SumFunctionOnSet(f, A) + SumFunctionOnSet(f, B)
<1> DEFINE C == A \cup B
           Covered(s) == SumFunctionOnSet(f, s) <= SumFunctionOnSet(f, s \cap A) + SumFunctionOnSet(f, s \cap B)
           T == {s \in SUBSET C : ~Covered(s)}
<1>1. IsFiniteSet(C)
  BY FS_Union
<1>2. ASSUME NEW s \in SUBSET C
      PROVE  /\ IsFiniteSet(s) /\ IsFiniteSet(s \cap A) /\ IsFiniteSet(s \cap B)
             /\ SumFunctionOnSet(f, s) \in Nat
             /\ SumFunctionOnSet(f, s \cap A) \in Nat /\ SumFunctionOnSet(f, s \cap B) \in Nat
  <2>1. IsFiniteSet(s) /\ IsFiniteSet(s \cap A) /\ IsFiniteSet(s \cap B)
    <3>1. s \cap A \in SUBSET A /\ s \cap B \in SUBSET B
      OBVIOUS
    <3> HIDE DEF C
    <3> QED
      BY <1>1, <3>1, FS_Subset
  <2>2. SumFunctionOnSet(f, s) \in Nat
    BY <2>1, SumIsNat
  <2>3. SumFunctionOnSet(f, s \cap A) \in Nat
    BY <2>1, SumIsNat
  <2>4. SumFunctionOnSet(f, s \cap B) \in Nat
    BY <2>1, SumIsNat
  <2> QED
    BY <2>1, <2>2, <2>3, <2>4
<1>3. ASSUME T # {} PROVE FALSE
  <2>1. T \in SUBSET SUBSET C
    OBVIOUS
  <2>2. PICK m \in T : \A y \in T : y \subseteq m => y = m
    <3> HIDE DEF T, C
    <3> QED
      BY <1>1, <1>3, <2>1, SmallestSubset
  <2>3. m \in SUBSET C /\ ~Covered(m)
    OBVIOUS
  <2>4. m # {}
    <3>1. ASSUME m = {} PROVE SumFunctionOnSet(f, m) = 0
      BY <1>2, <2>3, <3>1, SumUnfolds
    <3> QED
      BY <1>2, <2>3, <3>1
  <2>5. PICK x \in m : TRUE
    BY <2>4
  <2> DEFINE u == m \ {x}
  <2>6. u \in SUBSET C /\ u \subseteq m /\ u # m
    BY <2>3, <2>5
  <2>7. Covered(u)
    BY <2>2, <2>6
  <2>8. SumFunctionOnSet(f, m) = f[x] + SumFunctionOnSet(f, u)
    BY <1>2, <2>3, <2>5, SumRemove
  <2>9. f[x] \in Nat
    BY <2>3, <2>5
  <2>10. ASSUME NEW D, D = A \/ D = B
         PROVE  /\ SumFunctionOnSet(f, u \cap D) <= SumFunctionOnSet(f, m \cap D)
                /\ x \in D => SumFunctionOnSet(f, m \cap D) = f[x] + SumFunctionOnSet(f, u \cap D)
    <3>1. IsFiniteSet(m \cap D) /\ \A y \in m \cap D : f[y] \in Nat
      BY <1>2, <2>3, <2>10
    <3>2. u \cap D \in SUBSET (m \cap D)
      OBVIOUS
    <3>3. SumFunctionOnSet(f, u \cap D) <= SumFunctionOnSet(f, m \cap D)
      <4> DEFINE md == m \cap D
                 ud == u \cap D
      <4> HIDE DEF md, ud
      <4>1. IsFiniteSet(md) /\ (\A y \in md : f[y] \in Nat) /\ ud \in SUBSET md
        BY <3>1, <3>2 DEF md, ud
      <4>2. SumFunctionOnSet(f, ud) <= SumFunctionOnSet(f, md)
        BY <4>1, SumSubset
      <4> QED
        BY <4>2 DEF md, ud
    <3>4. ASSUME x \in D PROVE SumFunctionOnSet(f, m \cap D) = f[x] + SumFunctionOnSet(f, u \cap D)
      <4>1. x \in m \cap D /\ (m \cap D) \ {x} = u \cap D
        BY <2>5, <3>4
      <4>2. SumFunctionOnSet(f, m \cap D) = f[x] + SumFunctionOnSet(f, (m \cap D) \ {x})
        BY <3>1, <4>1, SumRemove
      <4> QED
        BY <4>1, <4>2
    <3> QED
      BY <3>3, <3>4
  <2>11. /\ SumFunctionOnSet(f, u) \in Nat /\ SumFunctionOnSet(f, m) \in Nat
         /\ SumFunctionOnSet(f, u \cap A) \in Nat /\ SumFunctionOnSet(f, m \cap A) \in Nat
         /\ SumFunctionOnSet(f, u \cap B) \in Nat /\ SumFunctionOnSet(f, m \cap B) \in Nat
    BY <1>2, <2>3, <2>6
  <2>12. x \in A \/ x \in B
    BY <2>3, <2>5
  <2> HIDE DEF u
  <2>13. /\ SumFunctionOnSet(f, u \cap A) <= SumFunctionOnSet(f, m \cap A)
         /\ SumFunctionOnSet(f, u \cap B) <= SumFunctionOnSet(f, m \cap B)
         /\ x \in A => SumFunctionOnSet(f, m \cap A) = f[x] + SumFunctionOnSet(f, u \cap A)
         /\ x \in B => SumFunctionOnSet(f, m \cap B) = f[x] + SumFunctionOnSet(f, u \cap B)
    BY <2>10
  <2>14. SumFunctionOnSet(f, u) <= SumFunctionOnSet(f, u \cap A) + SumFunctionOnSet(f, u \cap B)
    BY <2>7
  <2>15. Covered(m)
    BY <2>8, <2>9, <2>11, <2>12, <2>13, <2>14
  <2> QED
    BY <2>3, <2>15
<1>4. Covered(U)
  BY <1>3
<1>5. ASSUME NEW D, D = A \/ D = B PROVE SumFunctionOnSet(f, U \cap D) <= SumFunctionOnSet(f, D)
  <2>1. IsFiniteSet(D) /\ (\A y \in D : f[y] \in Nat) /\ U \cap D \in SUBSET D
    BY <1>5
  <2> DEFINE ud == U \cap D
  <2> HIDE DEF ud
  <2>2. IsFiniteSet(D) /\ (\A y \in D : f[y] \in Nat) /\ ud \in SUBSET D
    BY <2>1 DEF ud
  <2>3. SumFunctionOnSet(f, ud) <= SumFunctionOnSet(f, D)
    BY <2>2, SumSubset
  <2> QED
    BY <2>3 DEF ud
<1>6. SumFunctionOnSet(f, A) \in Nat /\ SumFunctionOnSet(f, B) \in Nat
  BY SumIsNat
<1>7. /\ SumFunctionOnSet(f, U) \in Nat
      /\ SumFunctionOnSet(f, U \cap A) \in Nat /\ SumFunctionOnSet(f, U \cap B) \in Nat
  BY <1>2
<1> QED
  BY <1>4, <1>5, <1>6, <1>7

\* When the value at one index grows by n, a sum grows by at most n; one that leaves
\* the index out stays.
LEMMA SumGrows ==
  ASSUME NEW f, NEW g, NEW S, IsFiniteSet(S), NEW y, NEW n \in Nat,
         \A x \in S : f[x] \in Nat, \A x \in S : x # y => g[x] = f[x], y \in S => g[y] = f[y] + n
  PROVE  /\ SumFunctionOnSet(g, S) <= SumFunctionOnSet(f, S) + n
         /\ y \notin S => SumFunctionOnSet(g, S) = SumFunctionOnSet(f, S)
         /\ SumFunctionOnSet(f, S) \in Nat /\ SumFunctionOnSet(g, S) \in Nat
<1>1. \A x \in S : g[x] \in Nat
  <2> SUFFICES ASSUME NEW x \in S PROVE g[x] \in Nat
    OBVIOUS
  <2> QED
    BY f[x] \in Nat
<1>2. SumFunctionOnSet(f, S) \in Nat /\ SumFunctionOnSet(g, S) \in Nat
  BY <1>1, SumIsNat
<1>3. CASE y \in S
  <2>1. SumFunctionOnSet(g, S) + f[y] = SumFunctionOnSet(f, S) + g[y]
    BY <1>1, <1>3, SumChange
  <2> QED
    BY <1>2, <1>3, <2>1
<1>4. CASE y \notin S
  <2>1. SumFunctionOnSet(f, S) = SumFunctionOnSet(g, S)
    BY <1>4, SumSame
  <2> QED
    BY <1>2, <1>4, <2>1
<1> QED
  BY <1>3, <1>4
=============================================================================
