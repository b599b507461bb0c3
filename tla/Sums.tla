-------------------------------- MODULE Sums --------------------------------
(* Sums and folds over finite sets as the modules write them, with           *)
(* MapThenSumSet and MapThenFoldSet: what every proof about a total, or about *)
(* a walk over ids, needs.  The induction is on the set, by the smallest      *)
(* subset of it for which a fact would fail.                                  *)
EXTENDS Integers, FiniteSets, FiniteSetsExt, FiniteSetTheorems, TLAPS

\* The sum of a function's values on a finite set.
Total(f, S) == MapThenSumSet(LAMBDA i : f[i], S)

\* The element that the fold takes first.
First(S) == CHOOSE x \in S : TRUE

\* g gives the sum of every subset of S.
Sums(g, f, S) ==
  g = [s \in SUBSET S |-> IF s = {} THEN 0 ELSE f[First(s)] + g[s \ {First(s)}]]

\* A set of subsets of a finite set has a smallest one, if any.
LEMMA SmallestSubset ==
  ASSUME NEW S, IsFiniteSet(S), NEW B, B \subseteq SUBSET S, B # {}
  PROVE  \E s \in B : \A t \in B : t \subseteq s => t = s
<1>1. IsWellFoundedOn(StrictSubsetOrdering(S), FiniteSubsetsOf(S))
  BY FS_StrictSubsetOrderingWellFounded
<1>2. B \subseteq FiniteSubsetsOf(S)
  BY FS_FiniteSubsetsOfFinite
<1>3. PICK s \in B : \A t \in B : ~(<<t, s>> \in StrictSubsetOrdering(S))
  BY <1>1, <1>2, WFMin
<1>4. \A t \in B : t \subseteq s => t = s
  BY <1>3 DEF StrictSubsetOrdering
<1>5. QED
  BY <1>4

LEMMA FirstIn == ASSUME NEW S, S # {} PROVE First(S) \in S
  BY DEF First

\* Two functions that give sums agree where both do.
LEMMA SumsUnique ==
  ASSUME NEW f, NEW S, NEW T, IsFiniteSet(S), NEW g, NEW h, Sums(g, f, S), Sums(h, f, T)
  PROVE  \A s \in SUBSET (S \cap T) : g[s] = h[s]
<1> DEFINE B == {s \in SUBSET (S \cap T) : g[s] # h[s]}
<1>1. SUFFICES ASSUME B # {} PROVE FALSE
  OBVIOUS
<1>2. IsFiniteSet(S \cap T)
  BY FS_Subset
<1>3. PICK s \in B : \A t \in B : t \subseteq s => t = s
  <2> HIDE DEF B
  <2>1. B \subseteq SUBSET (S \cap T)
    BY DEF B
  <2>2. QED
    BY <1>1, <1>2, <2>1, SmallestSubset
<1>4. s \in SUBSET S /\ s \in SUBSET T /\ g[s] # h[s]
  OBVIOUS
<1>5. /\ g[s] = IF s = {} THEN 0 ELSE f[First(s)] + g[s \ {First(s)}]
      /\ h[s] = IF s = {} THEN 0 ELSE f[First(s)] + h[s \ {First(s)}]
  BY <1>4 DEF Sums
<1>6. s # {}
  BY <1>4, <1>5
<1>7. s \ {First(s)} \notin B
  BY <1>3, <1>6, FirstIn
<1>8. g[s \ {First(s)}] = h[s \ {First(s)}]
  BY <1>7
<1>9. QED
  BY <1>4, <1>5, <1>8

LEMMA SumsExist ==
  ASSUME NEW f, NEW S, IsFiniteSet(S)
  PROVE  \E g : Sums(g, f, S)
<1> DEFINE B == {s \in SUBSET S : ~ \E g : Sums(g, f, s)}
<1>1. SUFFICES ASSUME B # {} PROVE FALSE
  OBVIOUS
<1>2. PICK s \in B : \A t \in B : t \subseteq s => t = s
  <2> HIDE DEF B
  <2>1. B \subseteq SUBSET S
    BY DEF B
  <2>2. QED
    BY <1>1, <2>1, SmallestSubset
<1> DEFINE Of(t) == CHOOSE g : Sums(g, f, t)
           rest(t) == t \ {First(t)}
           sum == [t \in SUBSET s |->
                     IF t = {} THEN 0 ELSE f[First(t)] + Of(rest(t))[rest(t)]]
<1>3. ASSUME NEW t \in SUBSET s, t # s PROVE Sums(Of(t), f, t)
  <2>1. t \notin B
    BY <1>2, <1>3
  <2>2. \E g : Sums(g, f, t)
    BY <2>1
  <2>3. QED
    BY <2>2
<1>4. ASSUME NEW t \in SUBSET s, t # {} PROVE sum[rest(t)] = Of(rest(t))[rest(t)]
  <2> DEFINE u == rest(t)
  <2>1. u \in SUBSET s /\ u # s
    BY <1>4, FirstIn
  <2>2. Sums(Of(u), f, u)
    BY <1>3, <2>1
  <2> HIDE DEF Of
  <2>3. Of(u)[u] = IF u = {} THEN 0 ELSE f[First(u)] + Of(u)[rest(u)]
    BY <2>2 DEF Sums
  <2>4. CASE u = {}
    BY <2>1, <2>3, <2>4
  <2>5. CASE u # {}
    <3>1. rest(u) \in SUBSET s /\ rest(u) # s /\ rest(u) \subseteq u
      BY <2>1, <2>5, FirstIn
    <3>2. Sums(Of(rest(u)), f, rest(u))
      BY <1>3, <3>1
    <3>3. IsFiniteSet(u)
      BY <2>1, FS_Subset
    <3>4. Of(u)[rest(u)] = Of(rest(u))[rest(u)]
      <4> DEFINE v == rest(u)
      <4>1. v \in SUBSET (u \cap v)
        BY <3>1
      <4> HIDE DEF v, u
      <4>2. QED
        BY <2>2, <3>2, <3>3, <4>1, SumsUnique, SMTT(20) DEF v
    <3>5. QED
      BY <2>1, <2>3, <2>5, <3>4
  <2>6. QED
    BY <2>4, <2>5
<1>5. Sums(sum, f, s)
  <2> HIDE DEF Of
  <2>1. sum = [t \in SUBSET s |-> IF t = {} THEN 0 ELSE f[First(t)] + sum[rest(t)]]
    BY <1>4
  <2>2. QED
    BY <2>1 DEF Sums
<1>6. QED
  BY <1>5

\* MapThenSumSet is the sum it says.
LEMMA TotalIsSum ==
  ASSUME NEW f, NEW S, IsFiniteSet(S)
  PROVE  \E g : Sums(g, f, S) /\ Total(f, S) = g[S]
<1> DEFINE it == CHOOSE g : Sums(g, f, S)
<1>1. Total(f, S) = it[S]
  BY DEF Total, MapThenSumSet, MapThenFoldSet, Sums, First
<1>2. Sums(it, f, S)
  BY SumsExist
<1>3. QED
  BY <1>1, <1>2

-----------------------------------------------------------------------------
(* One element at a time *)

LEMMA TotalEmpty == ASSUME NEW f PROVE Total(f, {}) = 0
<1>1. IsFiniteSet({})
  BY FS_EmptySet
<1>2. PICK g : Sums(g, f, {}) /\ Total(f, {}) = g[{}]
  BY <1>1, TotalIsSum
<1>3. QED
  BY <1>2 DEF Sums

\* The total of a subset is read off the same function of sums.
LEMMA TotalOfSubset ==
  ASSUME NEW f, NEW S, IsFiniteSet(S), NEW g, Sums(g, f, S), NEW s \in SUBSET S
  PROVE  Total(f, s) = g[s]
<1>1. IsFiniteSet(s)
  BY FS_Subset
<1>2. PICK h : Sums(h, f, s) /\ Total(f, s) = h[s]
  BY <1>1, TotalIsSum
<1>3. s \in SUBSET (S \cap s)
  OBVIOUS
<1>4. QED
  BY <1>2, <1>3, SumsUnique

LEMMA TotalFirst ==
  ASSUME NEW f, NEW S, IsFiniteSet(S), S # {}
  PROVE  Total(f, S) = f[First(S)] + Total(f, S \ {First(S)})
<1>1. PICK g : Sums(g, f, S)
  BY SumsExist
<1>2. /\ Total(f, S) = g[S]
      /\ Total(f, S \ {First(S)}) = g[S \ {First(S)}]
  BY <1>1, TotalOfSubset
<1>3. g[S] = f[First(S)] + g[S \ {First(S)}]
  BY <1>1 DEF Sums
<1>4. QED
  BY <1>2, <1>3

LEMMA TotalType ==
  ASSUME NEW f, NEW S, IsFiniteSet(S), \A i \in S : f[i] \in Int
  PROVE  Total(f, S) \in Int
<1> DEFINE B == {s \in SUBSET S : Total(f, s) \notin Int}
<1>1. SUFFICES ASSUME B # {} PROVE FALSE
  OBVIOUS
<1>2. PICK s \in B : \A t \in B : t \subseteq s => t = s
  <2> HIDE DEF B
  <2>1. B \subseteq SUBSET S
    BY DEF B
  <2>2. QED
    BY <1>1, <2>1, SmallestSubset
<1>3. IsFiniteSet(s)
  BY FS_Subset
<1>4. s # {}
  BY TotalEmpty
<1>5. s \ {First(s)} \notin B
  BY <1>2, <1>4, FirstIn
<1>6. Total(f, s \ {First(s)}) \in Int /\ f[First(s)] \in Int
  BY <1>4, <1>5, FirstIn
<1>7. QED
  BY <1>3, <1>4, <1>6, TotalFirst

\* Any element may be taken out first.
LEMMA TotalRemove ==
  ASSUME NEW f, NEW S, IsFiniteSet(S), \A i \in S : f[i] \in Int, NEW x \in S
  PROVE  Total(f, S) = f[x] + Total(f, S \ {x})
<1> DEFINE B == {s \in SUBSET S : \E y \in s : Total(f, s) # f[y] + Total(f, s \ {y})}
<1>1. SUFFICES ASSUME B # {} PROVE FALSE
  <2> HIDE DEF B
  <2>1. S \notin B
    BY <1>1
  <2>2. QED
    BY <2>1 DEF B
<1>2. PICK s \in B : \A t \in B : t \subseteq s => t = s
  <2> HIDE DEF B
  <2>1. B \subseteq SUBSET S
    BY DEF B
  <2>2. QED
    BY <1>1, <2>1, SmallestSubset
<1>3. PICK y \in s : Total(f, s) # f[y] + Total(f, s \ {y})
  OBVIOUS
<1> DEFINE c == First(s)
<1>4. IsFiniteSet(s) /\ c \in s /\ Total(f, s) = f[c] + Total(f, s \ {c})
  BY FS_Subset, FirstIn, TotalFirst
<1>5. c # y
  BY <1>3, <1>4
<1>6. /\ Total(f, s \ {c}) = f[y] + Total(f, (s \ {c}) \ {y})
      /\ Total(f, s \ {y}) = f[c] + Total(f, (s \ {y}) \ {c})
  <2>1. s \ {c} \notin B /\ s \ {y} \notin B
    BY <1>2, <1>4
  <2>2. y \in s \ {c} /\ c \in s \ {y}
    BY <1>4, <1>5
  <2> HIDE DEF c
  <2>3. QED
    BY <2>1, <2>2
<1>7. (s \ {c}) \ {y} = (s \ {y}) \ {c}
  OBVIOUS
<1>8. /\ f[c] \in Int /\ f[y] \in Int
      /\ Total(f, (s \ {y}) \ {c}) \in Int
  <2>1. IsFiniteSet((s \ {y}) \ {c})
    BY <1>4, FS_Subset
  <2>2. QED
    BY <1>4, <2>1, TotalType
<1>9. ASSUME NEW a \in Int, NEW b \in Int, NEW r \in Int
      PROVE  a + (b + r) = b + (a + r)
  OBVIOUS
<1> DEFINE r == Total(f, (s \ {y}) \ {c})
<1>10. Total(f, s) = f[c] + (f[y] + r) /\ Total(f, s \ {y}) = f[c] + r
  BY <1>4, <1>6, <1>7
<1> HIDE DEF c, r, B
<1>11. QED
  BY <1>3, <1>8, <1>9, <1>10 DEF r

LEMMA TotalAdd ==
  ASSUME NEW f, NEW S, IsFiniteSet(S), NEW x, x \notin S,
         \A i \in S \cup {x} : f[i] \in Int
  PROVE  Total(f, S \cup {x}) = f[x] + Total(f, S)
<1>1. IsFiniteSet(S \cup {x}) /\ (S \cup {x}) \ {x} = S
  BY FS_AddElement
<1>2. QED
  BY <1>1, TotalRemove

\* Only the values on the set count.
LEMMA TotalSame ==
  ASSUME NEW f, NEW g, NEW S, IsFiniteSet(S), \A i \in S : f[i] = g[i]
  PROVE  Total(f, S) = Total(g, S)
<1>1. PICK h : Sums(h, f, S) /\ Total(f, S) = h[S]
  BY TotalIsSum
<1>2. Sums(h, g, S)
  <2>1. \A s \in SUBSET S : s # {} => f[First(s)] = g[First(s)]
    BY FirstIn
  <2>2. QED
    BY <1>1, <2>1 DEF Sums
<1>3. QED
  BY <1>1, <1>2, TotalOfSubset

\* One value changes.
LEMMA TotalChange ==
  ASSUME NEW f, NEW g, NEW S, IsFiniteSet(S), NEW x \in S,
         \A i \in S : f[i] \in Int /\ g[i] \in Int,
         \A i \in S \ {x} : g[i] = f[i]
  PROVE  Total(g, S) = Total(f, S) + g[x] - f[x]
<1>1. IsFiniteSet(S \ {x})
  BY FS_Subset
<1>2. Total(g, S \ {x}) = Total(f, S \ {x}) /\ Total(f, S \ {x}) \in Int
  BY <1>1, TotalSame, TotalType
<1>3. /\ Total(f, S) = f[x] + Total(f, S \ {x})
      /\ Total(g, S) = g[x] + Total(g, S \ {x})
  BY TotalRemove
<1>4. QED
  BY <1>2, <1>3

LEMMA TotalZero ==
  ASSUME NEW f, NEW S, IsFiniteSet(S), \A i \in S : f[i] = 0
  PROVE  Total(f, S) = 0
<1>1. PICK g : Sums(g, f, S) /\ Total(f, S) = g[S]
  BY TotalIsSum
<1> DEFINE B == {s \in SUBSET S : g[s] # 0}
<1>2. SUFFICES ASSUME B # {} PROVE FALSE
  <2> HIDE DEF B
  <2>1. S \notin B
    BY <1>2
  <2>2. QED
    BY <1>1, <2>1 DEF B
<1>3. PICK s \in B : \A t \in B : t \subseteq s => t = s
  <2> HIDE DEF B
  <2>1. B \subseteq SUBSET S
    BY DEF B
  <2>2. QED
    BY <1>2, <2>1, SmallestSubset
<1>4. s # {}
  BY <1>1 DEF Sums
<1>5. g[s] = f[First(s)] + g[s \ {First(s)}] /\ f[First(s)] = 0
  BY <1>1, <1>4, FirstIn DEF Sums
<1>6. s \ {First(s)} \notin B
  BY <1>3, <1>4, FirstIn
<1>7. QED
  BY <1>5, <1>6

\* A sum of natural numbers is one, and at least each of them.
LEMMA TotalNat ==
  ASSUME NEW f, NEW S, IsFiniteSet(S), \A i \in S : f[i] \in Nat
  PROVE  Total(f, S) \in Nat /\ \A x \in S : f[x] <= Total(f, S)
<1> DEFINE B == {s \in SUBSET S : Total(f, s) \notin Nat}
<1>1. ASSUME B # {} PROVE FALSE
  <2>1. PICK s \in B : \A t \in B : t \subseteq s => t = s
    <3> HIDE DEF B
    <3>1. B \subseteq SUBSET S
      BY DEF B
    <3>2. QED
      BY <1>1, <3>1, SmallestSubset
  <2>2. IsFiniteSet(s)
    BY FS_Subset
  <2>3. s # {}
    BY TotalEmpty
  <2>4. s \ {First(s)} \notin B
    BY <2>1, <2>3, FirstIn
  <2>5. Total(f, s \ {First(s)}) \in Nat /\ f[First(s)] \in Nat
    BY <2>3, <2>4, FirstIn
  <2>6. QED
    BY <2>2, <2>3, <2>5, TotalFirst
<1>2. \A s \in SUBSET S : Total(f, s) \in Nat
  BY <1>1
<1>3. ASSUME NEW x \in S PROVE f[x] <= Total(f, S)
  <2>1. Total(f, S) = f[x] + Total(f, S \ {x})
    BY TotalRemove
  <2>2. Total(f, S \ {x}) \in Nat
    BY <1>2
  <2>3. QED
    BY <2>1, <2>2
<1>4. QED
  BY <1>2, <1>3

\* A part of a sum of natural numbers is at most the whole.
LEMMA TotalSubset ==
  ASSUME NEW f, NEW S, IsFiniteSet(S), \A i \in S : f[i] \in Nat, NEW T \in SUBSET S
  PROVE  Total(f, T) <= Total(f, S)
<1> DEFINE B == {s \in SUBSET S : T \subseteq s /\ ~(Total(f, T) <= Total(f, s))}
<1>1. SUFFICES ASSUME B # {} PROVE FALSE
  <2> HIDE DEF B
  <2>1. S \notin B
    BY <1>1
  <2>2. QED
    BY <2>1 DEF B
<1>2. PICK s \in B : \A t \in B : t \subseteq s => t = s
  <2> HIDE DEF B
  <2>1. B \subseteq SUBSET S
    BY DEF B
  <2>2. QED
    BY <1>1, <2>1, SmallestSubset
<1>3. Total(f, T) \in Nat /\ Total(f, s) \in Nat /\ IsFiniteSet(s)
  BY FS_Subset, TotalNat
<1>4. s # T
  BY <1>3
<1>5. PICK x \in s : x \notin T
  BY <1>4
<1>6. s \ {x} \notin B
  BY <1>2
<1>7. Total(f, T) <= Total(f, s \ {x})
  BY <1>5, <1>6
<1>8. Total(f, s) = f[x] + Total(f, s \ {x}) /\ f[x] \in Nat
  BY <1>3, TotalRemove
<1>9. Total(f, s \ {x}) \in Nat
  <2>1. IsFiniteSet(s \ {x})
    BY <1>3, FS_Subset
  <2>2. QED
    BY <2>1, TotalNat
<1>10. QED
  BY <1>3, <1>7, <1>8, <1>9

\* The sum of disjoint sets.
LEMMA TotalUnion ==
  ASSUME NEW f, NEW S, NEW T, IsFiniteSet(S), IsFiniteSet(T), S \cap T = {},
         \A i \in S \cup T : f[i] \in Int
  PROVE  Total(f, S \cup T) = Total(f, S) + Total(f, T)
<1> DEFINE B == {s \in SUBSET S : Total(f, s \cup T) # Total(f, s) + Total(f, T)}
<1>1. SUFFICES ASSUME B # {} PROVE FALSE
  <2> HIDE DEF B
  <2>1. S \notin B
    BY <1>1
  <2>2. QED
    BY <2>1 DEF B
<1>2. PICK s \in B : \A t \in B : t \subseteq s => t = s
  <2> HIDE DEF B
  <2>1. B \subseteq SUBSET S
    BY DEF B
  <2>2. QED
    BY <1>1, <2>1, SmallestSubset
<1>3. /\ IsFiniteSet(s) /\ IsFiniteSet(s \cup T) /\ \A i \in s \cup T : f[i] \in Int
      /\ Total(f, T) \in Int
  BY FS_Subset, FS_Union, TotalType
<1>4. s # {}
  <2>1. {} \cup T = T /\ Total(f, {}) = 0
    BY TotalEmpty
  <2>2. {} \notin B
    BY <2>1, <1>3
  <2>3. QED
    BY <2>2
<1>5. PICK x \in s : TRUE
  BY <1>4
<1>6. s \ {x} \notin B
  BY <1>2, <1>5
<1>7. Total(f, (s \ {x}) \cup T) = Total(f, s \ {x}) + Total(f, T)
  BY <1>6
<1>8. (s \cup T) \ {x} = (s \ {x}) \cup T /\ x \in s \cup T
  BY <1>5
<1>9. /\ Total(f, s) = f[x] + Total(f, s \ {x})
      /\ Total(f, s \cup T) = f[x] + Total(f, (s \ {x}) \cup T)
  <2> HIDE DEF B
  <2>1. \A i \in s : f[i] \in Int
    BY <1>3
  <2>2. Total(f, s) = f[x] + Total(f, s \ {x})
    BY <1>3, <1>5, <2>1, TotalRemove
  <2>3. Total(f, s \cup T) = f[x] + Total(f, (s \cup T) \ {x})
    BY <1>3, <1>8, TotalRemove
  <2>4. QED
    BY <1>8, <2>2, <2>3
<1>10. f[x] \in Int /\ Total(f, s \ {x}) \in Int
  <2>1. IsFiniteSet(s \ {x}) /\ \A i \in s \ {x} : f[i] \in Int
    BY <1>3, FS_Subset
  <2>2. QED
    BY <1>3, <1>5, <2>1, TotalType
<1>11. Total(f, s \cup T) = Total(f, s) + Total(f, T)
  <2> HIDE DEF B
  <2>1. QED
    BY <1>3, <1>7, <1>9, <1>10
<1>12. QED
  BY <1>11

\* Elements whose value is zero do not count.
LEMMA TotalDropsZeros ==
  ASSUME NEW f, NEW S, IsFiniteSet(S), NEW T \in SUBSET S,
         \A i \in S : f[i] \in Int, \A i \in S \ T : f[i] = 0
  PROVE  Total(f, S) = Total(f, T)
<1> DEFINE U == S \ T
<1>1. IsFiniteSet(T) /\ IsFiniteSet(U) /\ T \cap U = {} /\ T \cup U = S
  BY FS_Subset
<1>2. \A i \in U : f[i] = 0
  OBVIOUS
<1> HIDE DEF U
<1>3. Total(f, T \cup U) = Total(f, T) + Total(f, U)
  BY <1>1, TotalUnion
<1>4. Total(f, U) = 0 /\ Total(f, T) \in Int
  BY <1>1, <1>2, TotalZero, TotalType
<1>5. Total(f, S) = Total(f, T) + Total(f, U)
  BY <1>1, <1>3, Zenon
<1>6. QED
  BY <1>4, <1>5

\* Smaller values, a smaller sum.
LEMMA TotalAtMost ==
  ASSUME NEW f, NEW g, NEW S, IsFiniteSet(S),
         \A i \in S : f[i] \in Int /\ g[i] \in Int /\ f[i] <= g[i]
  PROVE  Total(f, S) <= Total(g, S)
<1> DEFINE B == {s \in SUBSET S : ~(Total(f, s) <= Total(g, s))}
<1>1. SUFFICES ASSUME B # {} PROVE FALSE
  <2> HIDE DEF B
  <2>1. S \notin B
    BY <1>1
  <2>2. QED
    BY <2>1 DEF B
<1>2. PICK s \in B : \A t \in B : t \subseteq s => t = s
  <2> HIDE DEF B
  <2>1. B \subseteq SUBSET S
    BY DEF B
  <2>2. QED
    BY <1>1, <2>1, SmallestSubset
<1>3. s # {}
  BY TotalEmpty
<1>4. PICK x \in s : TRUE
  BY <1>3
<1>5. s \ {x} \notin B
  BY <1>2, <1>4
<1>6. Total(f, s \ {x}) <= Total(g, s \ {x})
  BY <1>5
<1>7. IsFiniteSet(s) /\ IsFiniteSet(s \ {x})
  BY FS_Subset
<1>8. /\ Total(f, s) = f[x] + Total(f, s \ {x}) /\ Total(g, s) = g[x] + Total(g, s \ {x})
      /\ Total(f, s \ {x}) \in Int /\ Total(g, s \ {x}) \in Int
      /\ f[x] \in Int /\ g[x] \in Int /\ f[x] <= g[x]
  BY <1>4, <1>7, TotalRemove, TotalType
<1>9. QED
  BY <1>6, <1>8

\* The sum of the opposites.
LEMMA TotalNegated ==
  ASSUME NEW f, NEW g, NEW S, IsFiniteSet(S),
         \A i \in S : f[i] \in Int /\ g[i] = -f[i]
  PROVE  Total(g, S) = -Total(f, S)
<1> DEFINE B == {s \in SUBSET S : Total(g, s) # -Total(f, s)}
<1>1. SUFFICES ASSUME B # {} PROVE FALSE
  <2> HIDE DEF B
  <2>1. S \notin B
    BY <1>1
  <2>2. QED
    BY <2>1 DEF B
<1>2. PICK s \in B : \A t \in B : t \subseteq s => t = s
  <2> HIDE DEF B
  <2>1. B \subseteq SUBSET S
    BY DEF B
  <2>2. QED
    BY <1>1, <2>1, SmallestSubset
<1>3. s # {}
  BY TotalEmpty
<1>4. PICK x \in s : TRUE
  BY <1>3
<1>5. s \ {x} \notin B
  BY <1>2, <1>4
<1>6. Total(g, s \ {x}) = -Total(f, s \ {x})
  BY <1>5
<1>7. IsFiniteSet(s) /\ IsFiniteSet(s \ {x})
  BY FS_Subset
<1>8. /\ Total(f, s) = f[x] + Total(f, s \ {x}) /\ Total(g, s) = g[x] + Total(g, s \ {x})
      /\ Total(f, s \ {x}) \in Int /\ f[x] \in Int /\ g[x] = -f[x]
  BY <1>4, <1>7, TotalRemove, TotalType
<1>9. QED
  BY <1>6, <1>8

\* The elements of a set may be renamed.
Renamed(h, S) == {h[i] : i \in S}

LEMMA TotalRenamed ==
  ASSUME NEW f, NEW g, NEW h, NEW S, IsFiniteSet(S), IsFiniteSet(Renamed(h, S)),
         \A i, j \in S : h[i] = h[j] => i = j,
         \A i \in S : f[i] \in Int /\ g[h[i]] = f[i]
  PROVE  Total(g, Renamed(h, S)) = Total(f, S)
<1> DEFINE B == {s \in SUBSET S : Total(g, Renamed(h, s)) # Total(f, s)}
<1>1. SUFFICES ASSUME B # {} PROVE FALSE
  <2> HIDE DEF B
  <2>1. S \notin B
    BY <1>1
  <2>2. QED
    BY <2>1 DEF B
<1>2. PICK s \in B : \A t \in B : t \subseteq s => t = s
  <2> HIDE DEF B
  <2>1. B \subseteq SUBSET S
    BY DEF B
  <2>2. QED
    BY <1>1, <2>1, SmallestSubset
<1>3. s \in SUBSET S /\ Total(g, Renamed(h, s)) # Total(f, s)
  OBVIOUS
<1>4. s # {}
  <2>1. Renamed(h, {}) = {}
    BY DEF Renamed
  <2>2. QED
    BY <1>3, <2>1, TotalEmpty
<1>5. PICK x \in s : TRUE
  BY <1>4
<1> DEFINE r == s \ {x}
           T == Renamed(h, s)
<1>6. Total(g, Renamed(h, r)) = Total(f, r)
  <2>1. r \notin B
    BY <1>2
  <2>2. r \in SUBSET S
    BY <1>3
  <2> HIDE DEF r
  <2>3. QED
    BY <2>1, <2>2
<1>7. IsFiniteSet(s) /\ IsFiniteSet(T)
  <2>1. T \in SUBSET Renamed(h, S)
    BY <1>3 DEF Renamed
  <2>2. QED
    BY <1>3, <2>1, FS_Subset
<1>8. h[x] \in T /\ T \ {h[x]} = Renamed(h, r)
  <2>1. h[x] \in T
    BY DEF Renamed
  <2>2. ASSUME NEW y \in T, y # h[x] PROVE y \in Renamed(h, r)
    BY <2>2 DEF Renamed
  <2>3. ASSUME NEW y \in Renamed(h, r) PROVE y \in T /\ y # h[x]
    <3>1. PICK i \in r : y = h[i]
      BY DEF Renamed
    <3>2. i \in S /\ x \in S /\ i # x /\ i \in s
      BY <1>3
    <3>3. QED
      BY <3>1, <3>2 DEF Renamed
  <2>4. QED
    BY <2>1, <2>2, <2>3
<1>9. \A y \in T : g[y] \in Int
  BY <1>3 DEF Renamed
<1>10. Total(f, s) = f[x] + Total(f, r)
  <2>1. \A i \in s : f[i] \in Int
    BY <1>3
  <2>2. QED
    BY <1>7, <2>1, TotalRemove
<1> HIDE DEF T, r, B
<1>11. Total(g, T) = g[h[x]] + Total(g, T \ {h[x]})
  BY <1>7, <1>8, <1>9, TotalRemove
<1>12. g[h[x]] = f[x]
  BY <1>3
<1>13. Total(g, T) = Total(f, s)
  BY <1>6, <1>8, <1>10, <1>11, <1>12
<1>14. QED
  BY <1>3, <1>13 DEF T

\* A set may be summed part by part.
Parts(part, W) == UNION {part[w] : w \in W}

LEMMA TotalParted ==
  ASSUME NEW f, NEW part, NEW W, IsFiniteSet(W), IsFiniteSet(Parts(part, W)),
         \A v, w \in W : v # w => part[v] \cap part[w] = {},
         \A i \in Parts(part, W) : f[i] \in Int
  PROVE  Total([w \in W |-> Total(f, part[w])], W) = Total(f, Parts(part, W))
<1> DEFINE p == [w \in W |-> Total(f, part[w])]
           B == {s \in SUBSET W : Total(p, s) # Total(f, Parts(part, s))}
<1>1. SUFFICES ASSUME B # {} PROVE FALSE
  <2> HIDE DEF B, p
  <2>1. W \notin B
    BY <1>1
  <2>2. QED
    BY <2>1 DEF B, p
<1>2. PICK s \in B : \A t \in B : t \subseteq s => t = s
  <2> HIDE DEF B
  <2>1. B \subseteq SUBSET W
    BY DEF B
  <2>2. QED
    BY <1>1, <2>1, SmallestSubset
<1>a. \A w \in W : p[w] = Total(f, part[w])
  OBVIOUS
<1> HIDE DEF p
<1>3. s \in SUBSET W /\ Total(p, s) # Total(f, Parts(part, s))
  OBVIOUS
<1>4. s # {}
  <2>1. Parts(part, {}) = {}
    BY DEF Parts
  <2>2. QED
    BY <1>3, <2>1, TotalEmpty
<1>5. PICK x \in s : TRUE
  BY <1>4
<1> DEFINE r == s \ {x}
<1>6. r \in SUBSET W /\ x \in W
  BY <1>3
<1>7. Total(p, r) = Total(f, Parts(part, r))
  <2>1. r \notin B
    BY <1>2
  <2> HIDE DEF r
  <2>2. QED
    BY <1>6, <2>1
<1> HIDE DEF B
<1>8. \A w \in W : part[w] \subseteq Parts(part, W)
  BY DEF Parts
<1>9. Parts(part, r) \subseteq Parts(part, W) /\ Parts(part, s) = Parts(part, r) \cup part[x]
  BY <1>3 DEF Parts
<1>10. Parts(part, r) \cap part[x] = {}
  <2>1. ASSUME NEW y \in Parts(part, r), y \in part[x] PROVE FALSE
    <3>1. PICK w \in r : y \in part[w]
      BY DEF Parts
    <3>2. w \in W /\ w # x
      BY <1>3
    <3>3. QED
      BY <1>6, <2>1, <3>1, <3>2
  <2>2. QED
    BY <2>1
<1>11. IsFiniteSet(s)
  BY <1>3, FS_Subset
<1>12. IsFiniteSet(Parts(part, r)) /\ IsFiniteSet(part[x])
  BY <1>6, <1>8, <1>9, FS_Subset
<1>13. \A w \in W : p[w] \in Int
  <2>1. ASSUME NEW w \in W PROVE p[w] \in Int
    <3>1. IsFiniteSet(part[w])
      BY <1>8, FS_Subset
    <3>2. \A i \in part[w] : f[i] \in Int
      BY <1>8
    <3>3. QED
      BY <1>a, <3>1, <3>2, TotalType
  <2>2. QED
    BY <2>1
<1>14. Total(p, s) = p[x] + Total(p, r)
  <2>1. \A w \in s : p[w] \in Int
    BY <1>3, <1>13
  <2>2. QED
    BY <1>11, <2>1, TotalRemove
<1>15. Total(f, Parts(part, r) \cup part[x]) = Total(f, Parts(part, r)) + Total(f, part[x])
  <2>1. \A i \in Parts(part, r) \cup part[x] : f[i] \in Int
    BY <1>6, <1>8, <1>9
  <2>2. QED
    BY <1>10, <1>12, <2>1, TotalUnion
<1>16. p[x] = Total(f, part[x])
  BY <1>6, <1>a
<1>17. Total(f, Parts(part, r)) \in Int /\ Total(f, part[x]) \in Int
  <2>1. /\ \A i \in Parts(part, r) : f[i] \in Int
        /\ \A i \in part[x] : f[i] \in Int
    BY <1>6, <1>8, <1>9
  <2>2. QED
    BY <1>12, <2>1, TotalType
<1>18. ASSUME NEW a \in Int, NEW b \in Int PROVE a + b = b + a
  OBVIOUS
<1>19. Total(f, part[x]) + Total(f, Parts(part, r)) = Total(f, Parts(part, r)) + Total(f, part[x])
  BY <1>17, <1>18
<1>20. QED
  BY <1>3, <1>7, <1>9, <1>14, <1>15, <1>16, <1>19

-----------------------------------------------------------------------------
(* Quantities of records *)

\* A sum of quantities is the sum of the function that gives them.
QtyTotal(f, S) == MapThenSumSet(LAMBDA i : f[i].qty, S)

LEMMA QtyTotalIsTotal ==
  ASSUME NEW f, NEW S, IsFiniteSet(S)
  PROVE  QtyTotal(f, S) = Total([i \in S |-> f[i].qty], S)
<1> DEFINE q == [i \in S |-> f[i].qty]
           Adds(g) == g = [s \in SUBSET S |->
                             IF s = {} THEN 0 ELSE f[First(s)].qty + g[s \ {First(s)}]]
           it == CHOOSE g : Adds(g)
<1>1. QtyTotal(f, S) = it[S]
  BY DEF QtyTotal, MapThenSumSet, MapThenFoldSet, First
<1>2. \A s \in SUBSET S : s # {} => q[First(s)] = f[First(s)].qty
  BY FirstIn
<1>3. PICK g : Sums(g, q, S)
  BY SumsExist
<1>4. Adds(g)
  BY <1>2, <1>3 DEF Sums
<1>5. Adds(it)
  BY <1>4
<1>6. Sums(it, q, S)
  <2> HIDE DEF it
  <2>1. QED
    BY <1>2, <1>5 DEF Sums
<1>7. QED
  BY <1>1, <1>6, TotalOfSubset
-----------------------------------------------------------------------------
(* Folds over numbers, from the least to the greatest *)

Numbers(S) == \A i \in S : i \in Int

\* The elements of S folded into base, in their order: F takes an element and
\* the value so far.
InOrder(g, F, base, S) ==
  g = [s \in SUBSET S |-> IF s = {} THEN base ELSE F[<<Max(s), g[s \ {Max(s)}]>>]]
FoldOf(F, base, S) ==
  MapThenFoldSet(LAMBDA i, w : F[<<i, w>>], base, LAMBDA i : i, Max, S)

LEMMA NumbersIn ==
  ASSUME NEW S, Numbers(S), NEW T, T \subseteq S
  PROVE  Numbers(T)
BY DEF Numbers

\* A finite set of numbers has a greatest one.
LEMMA MaxIsGreatest ==
  ASSUME NEW S, IsFiniteSet(S), Numbers(S), S # {}
  PROVE  Max(S) \in S /\ \A y \in S : Max(S) >= y
<1> DEFINE Has(s) == \E x \in s : \A y \in s : x >= y
           B == {s \in SUBSET S : s # {} /\ ~Has(s)}
<1>1. SUFFICES ASSUME B # {} PROVE FALSE
  <2> HIDE DEF B
  <2>1. S \notin B
    BY <1>1
  <2>2. Has(S)
    BY <2>1 DEF B
  <2>3. QED
    BY <2>2 DEF Max
<1>2. PICK s \in B : \A t \in B : t \subseteq s => t = s
  <2> HIDE DEF B
  <2>1. B \subseteq SUBSET S
    BY DEF B
  <2>2. QED
    BY <1>1, <2>1, SmallestSubset
<1>3. PICK x \in s : TRUE
  OBVIOUS
<1>4. s \ {x} \notin B
  BY <1>2, <1>3
<1>5. CASE s \ {x} = {}
  <2>1. s = {x} /\ x \in Int
    BY <1>3, <1>5 DEF Numbers
  <2>2. Has(s)
    BY <2>1
  <2>3. QED
    BY <2>2
<1>6. CASE s \ {x} # {}
  <2>1. PICK z \in s \ {x} : \A y \in s \ {x} : z >= y
    BY <1>4, <1>6
  <2>2. x \in Int /\ z \in Int /\ Numbers(s)
    BY DEF Numbers
  <2>3. Has(s)
    <3>1. CASE x >= z
      <4>1. \A y \in s : x >= y
        BY <2>1, <2>2, <3>1
      <4>2. QED
        BY <4>1
    <3>2. CASE z >= x
      <4>1. \A y \in s : z >= y
        BY <2>1, <2>2, <3>2
      <4>2. QED
        BY <4>1
    <3>3. QED
      BY <2>2, <3>1, <3>2
  <2>4. QED
    BY <2>3
<1>7. QED
  BY <1>5, <1>6

LEMMA InOrderUnique ==
  ASSUME NEW F, NEW base, NEW S, NEW T, IsFiniteSet(S), Numbers(S),
         NEW g, NEW h, InOrder(g, F, base, S), InOrder(h, F, base, T)
  PROVE  \A s \in SUBSET (S \cap T) : g[s] = h[s]
<1> DEFINE B == {s \in SUBSET (S \cap T) : g[s] # h[s]}
<1>1. SUFFICES ASSUME B # {} PROVE FALSE
  OBVIOUS
<1>2. IsFiniteSet(S \cap T)
  BY FS_Subset, NumbersIn
<1>3. PICK s \in B : \A t \in B : t \subseteq s => t = s
  <2> HIDE DEF B
  <2>1. B \subseteq SUBSET (S \cap T)
    BY DEF B
  <2>2. QED
    BY <1>1, <1>2, <2>1, SmallestSubset
<1>4. s \in SUBSET S /\ s \in SUBSET T /\ g[s] # h[s]
  OBVIOUS
<1>5. /\ g[s] = IF s = {} THEN base ELSE F[<<Max(s), g[s \ {Max(s)}]>>]
      /\ h[s] = IF s = {} THEN base ELSE F[<<Max(s), h[s \ {Max(s)}]>>]
  BY <1>4 DEF InOrder
<1>6. s # {}
  BY <1>4, <1>5
<1>7. Max(s) \in s
  BY <1>4, <1>6, FS_Subset, NumbersIn, MaxIsGreatest
<1>8. s \ {Max(s)} \notin B
  BY <1>3, <1>7
<1>9. g[s \ {Max(s)}] = h[s \ {Max(s)}]
  BY <1>8
<1>10. QED
  BY <1>4, <1>5, <1>9

LEMMA InOrderExists ==
  ASSUME NEW F, NEW base, NEW S, IsFiniteSet(S), Numbers(S)
  PROVE  \E g : InOrder(g, F, base, S)
<1> DEFINE B == {s \in SUBSET S : ~ \E g : InOrder(g, F, base, s)}
<1>1. SUFFICES ASSUME B # {} PROVE FALSE
  OBVIOUS
<1>2. PICK s \in B : \A t \in B : t \subseteq s => t = s
  <2> HIDE DEF B
  <2>1. B \subseteq SUBSET S
    BY DEF B
  <2>2. QED
    BY <1>1, <2>1, SmallestSubset
<1> DEFINE Of(t) == CHOOSE g : InOrder(g, F, base, t)
           rest(t) == t \ {Max(t)}
           fold == [t \in SUBSET s |->
                      IF t = {} THEN base ELSE F[<<Max(t), Of(rest(t))[rest(t)]>>]]
<1>a. \A t \in SUBSET s : IsFiniteSet(t) /\ Numbers(t) /\ (t # {} => Max(t) \in t)
  BY FS_Subset, NumbersIn, MaxIsGreatest
<1>3. ASSUME NEW t \in SUBSET s, t # s PROVE InOrder(Of(t), F, base, t)
  <2>1. t \notin B
    BY <1>2, <1>3
  <2>2. \E g : InOrder(g, F, base, t)
    BY <2>1
  <2>3. QED
    BY <2>2
<1>4. ASSUME NEW t \in SUBSET s, t # {} PROVE fold[rest(t)] = Of(rest(t))[rest(t)]
  <2> DEFINE u == rest(t)
  <2>1. u \in SUBSET s /\ u # s
    BY <1>4, <1>a
  <2>2. InOrder(Of(u), F, base, u)
    BY <1>3, <2>1
  <2> HIDE DEF Of
  <2>3. Of(u)[u] = IF u = {} THEN base ELSE F[<<Max(u), Of(u)[rest(u)]>>]
    BY <2>2 DEF InOrder
  <2>4. CASE u = {}
    BY <2>1, <2>3, <2>4
  <2>5. CASE u # {}
    <3>1. rest(u) \in SUBSET s /\ rest(u) # s /\ rest(u) \subseteq u
      BY <2>1, <2>5, <1>a
    <3>2. InOrder(Of(rest(u)), F, base, rest(u))
      BY <1>3, <3>1
    <3>3. IsFiniteSet(u) /\ Numbers(u)
      BY <2>1, <1>a
    <3>4. Of(u)[rest(u)] = Of(rest(u))[rest(u)]
      <4> DEFINE v == rest(u)
      <4>1. v \in SUBSET (u \cap v)
        BY <3>1
      <4> HIDE DEF v, u
      <4>2. QED
        BY <2>2, <3>2, <3>3, <4>1, InOrderUnique DEF v
    <3>5. QED
      BY <2>1, <2>3, <2>5, <3>4
  <2>6. QED
    BY <2>4, <2>5
<1>5. InOrder(fold, F, base, s)
  <2> HIDE DEF Of
  <2>1. fold = [t \in SUBSET s |-> IF t = {} THEN base ELSE F[<<Max(t), fold[rest(t)]>>]]
    BY <1>4
  <2>2. QED
    BY <2>1 DEF InOrder
<1>6. QED
  BY <1>5

\* MapThenFoldSet is the fold it says.
LEMMA FoldIsInOrder ==
  ASSUME NEW F, NEW base, NEW S, IsFiniteSet(S), Numbers(S),
         NEW g, InOrder(g, F, base, S), NEW s \in SUBSET S
  PROVE  FoldOf(F, base, s) = g[s]
<1> DEFINE it == CHOOSE h : InOrder(h, F, base, s)
<1>1. FoldOf(F, base, s) = it[s]
  BY DEF FoldOf, MapThenFoldSet, InOrder
<1>2. IsFiniteSet(s) /\ Numbers(s)
  BY FS_Subset, NumbersIn
<1>3. InOrder(it, F, base, s)
  BY <1>2, InOrderExists
<1>4. s \in SUBSET (S \cap s)
  OBVIOUS
<1> HIDE DEF it
<1>5. it[s] = g[s]
  BY <1>2, <1>3, <1>4, InOrderUnique
<1>6. QED
  BY <1>1, <1>5

\* The greatest element is folded in last.
LEMMA FoldLast ==
  ASSUME NEW F, NEW base, NEW S, IsFiniteSet(S), Numbers(S)
  PROVE  FoldOf(F, base, S) =
           IF S = {} THEN base ELSE F[<<Max(S), FoldOf(F, base, S \ {Max(S)})>>]
<1>1. PICK g : InOrder(g, F, base, S)
  BY InOrderExists
<1>2. /\ FoldOf(F, base, S) = g[S]
      /\ FoldOf(F, base, S \ {Max(S)}) = g[S \ {Max(S)}]
  BY <1>1, FoldIsInOrder
<1>3. g[S] = IF S = {} THEN base ELSE F[<<Max(S), g[S \ {Max(S)}]>>]
  BY <1>1 DEF InOrder
<1>4. QED
  BY <1>2, <1>3

\* What every step keeps, the fold keeps.
LEMMA FoldIn ==
  ASSUME NEW F, NEW W, NEW base \in W, NEW S, IsFiniteSet(S), Numbers(S),
         \A i \in S, w \in W : F[<<i, w>>] \in W
  PROVE  FoldOf(F, base, S) \in W
<1> DEFINE B == {s \in SUBSET S : FoldOf(F, base, s) \notin W}
<1>1. SUFFICES ASSUME B # {} PROVE FALSE
  <2> HIDE DEF B
  <2>1. S \notin B
    BY <1>1
  <2>2. QED
    BY <2>1 DEF B
<1>2. PICK s \in B : \A t \in B : t \subseteq s => t = s
  <2> HIDE DEF B
  <2>1. B \subseteq SUBSET S
    BY DEF B
  <2>2. QED
    BY <1>1, <2>1, SmallestSubset
<1>3. IsFiniteSet(s) /\ Numbers(s)
  BY FS_Subset, NumbersIn
<1>4. FoldOf(F, base, s) =
        IF s = {} THEN base ELSE F[<<Max(s), FoldOf(F, base, s \ {Max(s)})>>]
  BY <1>3, FoldLast
<1>5. s # {}
  BY <1>4
<1>6. Max(s) \in s
  BY <1>3, <1>5, MaxIsGreatest
<1>7. FoldOf(F, base, s \ {Max(s)}) \in W
  <2>1. s \ {Max(s)} \notin B
    BY <1>2, <1>6
  <2>2. QED
    BY <2>1
<1>8. QED
  BY <1>4, <1>5, <1>6, <1>7

\* Two folds whose steps agree, up to a function of the value, agree up to it.
MappedSteps(F, G, h, W, S) ==
  \A i \in S, w \in W : F[<<i, w>>] \in W /\ h[F[<<i, w>>]] = G[<<i, h[w]>>]

LEMMA FoldMapped ==
  ASSUME NEW F, NEW G, NEW h, NEW W, NEW base \in W,
         NEW S, IsFiniteSet(S), Numbers(S), MappedSteps(F, G, h, W, S)
  PROVE  h[FoldOf(F, base, S)] = FoldOf(G, h[base], S)
<1> DEFINE B == {s \in SUBSET S : h[FoldOf(F, base, s)] # FoldOf(G, h[base], s)}
<1>1. SUFFICES ASSUME B # {} PROVE FALSE
  <2> HIDE DEF B
  <2>1. S \notin B
    BY <1>1
  <2>2. QED
    BY <2>1 DEF B
<1>2. PICK s \in B : \A t \in B : t \subseteq s => t = s
  <2> HIDE DEF B
  <2>1. B \subseteq SUBSET S
    BY DEF B
  <2>2. QED
    BY <1>1, <2>1, SmallestSubset
<1>3. IsFiniteSet(s) /\ Numbers(s) /\ s \subseteq S
  BY FS_Subset, NumbersIn
<1> DEFINE r == s \ {Max(s)}
<1>4. /\ FoldOf(F, base, s) = IF s = {} THEN base ELSE F[<<Max(s), FoldOf(F, base, r)>>]
      /\ FoldOf(G, h[base], s) =
           IF s = {} THEN h[base] ELSE G[<<Max(s), FoldOf(G, h[base], r)>>]
  BY <1>3, FoldLast
<1>5. s # {}
  BY <1>4
<1>6. Max(s) \in s /\ Max(s) \in S
  BY <1>3, <1>5, MaxIsGreatest
<1>7. FoldOf(F, base, r) \in W
  <2>1. IsFiniteSet(r) /\ Numbers(r) /\ r \subseteq S
    BY <1>3, FS_Subset, NumbersIn
  <2> HIDE DEF r
  <2>2. \A i \in r, w \in W : F[<<i, w>>] \in W
    BY <2>1 DEF MappedSteps
  <2>3. QED
    BY <2>1, <2>2, FoldIn
<1>8. h[FoldOf(F, base, r)] = FoldOf(G, h[base], r)
  <2>1. r \notin B
    BY <1>2, <1>6
  <2>2. r \in SUBSET S
    BY <1>3
  <2> HIDE DEF r
  <2>3. QED
    BY <2>1, <2>2
<1>9. h[F[<<Max(s), FoldOf(F, base, r)>>]] = G[<<Max(s), h[FoldOf(F, base, r)]>>]
  BY <1>6, <1>7 DEF MappedSteps
<1>10. h[FoldOf(F, base, s)] = FoldOf(G, h[base], s)
  <2> HIDE DEF r
  <2>1. QED
    BY <1>4, <1>5, <1>8, <1>9
<1>11. QED
  BY <1>10

\* Elements that come after those folded already are folded into the result.
LEMMA FoldMore ==
  ASSUME NEW F, NEW base, NEW S, IsFiniteSet(S), Numbers(S),
         NEW T, IsFiniteSet(T), Numbers(T), \A i \in S, j \in T : i < j
  PROVE  FoldOf(F, base, S \cup T) = FoldOf(F, FoldOf(F, base, S), T)
<1> DEFINE b == FoldOf(F, base, S)
           B == {s \in SUBSET T : FoldOf(F, base, S \cup s) # FoldOf(F, b, s)}
<1>1. SUFFICES ASSUME B # {} PROVE FALSE
  <2> HIDE DEF B
  <2>1. T \notin B
    BY <1>1
  <2>2. QED
    BY <2>1 DEF B
<1>2. PICK s \in B : \A t \in B : t \subseteq s => t = s
  <2> HIDE DEF B
  <2>1. B \subseteq SUBSET T
    BY DEF B
  <2>2. QED
    BY <1>1, <2>1, SmallestSubset
<1>3. IsFiniteSet(s) /\ Numbers(s) /\ s \subseteq T
  BY FS_Subset, NumbersIn
<1>4. IsFiniteSet(S \cup s) /\ Numbers(S \cup s)
  BY <1>3, FS_Union DEF Numbers
<1> DEFINE m == Max(s)
           r == s \ {m}
<1>5. FoldOf(F, b, s) = IF s = {} THEN b ELSE F[<<m, FoldOf(F, b, r)>>]
  BY <1>3, FoldLast
<1>6. s # {}
  <2>1. S \cup {} = S
    OBVIOUS
  <2>2. QED
    BY <1>5, <2>1
<1>7. m \in s /\ \A y \in s : m >= y
  BY <1>3, <1>6, MaxIsGreatest
<1>8. Max(S \cup s) = m
  <2> HIDE DEF m
  <2>1. m \in S \cup s /\ m \in Int /\ m \in T
    BY <1>3, <1>7 DEF Numbers
  <2>2. \A y \in S \cup s : m >= y
    <3>1. \A y \in S : y < m /\ y \in Int
      BY <2>1 DEF Numbers
    <3>2. QED
      BY <1>7, <2>1, <3>1
  <2>3. Max(S \cup s) \in S \cup s /\ Max(S \cup s) >= m
    BY <1>4, <2>1, MaxIsGreatest
  <2>4. m >= Max(S \cup s) /\ Max(S \cup s) \in Int
    BY <1>4, <2>2, <2>3 DEF Numbers
  <2>5. QED
    BY <2>1, <2>3, <2>4
<1>9. (S \cup s) \ {m} = S \cup r
  <2>1. m \notin S
    <3> HIDE DEF m
    <3>1. m \in T /\ m \in Int
      BY <1>3, <1>7 DEF Numbers
    <3>2. ~(m < m)
      BY <3>1
    <3>3. QED
      BY <3>1, <3>2
  <2>2. QED
    BY <2>1
<1>10. FoldOf(F, base, S \cup s) = F[<<m, FoldOf(F, base, S \cup r)>>]
  <2> DEFINE u == S \cup s
  <2>1. FoldOf(F, base, u) = IF u = {} THEN base ELSE F[<<Max(u), FoldOf(F, base, u \ {Max(u)})>>]
    BY <1>4, FoldLast
  <2>2. u # {}
    BY <1>6
  <2>3. Max(u) = m /\ u \ {Max(u)} = S \cup r
    BY <1>8, <1>9
  <2> HIDE DEF m, r
  <2>4. QED
    BY <2>1, <2>2, <2>3
<1>11. FoldOf(F, base, S \cup r) = FoldOf(F, b, r)
  <2>1. r \notin B
    BY <1>2, <1>7
  <2>2. r \in SUBSET T
    BY <1>3
  <2> HIDE DEF r, b
  <2>3. QED
    BY <2>1, <2>2
<1>12. FoldOf(F, base, S \cup s) = FoldOf(F, b, s)
  <2> HIDE DEF m, r, b
  <2>1. QED
    BY <1>5, <1>6, <1>10, <1>11
<1>13. QED
  BY <1>12
\* Only the steps on the elements count.
SameSteps(F, G, W, S) ==
  \A i \in S, w \in W : F[<<i, w>>] \in W /\ F[<<i, w>>] = G[<<i, w>>]

LEMMA FoldSame ==
  ASSUME NEW F, NEW G, NEW W, NEW base \in W, NEW S, IsFiniteSet(S), Numbers(S),
         SameSteps(F, G, W, S)
  PROVE  FoldOf(F, base, S) = FoldOf(G, base, S)
<1> DEFINE h == [w \in W |-> w]
<1>1. MappedSteps(F, G, h, W, S)
  BY DEF MappedSteps, SameSteps
<1>2. FoldOf(F, base, S) \in W
  <2>1. \A i \in S, w \in W : F[<<i, w>>] \in W
    BY DEF SameSteps
  <2>2. QED
    BY <2>1, FoldIn
<1>3. h[base] = base /\ h[FoldOf(F, base, S)] = FoldOf(F, base, S)
  BY <1>2
<1> HIDE DEF h
<1>4. h[FoldOf(F, base, S)] = FoldOf(G, h[base], S)
  BY <1>1, FoldMapped
<1>5. QED
  BY <1>3, <1>4

LEMMA MaxOfTwo ==
  ASSUME NEW a \in Int, NEW b \in Int
  PROVE  Max({a, b}) = IF a >= b THEN a ELSE b
BY DEF Max
=============================================================================
