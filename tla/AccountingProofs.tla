-------------------------- MODULE AccountingProofs --------------------------
(* Theorems about Accounting: for every set of orders, views and threads.    *)
EXTENDS Accounting, Sums, SequenceTheorems

-----------------------------------------------------------------------------
(* One fill *)

Costed(prev, cost, signed, px) ==
  /\ CostOut(prev, cost, signed) \in Int
  /\ Realized(prev, cost, signed, px) \in Int
  /\ NewCost(prev, cost, signed, px) \in Int

\* The smaller of two numbers is one of them.
LEMMA MinOfTwo ==
  ASSUME NEW a \in Int, NEW b \in Int
  PROVE  Min({a, b}) = IF a <= b THEN a ELSE b
BY DEF Min

LEMMA MagnitudeType ==
  ASSUME NEW n \in Int
  PROVE  /\ Magnitude(n) \in Nat
         /\ n > 0 => Magnitude(n) = n
         /\ n < 0 => Magnitude(n) = -n
         /\ n # 0 => Magnitude(n) > 0
BY DEF Magnitude

LEMMA CostOutType ==
  ASSUME NEW prev \in Int, NEW cost \in Int, NEW signed \in Int
  PROVE  CostOut(prev, cost, signed) \in Int
<1> DEFINE m == Magnitude(signed)
           p == Magnitude(prev)
<1>1. m \in Nat /\ p \in Nat
  BY MagnitudeType
<1>2. CASE m >= p
  BY <1>2 DEF CostOut
<1>3. CASE ~(m >= p)
  <2>1. p > 0 /\ CostOut(prev, cost, signed) = (cost * m) \div p
    BY <1>1, <1>3 DEF CostOut
  <2> HIDE DEF m, p
  <2>2. cost * m \in Int
    BY <1>1
  <2>3. (cost * m) \div p \in Int
    BY <1>1, <2>1, <2>2
  <2>4. QED
    BY <2>1, <2>3
<1>4. QED
  BY <1>2, <1>3

LEMMA CostsTyped ==
  ASSUME NEW prev \in Int, NEW cost \in Int, NEW signed \in Int, NEW px \in Int
  PROVE  Costed(prev, cost, signed, px)
<1> DEFINE out == CostOut(prev, cost, signed)
           least == Min({Magnitude(signed), Magnitude(prev)})
           way == IF prev > 0 THEN 1 ELSE -1
<1>1. out \in Int
  BY CostOutType
<1>2. least \in Int
  BY MagnitudeType, MinOfTwo
<1>3. way \in Int
  OBVIOUS
<1>4. Realized(prev, cost, signed, px) = way * least * px - out
  BY DEF Realized
<1>5. \A a \in Int, b \in Int, c \in Int : a * b * px - c \in Int
  OBVIOUS
<1>6. Realized(prev, cost, signed, px) \in Int
  <2> HIDE DEF out, least, way
  <2>1. QED
    BY <1>1, <1>2, <1>3, <1>4, <1>5
<1>7. NewCost(prev, cost, signed, px) \in Int
  <2>1. signed * px \in Int /\ (prev + signed) * px \in Int
    OBVIOUS
  <2> HIDE DEF out
  <2>2. QED
    BY <1>1, <2>1 DEF NewCost, out
<1>8. QED
  BY <1>1, <1>6, <1>7 DEF Costed

\* The sign of a fill and the one of the position it meets.
LEMMA Against ==
  ASSUME NEW prev \in Int, NEW signed \in Int, ~Opens(prev, signed)
  PROVE  \/ prev > 0 /\ signed <= 0 /\ Magnitude(prev) = prev /\ Magnitude(signed) = -signed
         \/ prev < 0 /\ signed > 0 /\ Magnitude(prev) = -prev /\ Magnitude(signed) = signed
BY DEF Opens, Magnitude

\* What leaves the cost of a position is what comes back as cash, and what the
\* fill earns.
LEMMA FillConserves ==
  ASSUME NEW prev \in Int, NEW cost \in Int, NEW signed \in Int, NEW px \in Int
  PROVE  NewCost(prev, cost, signed, px) - signed * px =
           cost + (IF Opens(prev, signed) THEN 0 ELSE Realized(prev, cost, signed, px))
<1> DEFINE out == CostOut(prev, cost, signed)
           m == Magnitude(signed)
           p == Magnitude(prev)
<1>1. out \in Int /\ m \in Nat /\ p \in Nat /\ signed * px \in Int
  BY CostOutType, MagnitudeType
<1>2. CASE Opens(prev, signed)
  <2>1. NewCost(prev, cost, signed, px) = cost + signed * px
    BY <1>2 DEF NewCost
  <2>2. QED
    BY <1>1, <1>2, <2>1
<1>3. CASE ~Opens(prev, signed)
  <2> DEFINE way == IF prev > 0 THEN 1 ELSE -1
             least == Min({m, p})
  <2>1. Realized(prev, cost, signed, px) = way * least * px - out
    BY DEF Realized
  <2>2. CASE m > p
    <3>1. NewCost(prev, cost, signed, px) = (prev + signed) * px
      BY <1>3, <2>2 DEF NewCost
    <3>2. out = cost
      BY <1>1, <2>2 DEF CostOut
    <3>3. least = p
      BY <1>1, <2>2, MinOfTwo
    <3>4. way * p = prev
      BY <1>3, Against
    <3>5. (prev + signed) * px - signed * px = prev * px
      OBVIOUS
    <3>6. way * least * px = prev * px
      BY <3>3, <3>4
    <3>7. prev * px \in Int
      OBVIOUS
    <3> HIDE DEF way, least, out, m, p
    <3>8. cost + (prev * px - cost) = prev * px
      BY <3>7
    <3>9. QED
      BY <1>3, <2>1, <3>1, <3>2, <3>5, <3>6, <3>8
  <2>3. CASE m <= p
    <3>1. NewCost(prev, cost, signed, px) = cost - out
      BY <1>1, <1>3, <2>3 DEF NewCost
    <3>2. least = m
      BY <1>1, <2>3, MinOfTwo
    <3>3. way * m = -signed
      BY <1>3, Against
    <3>4. way * least * px = (-signed) * px
      BY <3>2, <3>3
    <3>5. (-signed) * px = -(signed * px)
      OBVIOUS
    <3> HIDE DEF way, least, out, m, p
    <3>6. cost - out - signed * px = cost + (-(signed * px) - out)
      BY <1>1
    <3>7. QED
      BY <1>3, <2>1, <3>1, <3>4, <3>5, <3>6
  <2>4. QED
    BY <1>1, <2>2, <2>3
<1>4. QED
  BY <1>2, <1>3

\* What one fill makes of a walk.
Folded(walk, id, row, w) ==
  /\ w \in Walks /\ w.last = id
  /\ w.cash + Total(w.cost, Symbols) - Total(w.realized, Symbols)
       = walk.cash + Total(walk.cost, Symbols) - Total(walk.realized, Symbols)

LEMMA ApplyFillWorks ==
  ASSUME NEW walk \in Walks, NEW id \in Nat, NEW row \in OrderRows
  PROVE  Folded(walk, id, row, ApplyFill(walk, id, row))
<1> DEFINE s == row.symbol
           signed == Signed(row)
           prev == walk.qty[s]
           cost == walk.cost[s]
           earned == IF Opens(prev, signed) THEN 0 ELSE Realized(prev, cost, signed, row.px)
           new == NewCost(prev, cost, signed, row.px)
           w == ApplyFill(walk, id, row)
<1>1. /\ s \in Symbols /\ signed \in Int /\ prev \in Int /\ cost \in Int /\ row.px \in Int
      /\ walk.cash \in Int /\ walk.realized[s] \in Int
      /\ walk.qty \in [Symbols -> Int] /\ walk.cost \in [Symbols -> Int]
      /\ walk.realized \in [Symbols -> Int]
  BY DEF Walks, OrderRows, Signed
<1>2. new \in Int /\ earned \in Int /\ signed * row.px \in Int
  <2>1. Costed(prev, cost, signed, row.px)
    BY <1>1, CostsTyped
  <2> HIDE DEF s, signed, prev, cost
  <2>2. signed * row.px \in Int
    BY <1>1
  <2>3. QED
    BY <2>1, <2>2 DEF Costed
<1>3. w = [cash |-> walk.cash - signed * row.px,
           qty |-> [walk.qty EXCEPT ![s] = prev + signed],
           cost |-> [walk.cost EXCEPT ![s] = new],
           realized |-> [walk.realized EXCEPT ![s] = @ + earned],
           last |-> id]
  BY DEF ApplyFill
<1> HIDE DEF s, signed, prev, cost, earned, new, w
<1>4. w \in Walks /\ w.last = id
  BY <1>1, <1>2, <1>3 DEF Walks
<1>5. Total(w.cost, Symbols) = Total(walk.cost, Symbols) + (new - cost)
  <2>1. /\ \A i \in Symbols : walk.cost[i] \in Int /\ w.cost[i] \in Int
        /\ \A i \in Symbols \ {s} : w.cost[i] = walk.cost[i]
        /\ w.cost[s] = new
    BY <1>1, <1>2, <1>3
  <2>2. IsFiniteSet(Symbols)
    BY AccountingAssumption
  <2>3. QED
    BY <1>1, <2>1, <2>2, TotalChange DEF cost
<1>6. Total(w.realized, Symbols) = Total(walk.realized, Symbols) + earned
  <2>1. /\ \A i \in Symbols : walk.realized[i] \in Int /\ w.realized[i] \in Int
        /\ \A i \in Symbols \ {s} : w.realized[i] = walk.realized[i]
        /\ w.realized[s] = walk.realized[s] + earned
    BY <1>1, <1>2, <1>3
  <2>2. IsFiniteSet(Symbols)
    BY AccountingAssumption
  <2>3. Total(w.realized, Symbols) =
          Total(walk.realized, Symbols) + (w.realized[s] - walk.realized[s])
    BY <1>1, <2>1, <2>2, TotalChange
  <2>4. w.realized[s] - walk.realized[s] = earned
    BY <1>1, <1>2, <2>1
  <2>5. QED
    BY <2>3, <2>4
<1>7. Total(walk.cost, Symbols) \in Int /\ Total(walk.realized, Symbols) \in Int
  <2>1. \A i \in Symbols : walk.cost[i] \in Int /\ walk.realized[i] \in Int
    BY <1>1
  <2>2. QED
    BY <2>1, AccountingAssumption, TotalType
<1>8. new - signed * row.px = cost + earned
  <2>1. \A q \in Int, c \in Int, n \in Int, x \in Int :
          NewCost(q, c, n, x) - n * x =
            c + (IF Opens(q, n) THEN 0 ELSE Realized(q, c, n, x))
    BY FillConserves
  <2> DEFINE px == row.px
  <2>2. px \in Int
    BY <1>1
  <2> HIDE DEF px
  <2>3. NewCost(prev, cost, signed, px) - signed * px =
          cost + (IF Opens(prev, signed) THEN 0 ELSE Realized(prev, cost, signed, px))
    BY <1>1, <2>1, <2>2
  <2>4. QED
    BY <2>3 DEF new, earned, px
<1>9. w.cash = walk.cash - signed * row.px
  BY <1>3
<1> DEFINE c == Total(walk.cost, Symbols)
           r == Total(walk.realized, Symbols)
           paid == signed * row.px
<1>10. w.cash + Total(w.cost, Symbols) - Total(w.realized, Symbols) = walk.cash + c - r
  <2>1. w.cash + Total(w.cost, Symbols) - Total(w.realized, Symbols)
          = (walk.cash - paid) + (c + (new - cost)) - (r + earned)
    BY <1>5, <1>6, <1>9
  <2>2. c \in Int /\ r \in Int /\ paid \in Int /\ new - paid = cost + earned
    BY <1>2, <1>7, <1>8
  <2> HIDE DEF c, r, paid
  <2>3. (walk.cash - paid) + (c + (new - cost)) - (r + earned) = walk.cash + c - r
    BY <1>1, <1>2, <2>2
  <2>4. QED
    BY <2>1, <2>3
<1>11. QED
  BY <1>4, <1>10 DEF Folded, w
-----------------------------------------------------------------------------
(* Walks *)

\* Ids of order rows.
Recorded(table, ids) ==
  /\ IsFiniteSet(ids) /\ Numbers(ids)
  /\ \A i \in ids : i \in Nat /\ table[i] \in OrderRows

LEMMA RecordedIn ==
  ASSUME NEW table, NEW ids, Recorded(table, ids), NEW s, s \subseteq ids
  PROVE  Recorded(table, s)
BY FS_Subset, NumbersIn DEF Recorded

\* A walk is the fold of this step.
FillStep(table) == [p \in Nat \X Walks |-> ApplyFill(p[2], p[1], table[p[1]])]

LEMMA FillStepIs ==
  ASSUME NEW table, NEW ids, Recorded(table, ids), NEW i \in ids, NEW w \in Walks
  PROVE  /\ FillStep(table)[<<i, w>>] = ApplyFill(w, i, table[i])
         /\ FillStep(table)[<<i, w>>] \in Walks
         /\ Folded(w, i, table[i], ApplyFill(w, i, table[i]))
<1>1. i \in Nat /\ table[i] \in OrderRows
  BY DEF Recorded
<1>2. FillStep(table)[<<i, w>>] = ApplyFill(w, i, table[i])
  <2>1. <<i, w>> \in Nat \X Walks
    BY <1>1
  <2>2. QED
    BY <2>1 DEF FillStep
<1>3. Folded(w, i, table[i], ApplyFill(w, i, table[i]))
  BY <1>1, ApplyFillWorks
<1>4. QED
  BY <1>2, <1>3 DEF Folded

LEMMA WalkIsFold ==
  ASSUME NEW table, NEW ids, Recorded(table, ids), NEW walk \in Walks
  PROVE  Walk(walk, table, ids) = FoldOf(FillStep(table), walk, ids)
<1> DEFINE F == FillStep(table)
           Folds(g) == g = [s \in SUBSET ids |->
                              IF s = {} THEN walk
                              ELSE ApplyFill(g[s \ {Max(s)}], Max(s), table[Max(s)])]
           it == CHOOSE g : Folds(g)
<1>1. Walk(walk, table, ids) = it[ids]
  BY DEF Walk, MapThenFoldSet
<1>2. IsFiniteSet(ids) /\ Numbers(ids)
  BY DEF Recorded
<1>3. PICK g : InOrder(g, F, walk, ids)
  BY <1>2, InOrderExists
<1>4. ASSUME NEW s \in SUBSET ids, s # {}
      PROVE  Max(s) \in s /\ s \ {Max(s)} \in SUBSET ids
  BY <1>2, <1>4, FS_Subset, NumbersIn, MaxIsGreatest
<1>5. \A i \in ids, w \in Walks : F[<<i, w>>] \in Walks /\ F[<<i, w>>] = ApplyFill(w, i, table[i])
  BY FillStepIs
<1>6. ASSUME NEW h, InOrder(h, F, walk, ids), NEW s \in SUBSET ids PROVE h[s] \in Walks
  <2>1. IsFiniteSet(s) /\ Numbers(s)
    BY <1>2, FS_Subset, NumbersIn
  <2>2. FoldOf(F, walk, s) = h[s]
    BY <1>2, <1>6, FoldIsInOrder
  <2> HIDE DEF F
  <2>3. FoldOf(F, walk, s) \in Walks
    BY <1>5, <2>1, FoldIn
  <2>4. QED
    BY <2>2, <2>3
<1>7. Folds(g)
  <2>1. ASSUME NEW s \in SUBSET ids, s # {}
        PROVE  F[<<Max(s), g[s \ {Max(s)}]>>] =
                 ApplyFill(g[s \ {Max(s)}], Max(s), table[Max(s)])
    <3>1. Max(s) \in ids /\ g[s \ {Max(s)}] \in Walks
      BY <1>3, <1>4, <1>6, <2>1
    <3> HIDE DEF F
    <3>2. QED
      BY <1>5, <3>1
  <2> HIDE DEF F
  <2>2. QED
    BY <1>3, <2>1 DEF InOrder
<1>8. Folds(it)
  BY <1>7
<1>9. \A s \in SUBSET ids : it[s] = g[s]
  <2> DEFINE B == {s \in SUBSET ids : it[s] # g[s]}
  <2>1. SUFFICES ASSUME B # {} PROVE FALSE
    BY <2>1
  <2> HIDE DEF it, F
  <2>2. PICK s \in B : \A t \in B : t \subseteq s => t = s
    <3> HIDE DEF B
    <3>1. B \subseteq SUBSET ids
      BY DEF B
    <3>2. QED
      BY <1>2, <2>1, <3>1, SmallestSubset
  <2>3. s \in SUBSET ids /\ it[s] # g[s]
    OBVIOUS
  <2>4. /\ it[s] = IF s = {} THEN walk ELSE ApplyFill(it[s \ {Max(s)}], Max(s), table[Max(s)])
        /\ g[s] = IF s = {} THEN walk ELSE ApplyFill(g[s \ {Max(s)}], Max(s), table[Max(s)])
    BY <1>7, <1>8, <2>3
  <2>5. s # {}
    BY <2>3, <2>4
  <2>6. it[s \ {Max(s)}] = g[s \ {Max(s)}]
    BY <1>4, <2>2, <2>5
  <2>7. QED
    BY <2>3, <2>4, <2>5, <2>6
<1>10. FoldOf(F, walk, ids) = g[ids]
  BY <1>2, <1>3, FoldIsInOrder
<1>11. QED
  BY <1>1, <1>9, <1>10

\* A walk of fills comes to the last of them, and conserves value.
WalkedOver(walk, ids, w) ==
  /\ w \in Walks
  /\ w.last = (IF ids = {} THEN walk.last ELSE Max(ids))
  /\ w.cash + Total(w.cost, Symbols) - Total(w.realized, Symbols)
       = walk.cash + Total(walk.cost, Symbols) - Total(walk.realized, Symbols)

LEMMA WalkWorks ==
  ASSUME NEW table, NEW ids, Recorded(table, ids), NEW walk \in Walks
  PROVE  WalkedOver(walk, ids, Walk(walk, table, ids))
<1> DEFINE F == FillStep(table)
           value(x) == x.cash + Total(x.cost, Symbols) - Total(x.realized, Symbols)
           V == {x \in Walks : value(x) = value(walk)}
<1>1. IsFiniteSet(ids) /\ Numbers(ids)
  BY DEF Recorded
<1>2. \A i \in ids, x \in Walks :
         F[<<i, x>>] \in Walks /\ F[<<i, x>>].last = i /\ value(F[<<i, x>>]) = value(x)
  <2>1. ASSUME NEW i \in ids, NEW x \in Walks
        PROVE  F[<<i, x>>] \in Walks /\ F[<<i, x>>].last = i /\ value(F[<<i, x>>]) = value(x)
    <3>1. F[<<i, x>>] = ApplyFill(x, i, table[i]) /\ Folded(x, i, table[i], F[<<i, x>>])
      BY FillStepIs
    <3> HIDE DEF F
    <3>2. QED
      BY <3>1 DEF Folded
  <2>2. QED
    BY <2>1
<1>3. Walk(walk, table, ids) = FoldOf(F, walk, ids)
  BY WalkIsFold
<1> HIDE DEF F
<1>4. \A i \in ids, x \in V : F[<<i, x>>] \in V
  <2> HIDE DEF value
  <2>1. QED
    BY <1>2
<1>5. FoldOf(F, walk, ids) \in V
  <2>1. walk \in V
    OBVIOUS
  <2> HIDE DEF V
  <2>2. QED
    BY <1>1, <1>4, <2>1, FoldIn
<1>6. FoldOf(F, walk, ids).last = IF ids = {} THEN walk.last ELSE Max(ids)
  <2> DEFINE r == ids \ {Max(ids)}
  <2>1. FoldOf(F, walk, ids) = IF ids = {} THEN walk ELSE F[<<Max(ids), FoldOf(F, walk, r)>>]
    BY <1>1, FoldLast
  <2>2. CASE ids # {}
    <3>1. Max(ids) \in ids
      BY <1>1, <2>2, MaxIsGreatest
    <3>2. FoldOf(F, walk, r) \in Walks
      <4>1. IsFiniteSet(r) /\ Numbers(r) /\ r \subseteq ids
        BY <1>1, FS_Subset, NumbersIn
      <4> HIDE DEF r
      <4>2. \A i \in r, x \in Walks : F[<<i, x>>] \in Walks
        BY <1>2, <4>1
      <4>3. QED
        BY <4>1, <4>2, FoldIn
    <3> HIDE DEF r
    <3>3. QED
      BY <1>2, <2>1, <2>2, <3>1, <3>2
  <2>3. QED
    BY <2>1, <2>2
<1>7. QED
  BY <1>3, <1>5, <1>6 DEF WalkedOver

\* Later fills may be walked later.
LEMMA WalkMore ==
  ASSUME NEW table, NEW S, NEW T, Recorded(table, S), Recorded(table, T),
         \A i \in S, j \in T : i < j, NEW walk \in Walks
  PROVE  Walk(walk, table, S \cup T) = Walk(Walk(walk, table, S), table, T)
<1>1. Recorded(table, S \cup T)
  BY FS_Union DEF Recorded, Numbers
<1>2. /\ Walk(walk, table, S) = FoldOf(FillStep(table), walk, S)
      /\ Walk(walk, table, S \cup T) = FoldOf(FillStep(table), walk, S \cup T)
  BY <1>1, WalkIsFold
<1>3. Walk(walk, table, S) \in Walks
  BY WalkWorks DEF WalkedOver
<1>4. Walk(Walk(walk, table, S), table, T) = FoldOf(FillStep(table), Walk(walk, table, S), T)
  BY <1>3, WalkIsFold
<1>5. FoldOf(FillStep(table), walk, S \cup T)
        = FoldOf(FillStep(table), FoldOf(FillStep(table), walk, S), T)
  <2> DEFINE F == FillStep(table)
  <2> HIDE DEF F
  <2>1. IsFiniteSet(S) /\ Numbers(S) /\ IsFiniteSet(T) /\ Numbers(T)
    BY DEF Recorded
  <2>2. FoldOf(F, walk, S \cup T) = FoldOf(F, FoldOf(F, walk, S), T)
    BY <2>1, FoldMore
  <2>3. QED
    BY <2>2 DEF F
<1>6. QED
  BY <1>2, <1>4, <1>5

\* A walk does not look at the status of a row.
SameFill(old, new) ==
  [new EXCEPT !.status = ""] = [old EXCEPT !.status = ""]

LEMMA SameFillIs ==
  ASSUME NEW old \in OrderRows, NEW new \in OrderRows, SameFill(old, new)
  PROVE  /\ new.symbol = old.symbol /\ new.side = old.side /\ new.filled = old.filled
         /\ new.px = old.px /\ new.at = old.at /\ new.sub = old.sub
         /\ new.strategy = old.strategy
<1> DEFINE n == [new EXCEPT !.status = ""]
           o == [old EXCEPT !.status = ""]
<1>1. /\ n.symbol = new.symbol /\ n.side = new.side /\ n.filled = new.filled
      /\ n.px = new.px /\ n.at = new.at /\ n.sub = new.sub /\ n.strategy = new.strategy
  BY DEF OrderRows
<1>2. /\ o.symbol = old.symbol /\ o.side = old.side /\ o.filled = old.filled
      /\ o.px = old.px /\ o.at = old.at /\ o.sub = old.sub /\ o.strategy = old.strategy
  BY DEF OrderRows
<1>3. n = o
  BY DEF SameFill
<1> HIDE DEF n, o
<1>4. QED
  BY <1>1, <1>2, <1>3

LEMMA WalkSame ==
  ASSUME NEW old, NEW new, NEW ids, Recorded(old, ids), Recorded(new, ids),
         \A i \in ids : SameFill(old[i], new[i]), NEW walk \in Walks
  PROVE  Walk(walk, new, ids) = Walk(walk, old, ids)
<1> DEFINE F == FillStep(old)
           G == FillStep(new)
<1>1. ASSUME NEW i \in ids, NEW w \in Walks
      PROVE  F[<<i, w>>] \in Walks /\ F[<<i, w>>] = G[<<i, w>>]
  <2>1. /\ F[<<i, w>>] = ApplyFill(w, i, old[i]) /\ F[<<i, w>>] \in Walks
        /\ G[<<i, w>>] = ApplyFill(w, i, new[i])
    BY FillStepIs
  <2>2. /\ new[i].symbol = old[i].symbol /\ new[i].px = old[i].px
        /\ Signed(new[i]) = Signed(old[i])
    BY SameFillIs DEF Recorded, Signed
  <2>3. ApplyFill(w, i, old[i]) = ApplyFill(w, i, new[i])
    BY <2>2 DEF ApplyFill
  <2>4. QED
    BY <2>1, <2>3
<1>2. IsFiniteSet(ids) /\ Numbers(ids)
  BY DEF Recorded
<1>3. Walk(walk, old, ids) = FoldOf(F, walk, ids) /\ Walk(walk, new, ids) = FoldOf(G, walk, ids)
  BY WalkIsFold
<1> HIDE DEF F, G
<1>4. SameSteps(F, G, Walks, ids)
  BY <1>1 DEF SameSteps
<1>5. FoldOf(F, walk, ids) = FoldOf(G, walk, ids)
  BY <1>2, <1>4, FoldSame
<1>6. QED
  BY <1>3, <1>5
-----------------------------------------------------------------------------
(* Entries: a walk with its trail, its points marked at given steps *)

Steps == [Nat -> Nat]
Quote(s, k) == IF k < Len(History[s]) THEN History[s][1 + k] ELSE 0

\* FoldEntry over a given table.
Worth(walk, k) ==
  LET worth == [s \in Symbols |-> IF History[s] = <<>> THEN walk.cost[s]
                                  ELSE walk.qty[s] * Quote(s, k)]
  IN walk.cash + Total(worth, {s \in Symbols : walk.qty[s] # 0})

Priced(kind, table, entry, id, k) ==
  LET row == table[id]
      walk == ApplyFill(entry.walk, id, row)
      closes == ~Opens(entry.walk.qty[row.symbol], Signed(row))
      point == [id |-> id, closes |-> closes, at |-> row.at,
                amount |-> Total(walk.realized, Symbols) - Total(entry.walk.realized, Symbols),
                realized |-> StartingCash + Total(walk.realized, Symbols),
                equity |-> Worth(walk, k)]
  IN [walk |-> walk,
      trail |-> IF Keeps(kind, closes) THEN Append(entry.trail, point) ELSE entry.trail]

LEMMA QuoteType ==
  ASSUME NEW s \in Symbols, NEW k \in Nat
  PROVE  Quote(s, k) \in Int
<1>1. CASE k < Len(History[s])
  <2>1. History[s] \in Seq(Int)
    BY AccountingAssumption
  <2>2. 1 + k \in 1 .. Len(History[s])
    BY <1>1, <2>1
  <2>3. History[s][1 + k] \in Int
    BY <2>1, <2>2
  <2>4. QED
    BY <1>1, <2>3 DEF Quote
<1>2. CASE ~(k < Len(History[s]))
  BY <1>2 DEF Quote
<1>3. QED
  BY <1>1, <1>2

LEMMA WorthType ==
  ASSUME NEW walk \in Walks, NEW k \in Nat
  PROVE  Worth(walk, k) \in Int
<1> DEFINE S == {s \in Symbols : walk.qty[s] # 0}
           worth == [s \in Symbols |-> IF History[s] = <<>> THEN walk.cost[s]
                                       ELSE walk.qty[s] * Quote(s, k)]
<1>1. IsFiniteSet(S)
  BY AccountingAssumption, FS_Subset
<1>2. \A s \in Symbols : walk.qty[s] \in Int /\ walk.cost[s] \in Int /\ Quote(s, k) \in Int
  BY QuoteType DEF Walks
<1>3. \A s \in S : worth[s] \in Int
  BY <1>2
<1>4. walk.cash \in Int
  BY DEF Walks
<1>5. Worth(walk, k) = walk.cash + Total(worth, S)
  BY DEF Worth
<1> HIDE DEF worth, S
<1>6. Total(worth, S) \in Int
  BY <1>1, <1>3, TotalType
<1>7. QED
  BY <1>4, <1>5, <1>6

LEMMA RealizedType ==
  ASSUME NEW walk \in Walks
  PROVE  Total(walk.realized, Symbols) \in Int
<1>1. \A i \in Symbols : walk.realized[i] \in Int
  BY DEF Walks
<1>2. QED
  BY <1>1, AccountingAssumption, TotalType

LEMMA PricedWorks ==
  ASSUME NEW kind, NEW table, NEW entry \in Entries, NEW id \in Nat,
         table[id] \in OrderRows, NEW k \in Nat
  PROVE  /\ Priced(kind, table, entry, id, k) \in Entries
         /\ Priced(kind, table, entry, id, k).walk = ApplyFill(entry.walk, id, table[id])
<1> DEFINE row == table[id]
           walk == ApplyFill(entry.walk, id, row)
           closes == ~Opens(entry.walk.qty[row.symbol], Signed(row))
           a == Total(walk.realized, Symbols)
           b == Total(entry.walk.realized, Symbols)
           e == Worth(walk, k)
           point == [id |-> id, closes |-> closes, at |-> row.at,
                     amount |-> a - b, realized |-> StartingCash + a, equity |-> e]
           trail == IF Keeps(kind, closes) THEN Append(entry.trail, point) ELSE entry.trail
<1>1. Priced(kind, table, entry, id, k) = [walk |-> walk, trail |-> trail]
  BY DEF Priced
<1>2. entry.walk \in Walks /\ entry.trail \in Seq(Points)
  BY DEF Entries
<1>3. walk \in Walks
  BY <1>2, ApplyFillWorks DEF Folded
<1>4. row.at \in Nat /\ StartingCash \in Int /\ closes \in BOOLEAN
  BY AccountingAssumption DEF OrderRows
<1> HIDE DEF walk, row, closes
<1>5. a \in Int /\ b \in Int /\ e \in Int
  BY <1>2, <1>3, <1>4, RealizedType, WorthType
<1> HIDE DEF a, b, e
<1>6. point \in Points
  BY <1>4, <1>5 DEF Points
<1> HIDE DEF point
<1>7. trail \in Seq(Points)
  BY <1>2, <1>6
<1> HIDE DEF trail
<1>8. [walk |-> walk, trail |-> trail] \in Entries
  BY <1>3, <1>7 DEF Entries
<1>9. QED
  BY <1>1, <1>8 DEF walk, row

EntryStep(kind, table, steps) ==
  [p \in Nat \X Entries |-> Priced(kind, table, p[2], p[1], steps[p[1]])]
Folding(kind, table, steps, base, ids) == FoldOf(EntryStep(kind, table, steps), base, ids)

LEMMA EntryStepIs ==
  ASSUME NEW kind, NEW table, NEW steps \in Steps, NEW ids, Recorded(table, ids),
         NEW i \in ids, NEW e \in Entries
  PROVE  /\ EntryStep(kind, table, steps)[<<i, e>>] = Priced(kind, table, e, i, steps[i])
         /\ EntryStep(kind, table, steps)[<<i, e>>] \in Entries
         /\ EntryStep(kind, table, steps)[<<i, e>>].walk = FillStep(table)[<<i, e.walk>>]
<1>1. i \in Nat /\ table[i] \in OrderRows /\ e.walk \in Walks /\ steps[i] \in Nat
  BY DEF Recorded, Entries, Steps
<1>2. EntryStep(kind, table, steps)[<<i, e>>] = Priced(kind, table, e, i, steps[i])
  <2>1. <<i, e>> \in Nat \X Entries
    BY <1>1
  <2>2. QED
    BY <2>1 DEF EntryStep
<1>3. FillStep(table)[<<i, e.walk>>] = ApplyFill(e.walk, i, table[i])
  BY <1>1, FillStepIs
<1>4. QED
  BY <1>1, <1>2, <1>3, PricedWorks

\* The walk of an entry is the walk of the fills.
LEMMA FoldingWorks ==
  ASSUME NEW kind, NEW table, NEW steps \in Steps, NEW ids, Recorded(table, ids),
         NEW base \in Entries
  PROVE  /\ Folding(kind, table, steps, base, ids) \in Entries
         /\ Folding(kind, table, steps, base, ids).walk = Walk(base.walk, table, ids)
<1> DEFINE F == EntryStep(kind, table, steps)
           G == FillStep(table)
           h == [e \in Entries |-> e.walk]
<1>1. IsFiniteSet(ids) /\ Numbers(ids) /\ base.walk \in Walks
  BY DEF Recorded, Entries
<1>2. Walk(base.walk, table, ids) = FoldOf(G, base.walk, ids)
  BY <1>1, WalkIsFold
<1>3. \A i \in ids, e \in Entries : F[<<i, e>>] \in Entries /\ F[<<i, e>>].walk = G[<<i, e.walk>>]
  <2>1. ASSUME NEW i \in ids, NEW e \in Entries
        PROVE  F[<<i, e>>] \in Entries /\ F[<<i, e>>].walk = G[<<i, e.walk>>]
    BY EntryStepIs
  <2>2. QED
    BY <2>1
<1> HIDE DEF F, G
<1>4. \A i \in ids, e \in Entries : F[<<i, e>>] \in Entries
  BY <1>3
<1>5. FoldOf(F, base, ids) \in Entries
  BY <1>1, <1>4, FoldIn
<1>6. MappedSteps(F, G, h, Entries, ids)
  BY <1>3 DEF MappedSteps
<1>7. h[base] = base.walk /\ h[FoldOf(F, base, ids)] = FoldOf(F, base, ids).walk
  BY <1>5
<1> HIDE DEF h
<1>8. h[FoldOf(F, base, ids)] = FoldOf(G, h[base], ids)
  BY <1>1, <1>6, FoldMapped
<1>9. QED
  BY <1>2, <1>5, <1>7, <1>8 DEF Folding, F

LEMMA FoldingMore ==
  ASSUME NEW kind, NEW table, NEW steps \in Steps, NEW S, NEW T,
         Recorded(table, S), Recorded(table, T), \A i \in S, j \in T : i < j,
         NEW base \in Entries
  PROVE  Folding(kind, table, steps, base, S \cup T)
           = Folding(kind, table, steps, Folding(kind, table, steps, base, S), T)
<1> DEFINE F == EntryStep(kind, table, steps)
<1>1. IsFiniteSet(S) /\ Numbers(S) /\ IsFiniteSet(T) /\ Numbers(T)
  BY DEF Recorded
<1> HIDE DEF F
<1>2. FoldOf(F, base, S \cup T) = FoldOf(F, FoldOf(F, base, S), T)
  BY <1>1, FoldMore
<1>3. QED
  BY <1>2 DEF Folding, F

SameFills(old, new, ids) == \A i \in ids : SameFill(old[i], new[i])
SameStepsOf(p, q, ids) == \A i \in ids : p[i] = q[i]

\* An entry depends on what the fills say and on the steps they are marked at.
LEMMA FoldingSame ==
  ASSUME NEW kind, NEW old, NEW new, NEW p \in Steps, NEW q \in Steps, NEW ids,
         Recorded(old, ids), Recorded(new, ids),
         SameFills(old, new, ids), SameStepsOf(p, q, ids),
         NEW base \in Entries
  PROVE  Folding(kind, new, q, base, ids) = Folding(kind, old, p, base, ids)
<1> DEFINE F == EntryStep(kind, old, p)
           G == EntryStep(kind, new, q)
<1>1. ASSUME NEW i \in ids, NEW e \in Entries
      PROVE  F[<<i, e>>] \in Entries /\ F[<<i, e>>] = G[<<i, e>>]
  <2>1. /\ F[<<i, e>>] = Priced(kind, old, e, i, p[i]) /\ F[<<i, e>>] \in Entries
        /\ G[<<i, e>>] = Priced(kind, new, e, i, q[i])
    <3>1. <<i, e>> \in Nat \X Entries
      BY DEF Recorded
    <3>2. EntryStep(kind, old, p)[<<i, e>>] \in Entries
      BY EntryStepIs
    <3>3. /\ EntryStep(kind, old, p)[<<i, e>>] = Priced(kind, old, e, i, p[i])
          /\ EntryStep(kind, new, q)[<<i, e>>] = Priced(kind, new, e, i, q[i])
      BY <3>1 DEF EntryStep
    <3>4. QED
      BY <3>2, <3>3
  <2>2. /\ new[i].symbol = old[i].symbol /\ new[i].px = old[i].px /\ new[i].at = old[i].at
        /\ Signed(new[i]) = Signed(old[i]) /\ q[i] = p[i]
    BY SameFillIs DEF Recorded, Signed, SameFills, SameStepsOf
  <2>3. ApplyFill(e.walk, i, old[i]) = ApplyFill(e.walk, i, new[i])
    BY <2>2 DEF ApplyFill
  <2>4. Priced(kind, old, e, i, p[i]) = Priced(kind, new, e, i, q[i])
    BY <2>2, <2>3 DEF Priced
  <2>5. QED
    BY <2>1, <2>4
<1>2. IsFiniteSet(ids) /\ Numbers(ids)
  BY DEF Recorded
<1> HIDE DEF F, G
<1>3. SameSteps(F, G, Entries, ids)
  BY <1>1 DEF SameSteps
<1>4. FoldOf(F, base, ids) = FoldOf(G, base, ids)
  BY <1>2, <1>3, FoldSame
<1>5. QED
  BY <1>4 DEF Folding, F, G
-----------------------------------------------------------------------------
(* Steps of the past *)

MarketOK ==
  /\ step \in Nat /\ clock \in Nat /\ booted \in Nat /\ slept \in Nat /\ skew \in Nat
  /\ booted <= clock /\ slept <= Second
  /\ step > 0 => Made(step) + slept <= clock - booted
  /\ Behind <= skew
  /\ \A s \in Symbols : History[s] # <<>> => step < Len(History[s])

\* Near, in a market of which the furthest lag so far, the start and the latest
\* step are given.
NearIn(m, at, k) ==
  /\ k \in Nat /\ k <= m.step
  /\ Made(k) >= at - m.booted - m.skew
  /\ k = 0 \/ Made(k) < at - m.booted + m.skew + Second
Market == [booted |-> booted, skew |-> skew, step |-> step]
Markets == [booted : Nat, skew : Nat, step : Nat]
Later(m, m2) == m2.booted = m.booted /\ m.skew <= m2.skew /\ m.step <= m2.step

LEMMA MadeIs ==
  /\ Made(0) = 0
  /\ \A k \in Nat : k > 0 => Made(k) = Second * (k - 1)
  /\ \A k \in Nat : Made(k) \in Nat
<1>1. Second \in Nat
  BY AccountingAssumption
<1>2. ASSUME NEW k \in Nat PROVE Max({0, k - 1}) = IF k > 0 THEN k - 1 ELSE 0
  <2>1. k - 1 \in Int
    OBVIOUS
  <2>2. Max({0, k - 1}) = IF 0 >= k - 1 THEN 0 ELSE k - 1
    BY <2>1, MaxOfTwo
  <2>3. QED
    BY <2>2
<1>3. \A k \in Nat : Made(k) = Second * (IF k > 0 THEN k - 1 ELSE 0)
  BY <1>2 DEF Made
<1>4. \A a \in Nat, b \in Nat : a * b \in Nat
  OBVIOUS
<1>5. ASSUME NEW k \in Nat PROVE Made(k) \in Nat
  <2>1. (IF k > 0 THEN k - 1 ELSE 0) \in Nat
    OBVIOUS
  <2>2. QED
    BY <1>1, <1>3, <1>4, <2>1
<1>6. Second * 0 = 0
  BY <1>1
<1>7. Made(0) = 0
  BY <1>3, <1>6
<1>8. QED
  BY <1>3, <1>5, <1>7

\* A step comes a second after the one before it, the first one at once.
LEMMA MadeNext ==
  ASSUME NEW k \in Nat
  PROVE  Made(k + 1) = IF k = 0 THEN 0 ELSE Made(k) + Second
<1>1. Second \in Nat /\ k + 1 \in Nat /\ k + 1 > 0
  BY AccountingAssumption
<1>2. Made(k + 1) = Second * k
  BY <1>1, MadeIs
<1>3. Second * 0 = 0
  BY <1>1
<1>4. CASE k > 0
  <2>1. Made(k) = Second * (k - 1)
    BY <1>4, MadeIs
  <2>2. Second * k = Second * (k - 1) + Second
    BY <1>1
  <2>3. QED
    BY <1>2, <1>4, <2>1, <2>2
<1>5. CASE k = 0
  BY <1>2, <1>3, <1>5
<1>6. QED
  BY <1>4, <1>5

\* What is cut off a time difference is less than a second.
LEMMA TruncatedIs ==
  ASSUME NEW d \in Int
  PROVE  /\ Truncated(d) \in Int
         /\ d >= 0 => /\ Truncated(d) >= 0 /\ Second * Truncated(d) <= d
                      /\ d < Second * Truncated(d) + Second
         /\ d < 0 => Truncated(d) <= 0
<1>1. Second \in Nat /\ Second > 0
  BY AccountingAssumption
<1> DEFINE q(e) == e \div Second
<1>2. ASSUME NEW e \in Nat
      PROVE  q(e) \in Nat /\ Second * q(e) <= e /\ e < Second * q(e) + Second
  BY <1>1
<1>3. CASE d >= 0
  <2>1. Truncated(d) = q(d) /\ d \in Nat
    BY <1>3 DEF Truncated
  <2> HIDE DEF q
  <2>2. QED
    BY <1>2, <1>3, <2>1
<1>4. CASE d < 0
  <2>1. Truncated(d) = -q(-d) /\ -d \in Nat
    BY <1>4 DEF Truncated
  <2> HIDE DEF q
  <2>2. QED
    BY <1>2, <1>4, <2>1
<1>5. QED
  BY <1>3, <1>4

\* The step a past time is looked up at is the step of that time, but for the
\* second that is cut off and for how late the market and the route are.
LEMMA StepAtIsNear ==
  ASSUME MarketOK, NEW at \in Nat, at <= clock,
         NEW now \in Nat, booted <= now, now <= clock, clock - now <= skew
  PROVE  NearIn(Market, at, StepAt(at, now))
<1> DEFINE q == Truncated(now - at)
           least == Min({step - q, step})
           k == Max({0, least})
           m == Made(step)
<1>1. /\ step \in Nat /\ clock \in Nat /\ booted \in Nat /\ skew \in Nat /\ slept \in Nat
      /\ booted <= clock /\ now - at \in Int /\ Second \in Nat /\ Second > 0
  BY AccountingAssumption DEF MarketOK
<1>2. m \in Nat /\ Made(0) = 0
  BY <1>1, MadeIs
<1>3. m <= clock - booted /\ clock - booted - m <= skew
  <2>1. CASE step > 0
    BY <1>1, <1>2, <2>1 DEF MarketOK, Behind
  <2>2. CASE step = 0
    BY <1>1, <1>2, <2>2 DEF MarketOK, Behind
  <2>3. QED
    BY <1>1, <2>1, <2>2
<1>4. q \in Int
  BY <1>1, TruncatedIs
<1>5. StepAt(at, now) = k
  BY DEF StepAt
<1>6. k = IF q <= 0 THEN step ELSE IF step - q > 0 THEN step - q ELSE 0
  <2>1. step - q \in Int
    BY <1>1, <1>4
  <2> HIDE DEF q
  <2>2. least = IF step - q <= step THEN step - q ELSE step
    BY <1>1, <2>1, MinOfTwo
  <2>3. least \in Int
    BY <1>1, <2>1, <2>2
  <2> HIDE DEF least
  <2>4. k = IF 0 >= least THEN 0 ELSE least
    BY <2>3, MaxOfTwo
  <2> HIDE DEF k
  <2>5. QED
    BY <1>1, <1>4, <2>2, <2>4
<1>7. Market.booted = booted /\ Market.skew = skew /\ Market.step = step
  BY DEF Market
<1>8. ASSUME NEW j \in Nat, j <= step, j = k, Made(j) >= at - booted - skew,
             j = 0 \/ Made(j) < at - booted + skew + Second
      PROVE  NearIn(Market, at, StepAt(at, now))
  <2> HIDE DEF k
  <2>1. QED
    BY <1>5, <1>7, <1>8 DEF NearIn
<1> HIDE DEF k, m
<1>9. CASE now - at < 0
  <2>1. k = step
    BY <1>1, <1>6, <1>9, TruncatedIs
  <2>2. m >= at - booted - skew /\ m < at - booted + skew + Second
    BY <1>1, <1>2, <1>3, <1>9
  <2>3. QED
    BY <1>1, <1>8, <2>1, <2>2 DEF m
<1>10. CASE now - at >= 0
  <2> DEFINE c == Second * q
  <2>1. q \in Nat /\ c \in Int /\ c <= now - at /\ now - at < c + Second
    <3>1. q >= 0 /\ Second * q <= now - at /\ now - at < Second * q + Second
      BY <1>1, <1>10, TruncatedIs
    <3> HIDE DEF q
    <3>2. QED
      BY <1>1, <1>4, <3>1
  <2>2. CASE step - q > 0
    <3>1. k = step - q /\ k \in Nat /\ k > 0 /\ k <= step
      <4> HIDE DEF q
      <4>1. QED
        BY <1>1, <1>4, <1>6, <2>1, <2>2
    <3>2. Made(k) = m - c
      <4>1. Made(k) = Second * (k - 1) /\ m = Second * (step - 1)
        <5> HIDE DEF q
        <5>1. step > 0
          BY <1>1, <2>1, <2>2
        <5>2. QED
          BY <1>1, <3>1, <5>1, MadeIs DEF m
      <4> HIDE DEF q
      <4>2. \A a \in Int, b \in Int : Second * (a - b - 1) = Second * (a - 1) - Second * b
        BY <1>1
      <4>3. k - 1 = step - q - 1
        BY <1>1, <2>1, <3>1
      <4>4. QED
        BY <1>1, <2>1, <4>1, <4>2, <4>3
    <3> HIDE DEF c, q
    <3>3. m - c >= at - booted - skew /\ m - c < at - booted + skew + Second
      BY <1>1, <1>2, <1>3, <2>1
    <3>4. QED
      BY <1>8, <3>1, <3>2, <3>3
  <2>3. CASE ~(step - q > 0)
    <3>1. k = 0
      <4> HIDE DEF q
      <4>1. QED
        BY <1>1, <1>6, <2>1, <2>3
    <3>2. c >= m
      <4>1. CASE step = 0
        <5> HIDE DEF q
        <5>1. m = 0 /\ Second * q \in Nat
          BY <1>1, <1>2, <2>1, <4>1 DEF m
        <5>2. QED
          BY <5>1
      <4>2. CASE step > 0
        <5>1. m = Second * (step - 1)
          BY <1>1, <4>2, MadeIs DEF m
        <5> HIDE DEF q
        <5>2. q - (step - 1) \in Nat
          BY <1>1, <2>1, <2>3
        <5>3. Second * (q - (step - 1)) \in Nat
          BY <1>1, <5>2
        <5>4. Second * q = Second * (step - 1) + Second * (q - (step - 1))
          BY <1>1, <2>1
        <5>5. Second * (step - 1) \in Int
          BY <1>1
        <5>6. QED
          BY <5>1, <5>3, <5>4, <5>5
      <4>3. QED
        BY <1>1, <4>1, <4>2
    <3> HIDE DEF c, q
    <3>3. 0 >= at - booted - skew
      BY <1>1, <1>2, <1>3, <2>1, <3>2
    <3>4. 0 \in Nat /\ 0 <= step
      BY <1>1
    <3>5. QED
      BY <1>2, <1>8, <3>1, <3>3, <3>4
  <2>4. QED
    BY <2>2, <2>3
<1>11. QED
  BY <1>1, <1>9, <1>10

\* What was near once is near as long as the process lives.
LEMMA NearStays ==
  ASSUME NEW m \in Markets, NEW m2 \in Markets, Later(m, m2), NEW at \in Nat, NEW k,
         NearIn(m, at, k)
  PROVE  NearIn(m2, at, k)
<1>1. Made(k) \in Nat /\ Second \in Nat /\ k \in Nat
  BY MadeIs, AccountingAssumption DEF NearIn
<1>2. /\ m.booted \in Nat /\ m.skew \in Nat /\ m.step \in Nat /\ m2.skew \in Nat
      /\ m2.step \in Nat /\ m2.booted = m.booted /\ m.skew <= m2.skew /\ m.step <= m2.step
  BY DEF Markets, Later
<1>3. QED
  BY <1>1, <1>2 DEF NearIn

LEMMA MarketTyped == MarketOK => Market \in Markets
BY DEF MarketOK, Market, Markets

LEMMA MarkIsWorth ==
  ASSUME MarketOK, NEW walk, NEW k \in Nat, k <= step
  PROVE  MarkToMarket(walk, k) = Worth(walk, k)
<1>1. ASSUME NEW s \in Symbols, History[s] # <<>> PROVE History[s][1 + k] = Quote(s, k)
  <2>1. step < Len(History[s]) /\ step \in Nat /\ History[s] \in Seq(Int)
    BY <1>1, AccountingAssumption DEF MarketOK
  <2>2. k < Len(History[s])
    BY <2>1
  <2>3. QED
    BY <2>2 DEF Quote
<1> DEFINE marked == [s \in Symbols |-> IF History[s] = <<>> THEN walk.cost[s]
                                        ELSE walk.qty[s] * History[s][1 + k]]
           worth == [s \in Symbols |-> IF History[s] = <<>> THEN walk.cost[s]
                                       ELSE walk.qty[s] * Quote(s, k)]
<1>2. marked = worth
  BY <1>1
<1>3. MarkToMarket(walk, k) = walk.cash + Total(marked, {s \in Symbols : walk.qty[s] # 0})
  BY DEF MarkToMarket, Total
<1>4. Worth(walk, k) = walk.cash + Total(worth, {s \in Symbols : walk.qty[s] # 0})
  BY DEF Worth
<1> HIDE DEF marked, worth
<1>5. QED
  BY <1>2, <1>3, <1>4

LEMMA FoldEntryIsPriced ==
  ASSUME MarketOK, NEW kind, NEW entry, NEW id, NEW k \in Nat, k <= step
  PROVE  FoldEntry(kind, entry, id, k) = Priced(kind, rows, entry, id, k)
<1>1. \A w : MarkToMarket(w, k) = Worth(w, k)
  BY MarkIsWorth
<1>2. \A w : TotalRealized(w) = Total(w.realized, Symbols)
  BY DEF TotalRealized, Total
<1>3. QED
  BY <1>1, <1>2 DEF FoldEntry, Priced

\* The steps of some ids, as part of those of all.
StepsOf(given, all, ids) == \A i \in ids : given[i] = all[i] /\ all[i] <= step

\* What a route stores is the fold of the fills at their steps.
LEMMA FoldEntriesIsFolding ==
  ASSUME MarketOK, NEW kind, NEW ids, Recorded(rows, ids), NEW base \in Entries,
         NEW given, NEW steps \in Steps, StepsOf(given, steps, ids)
  PROVE  FoldEntries(kind, base, ids, given) = Folding(kind, rows, steps, base, ids)
<1> DEFINE F == EntryStep(kind, rows, steps)
           Folds(g) == g = [s \in SUBSET ids |->
                              IF s = {} THEN base
                              ELSE FoldEntry(kind, g[s \ {Max(s)}], Max(s), given[Max(s)])]
           it == CHOOSE g : Folds(g)
<1>1. FoldEntries(kind, base, ids, given) = it[ids]
  BY DEF FoldEntries, MapThenFoldSet
<1>2. IsFiniteSet(ids) /\ Numbers(ids)
  BY DEF Recorded
<1>3. PICK g : InOrder(g, F, base, ids)
  BY <1>2, InOrderExists
<1>4. ASSUME NEW s \in SUBSET ids, s # {}
      PROVE  Max(s) \in s /\ s \ {Max(s)} \in SUBSET ids
  BY <1>2, <1>4, FS_Subset, NumbersIn, MaxIsGreatest
<1>5. ASSUME NEW i \in ids, NEW e \in Entries
      PROVE  F[<<i, e>>] \in Entries /\ F[<<i, e>>] = FoldEntry(kind, e, i, given[i])
  <2>1. given[i] = steps[i] /\ given[i] \in Nat /\ given[i] <= step
    BY DEF Recorded, Steps, StepsOf
  <2>2. FoldEntry(kind, e, i, given[i]) = Priced(kind, rows, e, i, given[i])
    BY <2>1, FoldEntryIsPriced
  <2>3. F[<<i, e>>] \in Entries
    BY EntryStepIs
  <2>4. F[<<i, e>>] = Priced(kind, rows, e, i, steps[i])
    <3>1. <<i, e>> \in Nat \X Entries
      BY DEF Recorded
    <3>2. QED
      BY <3>1 DEF EntryStep
  <2>5. QED
    BY <2>1, <2>2, <2>3, <2>4
<1>6. ASSUME NEW h, InOrder(h, F, base, ids), NEW s \in SUBSET ids PROVE h[s] \in Entries
  <2>1. IsFiniteSet(s) /\ Numbers(s)
    BY <1>2, FS_Subset, NumbersIn
  <2>2. FoldOf(F, base, s) = h[s]
    BY <1>2, <1>6, FoldIsInOrder
  <2> HIDE DEF F
  <2>3. \A i \in s, e \in Entries : F[<<i, e>>] \in Entries
    BY <1>5
  <2>4. FoldOf(F, base, s) \in Entries
    BY <2>1, <2>3, FoldIn
  <2>5. QED
    BY <2>2, <2>4
<1>7. Folds(g)
  <2>1. ASSUME NEW s \in SUBSET ids, s # {}
        PROVE  F[<<Max(s), g[s \ {Max(s)}]>>] =
                 FoldEntry(kind, g[s \ {Max(s)}], Max(s), given[Max(s)])
    <3>1. Max(s) \in ids /\ g[s \ {Max(s)}] \in Entries
      BY <1>3, <1>4, <1>6, <2>1
    <3> HIDE DEF F
    <3>2. QED
      BY <1>5, <3>1
  <2> HIDE DEF F
  <2>2. QED
    BY <1>3, <2>1 DEF InOrder
<1>8. Folds(it)
  BY <1>7
<1>9. \A s \in SUBSET ids : it[s] = g[s]
  <2> DEFINE B == {s \in SUBSET ids : it[s] # g[s]}
  <2>1. SUFFICES ASSUME B # {} PROVE FALSE
    BY <2>1
  <2> HIDE DEF it, F
  <2>2. PICK s \in B : \A t \in B : t \subseteq s => t = s
    <3> HIDE DEF B
    <3>1. B \subseteq SUBSET ids
      BY DEF B
    <3>2. QED
      BY <1>2, <2>1, <3>1, SmallestSubset
  <2>3. s \in SUBSET ids /\ it[s] # g[s]
    OBVIOUS
  <2>4. /\ it[s] = IF s = {} THEN base
                     ELSE FoldEntry(kind, it[s \ {Max(s)}], Max(s), given[Max(s)])
        /\ g[s] = IF s = {} THEN base
                     ELSE FoldEntry(kind, g[s \ {Max(s)}], Max(s), given[Max(s)])
    BY <1>7, <1>8, <2>3
  <2>5. s # {}
    BY <2>3, <2>4
  <2>6. it[s \ {Max(s)}] = g[s \ {Max(s)}]
    BY <1>4, <2>2, <2>5
  <2>7. QED
    BY <2>3, <2>4, <2>5, <2>6
<1>10. FoldOf(F, base, ids) = g[ids]
  BY <1>2, <1>3, FoldIsInOrder
<1>11. QED
  BY <1>1, <1>9, <1>10 DEF Folding
-----------------------------------------------------------------------------
(* What an entry counts *)

\* Ids of rows that were recorded as fills, as a state of the table has them.
Filed(table, fills) == Recorded(table, fills) /\ 0 \notin fills

\* The entry of a view is the one of the fills C: all up to its watermark but
\* some of those that may be missing (gone).  Its points are marked at steps
\* near the times of their fills.
Counts(table, fills, gone, m, v, entry, C) ==
  /\ C \subseteq fills /\ \A i \in C : InScope(ScopeOf(v), table[i])
  /\ \A i \in fills \ gone :
       InScope(ScopeOf(v), table[i]) /\ i <= entry.walk.last => i \in C
  /\ \A i \in C : i <= entry.walk.last
  /\ entry.walk.last \in C \cup {0}
  /\ entry.walk = Walk(EmptyWalk(StartingCash), table, C)
  /\ \E steps \in Steps :
       /\ \A i \in C : NearIn(m, table[i].at, steps[i])
       /\ entry = Folding(KindOf(v), table, steps, EmptyEntry, C)

\* A route folds the fills after its watermark that it queried.
Queried(table, fills, gone, v, base, job) ==
  /\ job.new \subseteq fills
  /\ \A i \in job.new : InScope(ScopeOf(v), table[i]) /\ i > base.walk.last
  /\ \A i \in fills \ gone, j \in job.new :
       InScope(ScopeOf(v), table[i]) /\ i <= j => i \in job.new \/ i <= base.walk.last
  /\ job.says = Walked(Walk(base.walk, table, job.new))

\* How the table may change under the views: a fill that is committed after one
\* of a higher id may be missed.
Grows(table, fills, gone, m, table2, fills2, gone2, m2) ==
  /\ Filed(table, fills) /\ Filed(table2, fills2)
  /\ fills \subseteq fills2 /\ gone \subseteq gone2
  /\ SameFills(table, table2, fills)
  /\ \A i \in fills2 \ fills : i \in gone2 \/ \A j \in fills : i > j
  /\ m \in Markets /\ m2 \in Markets /\ Later(m, m2)

LEMMA EmptyTyped ==
  /\ EmptyWalk(StartingCash) \in Walks /\ EmptyEntry \in Entries
  /\ EmptyEntry.walk = EmptyWalk(StartingCash)
  /\ EmptyWalk(StartingCash).last = 0
  /\ EmptyWalk(StartingCash).cash + Total(EmptyWalk(StartingCash).cost, Symbols)
       - Total(EmptyWalk(StartingCash).realized, Symbols) = StartingCash
<1> DEFINE w == EmptyWalk(StartingCash)
<1>1. w \in Walks /\ w.last = 0 /\ w.cash = StartingCash
  BY AccountingAssumption DEF EmptyWalk, Walks
<1>2. EmptyEntry \in Entries /\ EmptyEntry.walk = w
  <2>1. EmptyEntry = [walk |-> w, trail |-> <<>>]
    BY DEF EmptyEntry
  <2>2. <<>> \in Seq(Points)
    OBVIOUS
  <2> HIDE DEF w
  <2>3. QED
    BY <1>1, <2>1, <2>2 DEF Entries
<1>3. Total(w.cost, Symbols) = 0 /\ Total(w.realized, Symbols) = 0
  <2>1. \A s \in Symbols : w.cost[s] = 0 /\ w.realized[s] = 0
    BY DEF EmptyWalk
  <2>2. QED
    BY <2>1, AccountingAssumption, TotalZero
<1>4. QED
  BY <1>1, <1>2, <1>3, AccountingAssumption

LEMMA ScopeSame ==
  ASSUME NEW table, NEW table2, NEW fills, Recorded(table, fills), Recorded(table2, fills),
         SameFills(table, table2, fills), NEW i \in fills, NEW scope
  PROVE  InScope(scope, table2[i]) <=> InScope(scope, table[i])
<1>1. table2[i].sub = table[i].sub /\ table2[i].strategy = table[i].strategy
  BY SameFillIs DEF SameFills, Recorded
<1>2. QED
  BY <1>1 DEF InScope

LEMMA SameFillsIn ==
  ASSUME NEW table, NEW table2, NEW fills, SameFills(table, table2, fills),
         NEW C, C \subseteq fills
  PROVE  SameFills(table, table2, C)
BY DEF SameFills

\* Nothing counted is uncounted by what happens to the table later.
LEMMA CountsStay ==
  ASSUME NEW table, NEW fills, NEW gone, NEW m,
         NEW table2, NEW fills2, NEW gone2, NEW m2,
         Grows(table, fills, gone, m, table2, fills2, gone2, m2),
         NEW v, NEW entry \in Entries, NEW C,
         Counts(table, fills, gone, m, v, entry, C)
  PROVE  Counts(table2, fills2, gone2, m2, v, entry, C)
<1>1. /\ Recorded(table, fills) /\ Recorded(table2, fills2) /\ 0 \notin fills2
      /\ fills \subseteq fills2 /\ gone \subseteq gone2 /\ SameFills(table, table2, fills)
      /\ C \subseteq fills /\ entry.walk.last \in C \cup {0}
  BY DEF Grows, Filed, Counts
<1>2. Recorded(table2, fills) /\ Recorded(table, C) /\ Recorded(table2, C)
      /\ SameFills(table, table2, C)
  BY <1>1, RecordedIn, SameFillsIn
<1>3. C \subseteq fills2 /\ \A i \in C : InScope(ScopeOf(v), table2[i])
  <2>1. \A i \in fills : InScope(ScopeOf(v), table2[i]) <=> InScope(ScopeOf(v), table[i])
    BY <1>1, <1>2, ScopeSame
  <2>2. QED
    BY <1>1, <2>1 DEF Counts
<1>4. ASSUME NEW i \in fills2 \ gone2, InScope(ScopeOf(v), table2[i]), i <= entry.walk.last
      PROVE  i \in C
  <2>1. i \in Nat /\ i # 0
    BY <1>1 DEF Recorded
  <2>2. i \in fills
    <3>1. SUFFICES ASSUME i \notin fills PROVE FALSE
      OBVIOUS
    <3>2. \A j \in fills : i > j
      BY <3>1 DEF Grows
    <3>3. entry.walk.last # 0
      BY <1>4, <2>1
    <3>4. entry.walk.last \in fills
      BY <1>1, <3>3
    <3>5. entry.walk.last \in Nat
      BY <1>1, <3>4 DEF Recorded
    <3>6. QED
      BY <1>4, <2>1, <3>2, <3>4, <3>5
  <2>3. InScope(ScopeOf(v), table[i])
    BY <1>1, <1>2, <1>4, <2>2, ScopeSame
  <2>4. QED
    BY <1>1, <1>4, <2>2, <2>3 DEF Counts
<1>5. Walk(EmptyWalk(StartingCash), table2, C) = Walk(EmptyWalk(StartingCash), table, C)
  BY <1>2, EmptyTyped, WalkSame DEF SameFills
<1>6. PICK steps \in Steps :
        /\ \A i \in C : NearIn(m, table[i].at, steps[i])
        /\ entry = Folding(KindOf(v), table, steps, EmptyEntry, C)
  BY DEF Counts
<1>7. entry = Folding(KindOf(v), table2, steps, EmptyEntry, C)
  <2>1. SameStepsOf(steps, steps, C)
    BY DEF SameStepsOf
  <2>2. QED
    BY <1>2, <1>6, <2>1, EmptyTyped, FoldingSame
<1>8. \A i \in C : NearIn(m2, table2[i].at, steps[i])
  <2>1. ASSUME NEW i \in C PROVE NearIn(m2, table2[i].at, steps[i])
    <3>1. table2[i].at = table[i].at /\ table[i].at \in Nat
      BY <1>2, SameFillIs DEF Recorded, SameFills, OrderRows
    <3>2. QED
      BY <1>6, <3>1, NearStays DEF Grows
  <2>2. QED
    BY <2>1
<1>9. QED
  BY <1>3, <1>4, <1>5, <1>7, <1>8 DEF Counts

LEMMA QueriedStay ==
  ASSUME NEW table, NEW fills, NEW gone, NEW m,
         NEW table2, NEW fills2, NEW gone2, NEW m2,
         Grows(table, fills, gone, m, table2, fills2, gone2, m2),
         NEW v, NEW base \in Entries, NEW job, Queried(table, fills, gone, v, base, job)
  PROVE  Queried(table2, fills2, gone2, v, base, job)
<1>1. /\ Recorded(table, fills) /\ Recorded(table2, fills2)
      /\ fills \subseteq fills2 /\ gone \subseteq gone2 /\ SameFills(table, table2, fills)
      /\ job.new \subseteq fills /\ base.walk \in Walks
  BY DEF Grows, Filed, Queried, Entries
<1>2. /\ Recorded(table2, fills) /\ Recorded(table, job.new) /\ Recorded(table2, job.new)
      /\ SameFills(table, table2, job.new)
  BY <1>1, RecordedIn, SameFillsIn
<1>3. \A i \in fills : InScope(ScopeOf(v), table2[i]) <=> InScope(ScopeOf(v), table[i])
  BY <1>1, <1>2, ScopeSame
<1>4. job.new \subseteq fills2
      /\ \A i \in job.new : InScope(ScopeOf(v), table2[i]) /\ i > base.walk.last
  BY <1>1, <1>3 DEF Queried
<1>5. ASSUME NEW i \in fills2 \ gone2, NEW j \in job.new,
             InScope(ScopeOf(v), table2[i]), i <= j
      PROVE  i \in job.new \/ i <= base.walk.last
  <2>1. i \in fills
    <3>1. SUFFICES ASSUME i \notin fills PROVE FALSE
      OBVIOUS
    <3>2. i > j
      BY <1>1, <3>1 DEF Grows
    <3>3. i \in Nat /\ j \in Nat
      BY <1>1 DEF Recorded
    <3>4. QED
      BY <1>5, <3>2, <3>3
  <2>2. i \in fills \ gone /\ InScope(ScopeOf(v), table[i])
    BY <1>1, <1>3, <1>5, <2>1
  <2>3. QED
    BY <1>5, <2>2 DEF Queried
<1>6. Walk(base.walk, table2, job.new) = Walk(base.walk, table, job.new)
  BY <1>1, <1>2, WalkSame DEF SameFills
<1>7. job.says = Walked(Walk(base.walk, table2, job.new))
  BY <1>6 DEF Queried
<1>8. QED
  BY <1>4, <1>5, <1>7 DEF Queried

\* An entry that counts nothing.
LEMMA CountsNothing ==
  ASSUME NEW table, NEW fills, Filed(table, fills), NEW gone, NEW m, NEW v
  PROVE  Counts(table, fills, gone, m, v, EmptyEntry, {})
<1>1. Recorded(table, {})
  BY FS_EmptySet DEF Recorded, Numbers
<1>2. EmptyEntry.walk.last = 0 /\ EmptyEntry.walk = EmptyWalk(StartingCash)
  BY EmptyTyped
<1>3. \A i \in fills : i \in Nat /\ i # 0
  BY DEF Filed, Recorded
<1>4. Walk(EmptyWalk(StartingCash), table, {}) = EmptyWalk(StartingCash)
  <2>1. IsFiniteSet({}) /\ Numbers({})
    BY <1>1 DEF Recorded
  <2> DEFINE w == EmptyWalk(StartingCash)
             F == FillStep(table)
  <2>2. Walk(w, table, {}) = FoldOf(F, w, {})
    BY <1>1, EmptyTyped, WalkIsFold
  <2> HIDE DEF w, F
  <2>3. FoldOf(F, w, {}) = w
    BY <2>1, FoldLast
  <2>4. QED
    BY <2>2, <2>3 DEF w
<1> DEFINE steps == [n \in Nat |-> 0]
<1>5. Folding(KindOf(v), table, steps, EmptyEntry, {}) = EmptyEntry
  <2>1. IsFiniteSet({}) /\ Numbers({})
    BY <1>1 DEF Recorded
  <2> DEFINE F == EntryStep(KindOf(v), table, steps)
  <2> HIDE DEF F
  <2>2. FoldOf(F, EmptyEntry, {}) = EmptyEntry
    BY <2>1, FoldLast
  <2>3. QED
    BY <2>2 DEF Folding, F
<1>6. \A i \in fills : ~(i <= 0)
  BY <1>3
<1>7. steps \in Steps
  BY DEF Steps
<1> HIDE DEF steps
<1>8. QED
  BY <1>2, <1>4, <1>5, <1>6, <1>7 DEF Counts

NearFills(m, table, steps, ids) == \A i \in ids : NearIn(m, table[i].at, steps[i])

More(table, fills, gone, m, v, C, job, entry) ==
  /\ entry \in Entries /\ Walked(entry.walk) = job.says
  /\ Counts(table, fills, gone, m, v, entry, C \cup job.new)

\* The entry that a route stores counts what it queried besides what was counted.
LEMMA CountsMore ==
  ASSUME NEW table, NEW fills, Filed(table, fills), NEW gone, NEW m, NEW v,
         NEW base \in Entries, NEW C, Counts(table, fills, gone, m, v, base, C),
         NEW job, Queried(table, fills, gone, v, base, job),
         NEW steps \in Steps, NearFills(m, table, steps, job.new)
  PROVE  More(table, fills, gone, m, v, C, job,
              Folding(KindOf(v), table, steps, base, job.new))
<1> DEFINE entry == Folding(KindOf(v), table, steps, base, job.new)
           N == job.new
           w0 == EmptyWalk(StartingCash)
<1>1. C \subseteq fills /\ N \subseteq fills /\ Recorded(table, fills) /\ base.walk \in Walks
      /\ 0 \notin fills
  BY DEF Counts, Queried, Filed, Entries
<1>2. Recorded(table, C) /\ Recorded(table, N)
  BY <1>1, RecordedIn
<1> HIDE DEF N, entry
<1>3. \A i \in fills : i \in Nat
  BY <1>1 DEF Recorded
<1>4. base.walk.last \in Nat
  BY <1>1 DEF Walks
<1>5. \A i \in C, j \in N : i < j
  <2>1. ASSUME NEW i \in C, NEW j \in N PROVE i < j
    <3>1. i <= base.walk.last /\ j > base.walk.last /\ i \in Nat /\ j \in Nat
      BY <1>1, <1>3 DEF Counts, Queried, N
    <3>2. QED
      BY <1>4, <3>1
  <2>2. QED
    BY <2>1
<1>6. entry \in Entries /\ entry.walk = Walk(base.walk, table, N)
  BY <1>2, FoldingWorks DEF N, entry
<1>7. entry.walk.last = IF N = {} THEN base.walk.last ELSE Max(N)
  BY <1>1, <1>2, <1>6, WalkWorks DEF WalkedOver
<1>8. base.walk = Walk(w0, table, C)
  BY DEF Counts
<1>9. entry.walk = Walk(w0, table, C \cup N)
  BY <1>2, <1>5, <1>6, <1>8, EmptyTyped, WalkMore
<1>10. \A i \in C \cup N : InScope(ScopeOf(v), table[i])
  BY DEF Counts, Queried, N
<1>11. /\ entry.walk.last \in C \cup N \cup {0}
       /\ \A i \in C \cup N : i <= entry.walk.last
       /\ \A i \in fills \ gone :
            InScope(ScopeOf(v), table[i]) /\ i <= entry.walk.last => i \in C \cup N
  <2>1. CASE N = {}
    <3>1. entry.walk.last = base.walk.last
      BY <1>7, <2>1
    <3>2. QED
      BY <2>1, <3>1 DEF Counts
  <2>2. CASE N # {}
    <3>1. entry.walk.last = Max(N)
      BY <1>7, <2>2
    <3>2. Max(N) \in N /\ \A i \in N : Max(N) >= i
      <4>1. IsFiniteSet(N) /\ Numbers(N)
        BY <1>2 DEF Recorded
      <4>2. QED
        BY <2>2, <4>1, MaxIsGreatest
    <3> DEFINE top == Max(N)
    <3>3. top \in Nat /\ top > base.walk.last
      BY <1>1, <1>3, <3>2 DEF Queried, N
    <3> HIDE DEF top
    <3>4. ASSUME NEW i \in C \cup N PROVE i <= top
      <4>1. CASE i \in C
        <5>1. i <= base.walk.last /\ i \in Nat
          BY <1>1, <1>3, <4>1 DEF Counts
        <5>2. QED
          BY <1>4, <3>3, <5>1
      <4>2. CASE i \in N
        <5>1. top >= i /\ i \in Nat
          BY <1>1, <1>3, <3>2, <4>2 DEF top
        <5>2. QED
          BY <3>3, <5>1
      <4>3. QED
        BY <4>1, <4>2
    <3>5. ASSUME NEW i \in fills \ gone, InScope(ScopeOf(v), table[i]), i <= top
          PROVE  i \in C \cup N
      <4>1. i \in N \/ i <= base.walk.last
        BY <3>2, <3>5 DEF Queried, N, top
      <4>2. QED
        BY <3>5, <4>1 DEF Counts
    <3>6. QED
      BY <3>1, <3>2, <3>4, <3>5 DEF top
  <2>3. QED
    BY <2>1, <2>2
<1>12. PICK past \in Steps :
         /\ \A i \in C : NearIn(m, table[i].at, past[i])
         /\ base = Folding(KindOf(v), table, past, EmptyEntry, C)
  BY DEF Counts
<1> DEFINE all == [n \in Nat |-> IF n \in N THEN steps[n] ELSE past[n]]
<1>all. all \in Steps /\ SameStepsOf(past, all, C) /\ SameStepsOf(steps, all, N)
  <2>1. \A i \in C \cup N : i \in Nat
    BY <1>1, <1>3
  <2>2. \A i \in C : i \notin N
    <3>1. \A i \in N : ~(i < i)
      BY <2>1
    <3>2. QED
      BY <1>5, <3>1
  <2>3. QED
    BY <2>1, <2>2 DEF Steps, SameStepsOf
<1>near. \A i \in C \cup N : NearIn(m, table[i].at, all[i])
  <2> HIDE DEF all
  <2>1. QED
    BY <1>12, <1>all DEF NearFills, SameStepsOf, N
<1>trail. entry = Folding(KindOf(v), table, all, EmptyEntry, C \cup N)
  <2> DEFINE k == KindOf(v)
  <2>1. base = Folding(k, table, past, EmptyEntry, C)
    BY <1>12
  <2>2. SameFills(table, table, N) /\ SameFills(table, table, C)
    BY DEF SameFills, SameFill
  <2> HIDE DEF k, all
  <2>3. Folding(k, table, all, EmptyEntry, C) = base
    BY <1>2, <1>all, <2>1, <2>2, EmptyTyped, FoldingSame
  <2>4. Folding(k, table, all, base, N) = Folding(k, table, steps, base, N)
    BY <1>2, <1>all, <2>2, FoldingSame
  <2>5. Folding(k, table, all, EmptyEntry, C \cup N)
          = Folding(k, table, all, Folding(k, table, all, EmptyEntry, C), N)
    BY <1>2, <1>5, <1>all, EmptyTyped, FoldingMore
  <2>6. QED
    BY <2>3, <2>4, <2>5 DEF N, k, entry
<1>13. Walked(entry.walk) = job.says
  BY <1>6 DEF Queried, N
<1>14. C \cup N \subseteq fills
  BY <1>1
<1>15. Counts(table, fills, gone, m, v, entry, C \cup N)
  <2> HIDE DEF all
  <2>1. QED
    BY <1>9, <1>10, <1>11, <1>all, <1>near, <1>trail, <1>14 DEF Counts
<1>16. QED
  BY <1>6, <1>13, <1>15 DEF N, entry, More
-----------------------------------------------------------------------------
(* The inductive invariant *)

Jobs ==
  [op : {"idle"}] \cup [op : {"inserting"}, id : Nat]
    \cup [op : {"asking"}, view : Views, now : Nat]
    \cup [op : {"folding"}, view : Views, now : Nat, resumed : BOOLEAN, new : SUBSET Nat,
          says : Walks]

TypeInv ==
  /\ rows \in Seq(OrderRows) /\ cache \in [Views -> Entries \cup {None}]
  /\ thread \in [Threads -> Jobs]
  /\ MarketOK

\* A fill is never erased but by a cancel.
RowInv ==
  /\ \A i \in 1 .. Len(rows) :
       rows[i].at <= clock /\ (rows[i].status = "submitted" => rows[i].filled = 0)
  /\ visible \subseteq 1 .. Len(rows)
  /\ erased \subseteq everFilled /\ late \subseteq everFilled /\ everFilled \subseteq visible
  /\ \A i \in visible : IsFill(rows[i]) <=> i \in everFilled \ erased

\* Each session inserts a row of its own, which nobody sees; where one writes at
\* a time it is the last one.
InsertInv ==
  /\ \A t \in Inserting :
       /\ thread[t].id \in 1 .. Len(rows) /\ thread[t].id \notin visible
       /\ \A u \in Inserting : thread[u].id = thread[t].id => u = t
  /\ OneWriter =>
       /\ late = {}
       /\ \A t \in Inserting :
            /\ \A u \in Inserting : u = t
            /\ \A j \in visible : j < thread[t].id

\* How late the routes are that read the clock.
WaitInv ==
  \A t \in Waiting : booted <= thread[t].now /\ thread[t].now <= clock
                     /\ clock - thread[t].now <= skew

LockInv ==
  \A t, u \in Threads :
    /\ thread[t].op = "folding" /\ thread[u].op = "folding"
    /\ KindOf(thread[t].view) = KindOf(thread[u].view)
    => t = u

Gone == erased \cup late

CacheInv ==
  \A v \in Views : cache[v] # None =>
    \E C : Counts(rows, everFilled, Gone, Market, v, cache[v], C)

\* The entry that a route found, which nobody else changes meanwhile.
JobBase(job, entry) == IF job.resumed THEN entry ELSE EmptyEntry
JobInv ==
  \A t \in Threads : thread[t].op = "folding" =>
    /\ thread[t].resumed => cache[thread[t].view] # None
    /\ Queried(rows, everFilled, Gone, thread[t].view,
               JobBase(thread[t], cache[thread[t].view]), thread[t])

IInv == TypeInv /\ RowInv /\ InsertInv /\ WaitInv /\ LockInv /\ CacheInv /\ JobInv

LEMMA FiledIs ==
  ASSUME NEW table \in Seq(OrderRows), NEW fills, fills \subseteq 1 .. Len(table)
  PROVE  Filed(table, fills)
<1>1. IsFiniteSet(1 .. Len(table))
  BY FS_Interval
<1>2. IsFiniteSet(fills)
  BY <1>1, FS_Subset
<1>3. \A i \in fills : i \in Nat /\ i # 0 /\ table[i] \in OrderRows
  OBVIOUS
<1>4. QED
  BY <1>2, <1>3 DEF Filed, Recorded, Numbers

LEMMA FiledNow ==
  ASSUME TypeInv, RowInv
  PROVE  Filed(rows, everFilled) /\ everFilled \subseteq 1 .. Len(rows)
<1>1. everFilled \subseteq 1 .. Len(rows)
  BY DEF TypeInv, RowInv
<1>2. QED
  BY <1>1, FiledIs DEF TypeInv

\* While nothing is folded into the caches, they count what they counted.
GrowsNow ==
  Grows(rows, everFilled, Gone, Market, rows', everFilled', Gone', Market')
ViewsStay ==
  /\ GrowsNow /\ cache' = cache
  /\ \A t \in Threads : thread'[t].op = "folding" => thread'[t] = thread[t]

LEMMA JobBaseType ==
  ASSUME TypeInv, NEW t \in Threads, thread[t].op = "folding",
         thread[t].resumed => cache[thread[t].view] # None
  PROVE  /\ thread[t].view \in Views /\ thread[t].new \subseteq Nat
         /\ thread[t].resumed \in BOOLEAN /\ thread[t].says \in Walks
         /\ thread[t].now \in Nat
         /\ JobBase(thread[t], cache[thread[t].view]) \in Entries
<1>1. thread[t] \in Jobs
  BY DEF TypeInv
<1>2. /\ thread[t].view \in Views /\ thread[t].new \subseteq Nat
      /\ thread[t].resumed \in BOOLEAN /\ thread[t].says \in Walks /\ thread[t].now \in Nat
  BY <1>1 DEF Jobs
<1>3. cache[thread[t].view] \in Entries \cup {None}
  BY <1>2 DEF TypeInv
<1>4. QED
  BY <1>2, <1>3, EmptyTyped DEF JobBase

LEMMA CachesStay ==
  ASSUME IInv, ViewsStay
  PROVE  CacheInv' /\ JobInv'
<1>1. CacheInv'
  <2>1. ASSUME NEW v \in Views, cache'[v] # None
        PROVE  \E C : Counts(rows', everFilled', Gone', Market', v, cache'[v], C)
    <3>1. cache'[v] = cache[v] /\ cache[v] \in Entries
      BY <2>1 DEF IInv, TypeInv, ViewsStay
    <3>2. PICK C : Counts(rows, everFilled, Gone, Market, v, cache[v], C)
      BY <2>1, <3>1 DEF IInv, CacheInv
    <3>3. Counts(rows', everFilled', Gone', Market', v, cache[v], C)
      BY <3>1, <3>2, CountsStay DEF ViewsStay, GrowsNow
    <3>4. QED
      BY <3>1, <3>3
  <2>2. QED
    BY <2>1 DEF CacheInv
<1>2. JobInv'
  <2>1. ASSUME NEW t \in Threads, thread'[t].op = "folding"
        PROVE  /\ thread'[t].resumed => cache'[thread'[t].view] # None
               /\ Queried(rows', everFilled', Gone', thread'[t].view,
                          JobBase(thread'[t], cache'[thread'[t].view]), thread'[t])
    <3>1. thread'[t] = thread[t] /\ cache' = cache /\ thread[t].op = "folding"
      BY <2>1 DEF ViewsStay
    <3>2. /\ thread[t].resumed => cache[thread[t].view] # None
          /\ Queried(rows, everFilled, Gone, thread[t].view,
                     JobBase(thread[t], cache[thread[t].view]), thread[t])
      BY <3>1 DEF IInv, JobInv
    <3> DEFINE job == thread[t]
               base == JobBase(job, cache[job.view])
    <3>3. base \in Entries
      BY <3>1, <3>2, JobBaseType DEF IInv
    <3> HIDE DEF base
    <3>4. Queried(rows', everFilled', Gone', job.view, base, job)
      BY <3>2, <3>3, QueriedStay DEF ViewsStay, GrowsNow, base
    <3>5. QED
      BY <3>1, <3>2, <3>4 DEF base
  <2>2. QED
    BY <2>1 DEF JobInv
<1>3. QED
  BY <1>1, <1>2

LEMMA InvInit == Init => IInv
<1> SUFFICES ASSUME Init PROVE IInv
  OBVIOUS
<1>1. \A t \in Threads : thread[t] = Idle /\ thread[t].op = "idle"
  BY DEF Init, Idle
<1>2. TypeInv
  <2>1. rows \in Seq(OrderRows)
    BY DEF Init
  <2>2. cache \in [Views -> Entries \cup {None}] /\ thread \in [Threads -> Jobs]
    BY DEF Init, Jobs, Idle
  <2>3. MarketOK
    <3>1. \A s \in Symbols : History[s] # <<>> => 0 < Len(History[s])
      <4>1. ASSUME NEW s \in Symbols, History[s] # <<>> PROVE 0 < Len(History[s])
        <5>1. History[s] \in Seq(Int)
          BY AccountingAssumption
        <5>2. QED
          BY <4>1, <5>1, EmptySeq
      <4>2. QED
        BY <4>1
    <3>2. step = 0 /\ clock = 0 /\ booted = 0 /\ slept = Second /\ skew = 0
      BY DEF Init
    <3>3. Behind = 0
      BY <3>2, MadeIs DEF Behind
    <3>4. Second \in Nat
      BY AccountingAssumption
    <3>5. QED
      BY <3>1, <3>2, <3>3, <3>4 DEF MarketOK
  <2>4. QED
    BY <2>1, <2>2, <2>3 DEF TypeInv
<1>3. RowInv
  <2>1. Len(rows) = 0 /\ visible = {} /\ everFilled = {} /\ erased = {} /\ late = {}
    BY DEF Init
  <2>2. QED
    BY <2>1 DEF RowInv
<1>4. InsertInv /\ WaitInv /\ LockInv /\ JobInv
  BY <1>1 DEF Init, InsertInv, Inserting, WaitInv, Waiting, LockInv, JobInv
<1>5. CacheInv
  BY DEF Init, CacheInv
<1>6. QED
  BY <1>2, <1>3, <1>4, <1>5 DEF IInv
-----------------------------------------------------------------------------
(* One lemma per action *)

LEMMA StayStep ==
  ASSUME IInv, ViewsStay, TypeInv', RowInv', InsertInv', WaitInv'
  PROVE  IInv'
<1>1. CacheInv' /\ JobInv'
  BY CachesStay
<1>2. LockInv'
  <2>1. ASSUME NEW t \in Threads, NEW u \in Threads,
               thread'[t].op = "folding", thread'[u].op = "folding",
               KindOf(thread'[t].view) = KindOf(thread'[u].view)
        PROVE  t = u
    <3>1. thread'[t] = thread[t] /\ thread'[u] = thread[u]
      BY <2>1 DEF ViewsStay
    <3>2. QED
      BY <2>1, <3>1 DEF IInv, LockInv
  <2>2. QED
    BY <2>1 DEF LockInv
<1>3. QED
  BY <1>1, <1>2 DEF IInv

\* Rows that are the same have the same fills.
LEMMA SameRows ==
  ASSUME NEW table, NEW table2, NEW fills, \A i \in fills : table2[i] = table[i]
  PROVE  SameFills(table, table2, fills)
BY DEF SameFills, SameFill

\* A thread takes up another job.
LEMMA ThreadTakes ==
  ASSUME TypeInv, NEW t \in Threads, NEW job \in Jobs,
         thread' = [thread EXCEPT ![t] = job]
  PROVE  /\ thread' \in [Threads -> Jobs] /\ thread'[t] = job
         /\ \A u \in Threads \ {t} : thread'[u] = thread[u]
BY DEF TypeInv

LEMMA IdleIs == Idle \in Jobs /\ Idle.op = "idle"
BY DEF Jobs, Idle

\* While no time passes.
LEMMA TimeStays ==
  ASSUME MarketOK, UNCHANGED time
  PROVE  /\ MarketOK' /\ Market' = Market /\ Market \in Markets /\ Later(Market, Market')
         /\ clock' = clock /\ booted' = booted /\ skew' = skew /\ step' = step
<1>1. step' = step /\ clock' = clock /\ booted' = booted /\ slept' = slept /\ skew' = skew
  BY DEF time
<1>2. MarketOK' /\ Market' = Market
  BY <1>1 DEF MarketOK, Behind, Market
<1>3. Market \in Markets
  BY MarketTyped
<1>4. QED
  BY <1>1, <1>2, <1>3 DEF Later, Markets

LEMMA WaitersStay ==
  ASSUME WaitInv, booted' = booted, clock' = clock, skew' = skew,
         \A t \in Threads : thread'[t].op \in {"asking", "folding"} =>
           thread[t].op \in {"asking", "folding"} /\ thread'[t].now = thread[t].now
  PROVE  WaitInv'
BY DEF WaitInv, Waiting

LEMMA InsertersStay ==
  ASSUME InsertInv, Len(rows) \in Nat, Len(rows') \in Nat, Len(rows) <= Len(rows'),
         visible' = visible, late' = late,
         \A t \in Threads : thread'[t].op = "inserting" => thread'[t] = thread[t]
  PROVE  InsertInv'
<1>1. Inserting' \subseteq Inserting /\ \A t \in Inserting' : thread'[t] = thread[t]
  BY DEF Inserting
<1>2. ASSUME NEW t \in Inserting'
      PROVE  /\ thread'[t].id \in 1 .. Len(rows') /\ thread'[t].id \notin visible'
             /\ \A u \in Inserting' : thread'[u].id = thread'[t].id => u = t
  <2>1. /\ thread[t].id \in 1 .. Len(rows) /\ thread[t].id \notin visible
        /\ \A u \in Inserting : thread[u].id = thread[t].id => u = t
    BY <1>1, <1>2 DEF InsertInv
  <2>2. QED
    BY <1>1, <1>2, <2>1
<1>3. ASSUME OneWriter
      PROVE  /\ late' = {}
             /\ \A t \in Inserting' : /\ \A u \in Inserting' : u = t
                                      /\ \A j \in visible' : j < thread'[t].id
  BY <1>1, <1>3 DEF InsertInv
<1>4. QED
  BY <1>2, <1>3 DEF InsertInv

\* While no order changes.
LEMMA OrdersStay ==
  ASSUME TypeInv, RowInv, UNCHANGED orders, Market' \in Markets, Later(Market, Market')
  PROVE  GrowsNow
<1>1. rows' = rows /\ everFilled' = everFilled /\ Gone' = Gone
  BY DEF orders, Gone
<1>2. Filed(rows, everFilled) /\ Market \in Markets
  BY FiledNow, MarketTyped DEF TypeInv
<1>3. SameFills(rows, rows', everFilled)
  BY <1>1, SameRows
<1>4. QED
  BY <1>1, <1>2, <1>3 DEF GrowsNow, Grows

LEMMA InsertStep ==
  ASSUME IInv, NEW t \in Threads, NEW row \in NewRows, Insert(t, row)
  PROVE  IInv' /\ ViewsStay
<1> DEFINE new == [row EXCEPT !.at = clock]
           n == Len(rows)
           job == [op |-> "inserting", id |-> n + 1]
<1>1. /\ rows \in Seq(OrderRows) /\ clock \in Nat /\ n \in Nat /\ MarketOK
      /\ TypeInv /\ RowInv /\ InsertInv /\ WaitInv
  BY DEF IInv, TypeInv, MarketOK
<1>2. new \in OrderRows /\ new.at = clock /\ (new.status = "submitted" => new.filled = 0)
  <2>1. row \in OrderRows /\ (row.status = "submitted" => row.filled = 0)
    BY AccountingAssumption
  <2>2. QED
    BY <1>1, <2>1 DEF OrderRows
<1>3. /\ rows' = Append(rows, new) /\ thread' = [thread EXCEPT ![t] = job]
      /\ visible' = visible /\ cache' = cache /\ UNCHANGED time
      /\ everFilled' = everFilled /\ erased' = erased /\ late' = late
      /\ (OneWriter => Inserting = {})
  BY DEF Insert, MayWrite
<1> HIDE DEF new
<1>4. /\ rows' \in Seq(OrderRows) /\ Len(rows') = n + 1 /\ rows'[n + 1] = new
      /\ \A i \in 1 .. n : rows'[i] = rows[i]
  BY <1>1, <1>2, <1>3, AppendProperties
<1>5. /\ thread' \in [Threads -> Jobs] /\ thread'[t] = job
      /\ \A u \in Threads \ {t} : thread'[u] = thread[u]
  <2>1. job \in Jobs
    BY <1>1 DEF Jobs
  <2>2. QED
    BY <1>1, <1>3, <2>1, ThreadTakes
<1>6. job.op = "inserting" /\ job.id = n + 1
  OBVIOUS
<1> HIDE DEF job
<1>7. /\ MarketOK' /\ Market' = Market /\ Market \in Markets /\ Later(Market, Market')
      /\ clock' = clock /\ booted' = booted /\ skew' = skew
  BY <1>1, <1>3, TimeStays
<1>8. TypeInv'
  BY <1>1, <1>3, <1>4, <1>5, <1>7 DEF TypeInv
<1>9. visible \subseteq 1 .. n /\ everFilled \subseteq 1 .. n
  BY <1>1 DEF RowInv
<1>10. RowInv'
  <2>1. \A i \in 1 .. Len(rows') :
          rows'[i].at <= clock' /\ (rows'[i].status = "submitted" => rows'[i].filled = 0)
    <3>1. ASSUME NEW i \in 1 .. Len(rows')
          PROVE  rows'[i].at <= clock' /\ (rows'[i].status = "submitted" => rows'[i].filled = 0)
      <4>1. CASE i \in 1 .. n
        BY <1>1, <1>4, <1>7, <4>1 DEF RowInv
      <4>2. CASE i = n + 1
        BY <1>1, <1>2, <1>4, <1>7, <4>2
      <4>3. QED
        BY <1>1, <1>4, <4>1, <4>2
    <3>2. QED
      BY <3>1
  <2>2. visible' \subseteq 1 .. Len(rows')
    BY <1>1, <1>3, <1>4, <1>9
  <2>3. erased' \subseteq everFilled' /\ late' \subseteq everFilled' /\ everFilled' \subseteq visible'
    BY <1>1, <1>3 DEF RowInv
  <2>4. \A i \in visible' : IsFill(rows'[i]) <=> i \in everFilled' \ erased'
    <3>1. \A i \in visible : rows'[i] = rows[i]
      BY <1>4, <1>9
    <3>2. QED
      BY <1>1, <1>3, <3>1 DEF RowInv
  <2>5. QED
    BY <2>1, <2>2, <2>3, <2>4 DEF RowInv
<1>11. InsertInv'
  <2>1. /\ Inserting' = Inserting \cup {t}
        /\ \A u \in Inserting' : u # t => u \in Inserting /\ thread'[u] = thread[u]
    BY <1>1, <1>5, <1>6 DEF Inserting
  <2>2. \A u \in Inserting : thread[u].id \in 1 .. n /\ thread[u].id \notin visible
    BY <1>1 DEF InsertInv
  <2>3. ASSUME NEW u \in Inserting'
        PROVE  /\ thread'[u].id \in 1 .. Len(rows') /\ thread'[u].id \notin visible'
               /\ \A w \in Inserting' : thread'[w].id = thread'[u].id => w = u
    <3>1. thread'[t].id = n + 1 /\ n + 1 \notin visible /\ n + 1 \in 1 .. Len(rows')
      BY <1>1, <1>4, <1>5, <1>6, <1>9
    <3>2. \A w \in Inserting' : w # t =>
            thread'[w].id \in 1 .. n /\ thread'[w].id \notin visible /\ thread'[w].id # n + 1
      BY <1>1, <2>1, <2>2
    <3>3. \A w \in Inserting' : thread'[w].id = thread'[u].id => w = u
      <4>1. ASSUME NEW w \in Inserting', thread'[w].id = thread'[u].id PROVE w = u
        <5>1. CASE u = t \/ w = t
          BY <3>1, <3>2, <4>1, <5>1
        <5>2. CASE u # t /\ w # t
          BY <1>1, <2>1, <4>1, <5>2 DEF InsertInv
        <5>3. QED
          BY <5>1, <5>2
      <4>2. QED
        BY <4>1
    <3>4. CASE u = t
      BY <1>3, <3>1, <3>3, <3>4
    <3>5. CASE u # t
      BY <1>1, <1>3, <1>4, <3>2, <3>3, <3>5
    <3>6. QED
      BY <3>4, <3>5
  <2>4. ASSUME OneWriter
        PROVE  /\ late' = {}
               /\ \A u \in Inserting' : /\ \A w \in Inserting' : w = u
                                        /\ \A j \in visible' : j < thread'[u].id
    <3>1. Inserting' = {t} /\ late' = {} /\ thread'[t].id = n + 1
      BY <1>1, <1>3, <1>5, <1>6, <2>1, <2>4 DEF InsertInv
    <3>2. \A j \in visible' : j < n + 1
      BY <1>1, <1>3, <1>9
    <3>3. QED
      BY <3>1, <3>2
  <2>5. QED
    BY <2>3, <2>4 DEF InsertInv
<1>12. WaitInv'
  <2>1. \A u \in Threads : thread'[u].op \in {"asking", "folding"} => thread'[u] = thread[u]
    BY <1>5, <1>6
  <2>2. QED
    BY <1>1, <1>7, <2>1, WaitersStay
<1>13. ViewsStay
  <2>1. Filed(rows, everFilled) /\ Filed(rows', everFilled)
    <3>1. everFilled \subseteq 1 .. Len(rows')
      BY <1>1, <1>4, <1>9
    <3>2. QED
      BY <1>1, <1>4, <3>1, FiledNow, FiledIs
  <2>2. SameFills(rows, rows', everFilled)
    BY <1>4, <1>9, SameRows
  <2>3. Gone' = Gone
    BY <1>3 DEF Gone
  <2>4. GrowsNow
    BY <1>3, <1>7, <2>1, <2>2, <2>3 DEF GrowsNow, Grows
  <2>5. QED
    BY <1>3, <1>5, <1>6, <2>4 DEF ViewsStay
<1>14. QED
  BY <1>8, <1>10, <1>11, <1>12, <1>13, StayStep

LEMMA CommitStep ==
  ASSUME IInv, NEW t \in Threads, Commit(t)
  PROVE  IInv' /\ ViewsStay
<1> DEFINE n == Len(rows)
           id == thread[t].id
<1>1. /\ rows \in Seq(OrderRows) /\ n \in Nat /\ thread[t].op = "inserting" /\ MarketOK
      /\ TypeInv /\ RowInv /\ InsertInv /\ WaitInv
  BY DEF IInv, TypeInv, Commit
<1>2. /\ rows' = rows /\ thread' = [thread EXCEPT ![t] = Idle]
      /\ visible' = visible \cup {id} /\ cache' = cache /\ UNCHANGED time
      /\ everFilled' = (IF IsFill(rows[id]) THEN everFilled \cup {id} ELSE everFilled)
      /\ late' = (IF IsFill(rows[id]) /\ \E j \in everFilled : j > id
                  THEN late \cup {id} ELSE late)
      /\ erased' = erased
  BY DEF Commit
<1>3. t \in Inserting /\ id \in 1 .. n /\ id \notin visible
  BY <1>1 DEF Inserting, InsertInv
<1>4. /\ thread' \in [Threads -> Jobs] /\ thread'[t] = Idle /\ Idle.op = "idle"
      /\ \A u \in Threads \ {t} : thread'[u] = thread[u]
  BY <1>1, <1>2, IdleIs, ThreadTakes
<1>5. /\ MarketOK' /\ Market' = Market /\ Market \in Markets /\ Later(Market, Market')
      /\ clock' = clock /\ booted' = booted /\ skew' = skew
  BY <1>1, <1>2, TimeStays
<1>6. TypeInv'
  BY <1>1, <1>2, <1>4, <1>5 DEF TypeInv
<1>7. /\ visible \subseteq 1 .. n /\ everFilled \subseteq visible
      /\ erased \subseteq everFilled /\ late \subseteq everFilled
  BY <1>1 DEF RowInv
<1> HIDE DEF n, id
<1>8. RowInv'
  <2>1. \A i \in 1 .. Len(rows') :
          rows'[i].at <= clock' /\ (rows'[i].status = "submitted" => rows'[i].filled = 0)
    BY <1>1, <1>2, <1>5 DEF RowInv
  <2>2. visible' \subseteq 1 .. Len(rows')
    BY <1>2, <1>3, <1>7 DEF n
  <2>3. erased' \subseteq everFilled' /\ late' \subseteq everFilled' /\ everFilled' \subseteq visible'
    BY <1>2, <1>7
  <2>4. \A i \in visible' : IsFill(rows'[i]) <=> i \in everFilled' \ erased'
    <3>1. id \notin everFilled /\ id \notin erased
      BY <1>3, <1>7
    <3>2. \A i \in visible : IsFill(rows[i]) <=> i \in everFilled \ erased
      BY <1>1 DEF RowInv
    <3>3. QED
      BY <1>2, <3>1, <3>2
  <2>5. QED
    BY <2>1, <2>2, <2>3, <2>4 DEF RowInv
<1>9. InsertInv'
  <2>1. Inserting' = Inserting \ {t} /\ \A u \in Inserting' : thread'[u] = thread[u]
    BY <1>4 DEF Inserting
  <2>2. ASSUME NEW u \in Inserting'
        PROVE  /\ thread'[u].id \in 1 .. Len(rows') /\ thread'[u].id \notin visible'
               /\ \A w \in Inserting' : thread'[w].id = thread'[u].id => w = u
    <3>1. /\ thread[u].id \in 1 .. n /\ thread[u].id \notin visible
          /\ \A w \in Inserting : thread[w].id = thread[u].id => w = u
      BY <1>1, <2>1, <2>2 DEF InsertInv, n
    <3>2. thread[u].id # id
      BY <1>3, <2>1, <2>2, <3>1 DEF id
    <3>3. QED
      BY <1>2, <2>1, <2>2, <3>1, <3>2 DEF n
  <2>3. ASSUME OneWriter
        PROVE  /\ late' = {}
               /\ \A u \in Inserting' : /\ \A w \in Inserting' : w = u
                                        /\ \A j \in visible' : j < thread'[u].id
    <3>1. /\ late = {} /\ \A u \in Inserting : u = t
          /\ \A j \in visible : j < id
      BY <1>1, <1>3, <2>3 DEF InsertInv, id
    <3>2. Inserting' = {}
      BY <2>1, <3>1
    <3>3. ~ \E j \in everFilled : j > id
      <4>1. ASSUME NEW j \in everFilled, j > id PROVE FALSE
        <5>1. j < id /\ j \in Int /\ id \in Int
          BY <1>3, <1>7, <3>1, <4>1
        <5>2. QED
          BY <4>1, <5>1
      <4>2. QED
        BY <4>1
    <3>4. QED
      BY <1>2, <3>1, <3>2, <3>3
  <2>4. QED
    BY <2>2, <2>3 DEF InsertInv
<1>10. WaitInv'
  <2>1. \A u \in Threads : thread'[u].op \in {"asking", "folding"} => thread'[u] = thread[u]
    BY <1>4
  <2>2. QED
    BY <1>1, <1>5, <2>1, WaitersStay
<1>11. ViewsStay
  <2>1. everFilled' \subseteq 1 .. n /\ everFilled \subseteq 1 .. n
    BY <1>2, <1>3, <1>7
  <2>2. Filed(rows, everFilled) /\ Filed(rows', everFilled')
    BY <1>1, <1>2, <2>1, FiledNow, FiledIs DEF n
  <2>3. SameFills(rows, rows', everFilled)
    BY <1>2, SameRows
  <2>4. \A i \in everFilled' \ everFilled : i \in Gone' \/ \A j \in everFilled : i > j
    <3>1. ASSUME NEW i \in everFilled' \ everFilled, i \notin Gone', NEW j \in everFilled
          PROVE  i > j
      <4>1. i = id /\ IsFill(rows[id]) /\ i \notin late'
        BY <1>2, <3>1 DEF Gone
      <4>2. ~(j > id) /\ j # id
        BY <1>2, <3>1, <4>1
      <4>3. id \in Int /\ j \in Int
        BY <1>3, <2>1
      <4>4. QED
        BY <4>1, <4>2, <4>3
    <3>2. QED
      BY <3>1
  <2>5. Gone \subseteq Gone' /\ everFilled \subseteq everFilled'
    BY <1>2 DEF Gone
  <2>6. GrowsNow
    BY <1>5, <2>2, <2>3, <2>4, <2>5 DEF GrowsNow, Grows
  <2>7. QED
    BY <1>2, <1>4, <2>6 DEF ViewsStay
<1>12. QED
  BY <1>6, <1>8, <1>9, <1>10, <1>11, StayStep

\* Steps that change neither an order nor the time nor a cache.
LEMMA JobStep ==
  ASSUME IInv, UNCHANGED <<orders, cache, time>>, thread' \in [Threads -> Jobs],
         \A t \in Threads : thread'[t].op \in {"inserting", "folding"} => thread'[t] = thread[t],
         WaitInv'
  PROVE  IInv' /\ ViewsStay
<1>1. /\ TypeInv /\ RowInv /\ InsertInv /\ MarketOK
  BY DEF IInv, TypeInv
<1>2. /\ MarketOK' /\ Market' = Market /\ Market \in Markets /\ Later(Market, Market')
      /\ clock' = clock
  BY <1>1, TimeStays
<1>3. /\ rows' = rows /\ visible' = visible /\ everFilled' = everFilled /\ erased' = erased
      /\ late' = late /\ cache' = cache
  BY DEF orders
<1>4. TypeInv' /\ RowInv'
  BY <1>1, <1>2, <1>3 DEF TypeInv, RowInv
<1>5. InsertInv'
  <2>1. Len(rows) \in Nat
    BY <1>1 DEF TypeInv
  <2>2. QED
    BY <1>1, <1>3, <2>1, InsertersStay
<1>6. ViewsStay
  <2>1. GrowsNow
    BY <1>1, <1>2, OrdersStay
  <2>2. QED
    BY <1>3, <2>1 DEF ViewsStay
<1>7. QED
  BY <1>4, <1>5, <1>6, StayStep

LEMMA RollbackStep ==
  ASSUME IInv, NEW t \in Threads, Rollback(t)
  PROVE  IInv' /\ ViewsStay
<1>1. /\ TypeInv /\ WaitInv /\ MarketOK /\ thread' = [thread EXCEPT ![t] = Idle]
      /\ UNCHANGED <<orders, cache, time>>
  BY DEF IInv, TypeInv, Rollback
<1>2. /\ thread' \in [Threads -> Jobs] /\ thread'[t] = Idle /\ Idle.op = "idle"
      /\ \A u \in Threads \ {t} : thread'[u] = thread[u]
  BY <1>1, IdleIs, ThreadTakes
<1>3. \A u \in Threads : thread'[u].op # "idle" => thread'[u] = thread[u]
  BY <1>2
<1>4. WaitInv'
  <2>1. clock' = clock /\ booted' = booted /\ skew' = skew
    BY <1>1, TimeStays
  <2>2. QED
    BY <1>1, <1>3, <2>1, WaitersStay
<1>5. QED
  BY <1>1, <1>2, <1>3, <1>4, JobStep

LEMMA AskStep ==
  ASSUME IInv, NEW t \in Threads, NEW v \in Views, Ask(t, v)
  PROVE  IInv' /\ ViewsStay
<1> DEFINE job == [op |-> "asking", view |-> v, now |-> clock]
<1>1. /\ TypeInv /\ WaitInv /\ MarketOK /\ thread' = [thread EXCEPT ![t] = job]
      /\ UNCHANGED <<orders, cache, time>>
  BY DEF IInv, TypeInv, Ask
<1>2. job \in Jobs /\ job.op = "asking" /\ job.now = clock
  BY <1>1 DEF Jobs, MarketOK
<1> HIDE DEF job
<1>3. /\ thread' \in [Threads -> Jobs] /\ thread'[t] = job
      /\ \A u \in Threads \ {t} : thread'[u] = thread[u]
  BY <1>1, <1>2, ThreadTakes
<1>4. \A u \in Threads : thread'[u].op \in {"inserting", "folding"} => thread'[u] = thread[u]
  BY <1>2, <1>3
<1>5. WaitInv'
  <2>1. clock' = clock /\ booted' = booted /\ skew' = skew
    BY <1>1, TimeStays
  <2>2. booted <= clock /\ clock - clock <= skew
    BY <1>1 DEF MarketOK
  <2>3. ASSUME NEW u \in Waiting'
        PROVE  /\ booted' <= thread'[u].now /\ thread'[u].now <= clock'
               /\ clock' - thread'[u].now <= skew'
    <3>1. CASE u = t
      BY <1>1, <1>2, <1>3, <2>1, <2>2, <3>1 DEF MarketOK
    <3>2. CASE u # t
      BY <1>1, <1>3, <2>1, <2>3, <3>2 DEF WaitInv, Waiting
    <3>3. QED
      BY <3>1, <3>2
  <2>4. QED
    BY <2>3 DEF WaitInv
<1>6. QED
  BY <1>1, <1>3, <1>4, <1>5, JobStep

LEMMA CancelStep ==
  ASSUME IInv, NEW id \in visible, CancelOrder(id)
  PROVE  IInv' /\ ViewsStay
<1> DEFINE n == Len(rows)
           row == [rows[id] EXCEPT !.status = "cancelled"]
<1>1. /\ rows \in Seq(OrderRows) /\ n \in Nat /\ MarketOK
      /\ rows[id].status \in {"submitted", "partially_filled"}
      /\ TypeInv /\ RowInv /\ InsertInv /\ WaitInv
  BY DEF IInv, TypeInv, CancelOrder
<1>2. /\ rows' = [rows EXCEPT ![id].status = "cancelled"]
      /\ thread' = thread /\ visible' = visible /\ cache' = cache
      /\ UNCHANGED time /\ everFilled' = everFilled /\ late' = late
      /\ erased' = (IF rows[id].filled > 0 THEN erased \cup {id} ELSE erased)
  BY DEF CancelOrder
<1>3. visible \subseteq 1 .. n /\ everFilled \subseteq 1 .. n
  BY <1>1 DEF RowInv
<1>4. rows[id] \in OrderRows /\ id \in 1 .. n
  <2>1. id \in 1 .. n
    BY <1>3
  <2>2. QED
    BY <1>1, <2>1
<1>5. /\ row \in OrderRows /\ row.status = "cancelled" /\ row.at = rows[id].at
      /\ SameFill(rows[id], row)
  BY <1>4 DEF OrderRows, Statuses, SameFill
<1> HIDE DEF row
<1>6. /\ rows' \in Seq(OrderRows) /\ Len(rows') = n /\ rows'[id] = row
      /\ \A i \in (1 .. n) \ {id} : rows'[i] = rows[i]
  <2>1. rows' = [rows EXCEPT ![id] = row]
    BY <1>2 DEF row
  <2>2. QED
    BY <1>1, <1>4, <1>5, <2>1
<1>7. rows[id].filled > 0 => id \in everFilled
  <2>1. ASSUME rows[id].filled > 0 PROVE id \in everFilled
    <3>1. rows[id].filled # 0
      BY <1>4, <2>1 DEF OrderRows
    <3>2. rows[id].status = "partially_filled"
      BY <1>1, <1>4, <3>1 DEF RowInv
    <3>3. IsFill(rows[id])
      BY <2>1, <3>2 DEF IsFill
    <3>4. QED
      BY <1>1, <3>3 DEF RowInv
  <2>2. QED
    BY <2>1
<1>8. /\ MarketOK' /\ Market' = Market /\ Market \in Markets /\ Later(Market, Market')
      /\ clock' = clock /\ booted' = booted /\ skew' = skew
  BY <1>1, <1>2, TimeStays
<1>9. TypeInv'
  BY <1>1, <1>2, <1>6, <1>8 DEF TypeInv
<1>10. RowInv'
  <2>1. \A i \in 1 .. Len(rows') :
          rows'[i].at <= clock' /\ (rows'[i].status = "submitted" => rows'[i].filled = 0)
    BY <1>1, <1>4, <1>5, <1>6, <1>8 DEF RowInv
  <2>2. visible' \subseteq 1 .. Len(rows')
    BY <1>2, <1>3, <1>6
  <2>3. erased' \subseteq everFilled' /\ late' \subseteq everFilled' /\ everFilled' \subseteq visible'
    BY <1>1, <1>2, <1>7 DEF RowInv
  <2>4. \A i \in visible' : IsFill(rows'[i]) <=> i \in everFilled' \ erased'
    <3>1. ASSUME NEW i \in visible, i # id
          PROVE  IsFill(rows'[i]) <=> i \in everFilled' \ erased'
      <4>1. rows'[i] = rows[i]
        BY <1>3, <1>6, <3>1
      <4>2. QED
        BY <1>1, <1>2, <3>1, <4>1 DEF RowInv
    <3>2. ~IsFill(rows'[id]) /\ id \notin everFilled' \ erased'
      <4>1. ~IsFill(rows'[id])
        BY <1>5, <1>6 DEF IsFill
      <4>2. CASE rows[id].filled > 0
        BY <1>2, <4>1, <4>2
      <4>3. CASE ~(rows[id].filled > 0)
        <5>1. ~IsFill(rows[id])
          BY <4>3 DEF IsFill
        <5>2. QED
          BY <1>1, <1>2, <4>1, <4>3, <5>1 DEF RowInv
      <4>4. QED
        BY <4>2, <4>3
    <3>3. QED
      BY <1>2, <3>1, <3>2
  <2>5. QED
    BY <2>1, <2>2, <2>3, <2>4 DEF RowInv
<1>11. InsertInv'
  BY <1>1, <1>2, <1>6, InsertersStay
<1>12. WaitInv'
  BY <1>1, <1>2, <1>8, WaitersStay
<1>13. ViewsStay
  <2>1. Filed(rows, everFilled) /\ Filed(rows', everFilled)
    BY <1>1, <1>3, <1>6, FiledNow, FiledIs
  <2>2. SameFills(rows, rows', everFilled)
    <3>1. ASSUME NEW i \in everFilled PROVE SameFill(rows[i], rows'[i])
      <4>1. CASE i = id
        BY <1>5, <1>6, <4>1
      <4>2. CASE i # id
        BY <1>3, <1>6, <4>2 DEF SameFill
      <4>3. QED
        BY <4>1, <4>2
    <3>2. QED
      BY <3>1 DEF SameFills
  <2>3. Gone \subseteq Gone'
    BY <1>2 DEF Gone
  <2>4. GrowsNow
    BY <1>2, <1>8, <2>1, <2>2, <2>3 DEF GrowsNow, Grows
  <2>5. QED
    BY <1>2, <2>4 DEF ViewsStay
<1>14. QED
  BY <1>9, <1>10, <1>11, <1>12, <1>13, StayStep

\* What a query finds, and what its route is going to say.
QueryMakes(t, v) ==
  /\ v \in Views /\ Base(v) \in Entries
  /\ \E C : Counts(rows, everFilled, Gone, Market, v, Base(v), C)
  /\ NewFills(v) =
       {i \in everFilled \ erased : InScope(ScopeOf(v), rows[i]) /\ i > Base(v).walk.last}
  /\ thread'[t].op = "folding" /\ thread'[t].view = v
  /\ thread'[t].says = Walked(Walk(Base(v).walk, rows, NewFills(v)))
  /\ thread[t].op = "asking" /\ \A u \in Threads \ {t} : thread'[u] = thread[u]

LEMMA QueryStep ==
  ASSUME IInv, NEW t \in Threads, Query(t)
  PROVE  IInv' /\ QueryMakes(t, thread[t].view)
<1> DEFINE v == thread[t].view
           base == Base(v)
           new == NewFills(v)
           says == Walked(Walk(base.walk, rows, new))
           job == [op |-> "folding", view |-> v, now |-> thread[t].now,
                   resumed |-> Resumable(v), new |-> new, says |-> says]
<1>1. /\ rows \in Seq(OrderRows) /\ TypeInv /\ RowInv /\ InsertInv /\ WaitInv /\ LockInv
      /\ CacheInv /\ JobInv /\ MarketOK
      /\ thread[t].op = "asking" /\ ~Locked(KindOf(v))
  BY DEF IInv, TypeInv, Query
<1>2. /\ thread' = [thread EXCEPT ![t] = job] /\ rows' = rows /\ visible' = visible
      /\ cache' = cache /\ UNCHANGED time /\ everFilled' = everFilled
      /\ erased' = erased /\ late' = late /\ Gone' = Gone
  BY DEF Query, orders, Gone
<1>v. v \in Views /\ thread[t].now \in Nat
  <2>1. thread[t] \in Jobs
    BY <1>1 DEF TypeInv
  <2>2. QED
    BY <1>1, <2>1 DEF Jobs
<1> HIDE DEF v
<1>3. base \in Entries /\ base = JobBase(job, cache[v])
      /\ (Resumable(v) => cache[v] # None) /\ Resumable(v) \in BOOLEAN
  <2>1. cache[v] \in Entries \cup {None}
    BY <1>1, <1>v DEF TypeInv
  <2>2. QED
    BY <2>1, EmptyTyped DEF Base, Resumable, JobBase
<1>4. Filed(rows, everFilled) /\ everFilled \subseteq visible
  BY <1>1, FiledNow DEF RowInv
<1>5. \E C : Counts(rows, everFilled, Gone, Market, v, base, C)
  <2>1. CASE Resumable(v)
    BY <1>1, <1>v, <2>1 DEF Base, Resumable, CacheInv
  <2>2. CASE ~Resumable(v)
    BY <1>4, <2>2, CountsNothing DEF Base
  <2>3. QED
    BY <2>1, <2>2
<1>6. new = {i \in everFilled \ erased : InScope(ScopeOf(v), rows[i]) /\ i > base.walk.last}
  BY <1>1, <1>4 DEF NewFills, Filled, RowInv
<1>7. Recorded(rows, new) /\ new \subseteq Nat /\ base.walk \in Walks
  <2>1. Recorded(rows, new)
    BY <1>4, <1>6, RecordedIn DEF Filed
  <2>2. QED
    BY <1>3, <2>1 DEF Recorded, Entries
<1>8. says \in Walks
  <2>1. Walk(base.walk, rows, new) \in Walks
    BY <1>7, WalkWorks DEF WalkedOver
  <2> HIDE DEF new, base
  <2>2. QED
    BY <2>1 DEF Walks, Walked
<1> HIDE DEF base, new, says
<1>9. job \in Jobs /\ job.op = "folding" /\ job.view = v /\ job.new = new /\ job.says = says
      /\ job.resumed = Resumable(v) /\ job.now = thread[t].now
  BY <1>3, <1>7, <1>8, <1>v DEF Jobs
<1>10. Queried(rows, everFilled, Gone, v, base, job)
  <2>1. new \subseteq everFilled /\ \A i \in new : InScope(ScopeOf(v), rows[i]) /\ i > base.walk.last
    BY <1>6
  <2>2. \A i \in everFilled \ Gone :
          InScope(ScopeOf(v), rows[i]) => i \in new \/ i <= base.walk.last
    <3>1. base.walk.last \in Nat /\ \A i \in everFilled : i \in Nat
      BY <1>4, <1>7 DEF Walks, Filed, Recorded
    <3>2. QED
      BY <1>6, <3>1 DEF Gone
  <2>3. QED
    BY <1>9, <2>1, <2>2 DEF Queried, says, new, base
<1> HIDE DEF job
<1>11. /\ thread' \in [Threads -> Jobs] /\ thread'[t] = job
       /\ \A u \in Threads \ {t} : thread'[u] = thread[u]
  BY <1>1, <1>2, <1>9, ThreadTakes
<1>12. /\ MarketOK' /\ Market' = Market /\ clock' = clock /\ booted' = booted /\ skew' = skew
  BY <1>1, <1>2, TimeStays
<1>13. TypeInv' /\ RowInv'
  BY <1>1, <1>2, <1>11, <1>12 DEF TypeInv, RowInv
<1>14. InsertInv'
  <2>1. \A u \in Threads : thread'[u].op = "inserting" => thread'[u] = thread[u]
    BY <1>9, <1>11
  <2>2. Len(rows) \in Nat
    BY <1>1
  <2>3. QED
    BY <1>1, <1>2, <2>1, <2>2, InsertersStay
<1>15. WaitInv'
  <2>1. \A u \in Threads : thread'[u].op \in {"asking", "folding"} =>
          thread[u].op \in {"asking", "folding"} /\ thread'[u].now = thread[u].now
    BY <1>1, <1>9, <1>11
  <2>2. QED
    BY <1>1, <1>12, <2>1, WaitersStay
<1>16. LockInv'
  <2>1. ASSUME NEW u \in Threads, u # t, thread[u].op = "folding",
               KindOf(thread[u].view) = KindOf(v)
        PROVE  FALSE
    <3>1. thread[u] \in Range(thread)
      BY <1>1 DEF TypeInv, Range
    <3>2. thread[u].view \in Views
      BY <1>1, <2>1 DEF TypeInv, Jobs
    <3>3. Answering(thread[u].view) # {}
      BY <2>1, <3>1 DEF Answering
    <3>4. QED
      BY <1>1, <2>1, <3>2, <3>3 DEF Locked
  <2>2. QED
    BY <1>1, <1>9, <1>11, <2>1 DEF LockInv
<1>17. CacheInv'
  BY <1>1, <1>2, <1>12 DEF CacheInv
<1>18. JobInv'
  <2>1. ASSUME NEW u \in Threads, thread'[u].op = "folding"
        PROVE  /\ thread'[u].resumed => cache'[thread'[u].view] # None
               /\ Queried(rows', everFilled', Gone', thread'[u].view,
                          JobBase(thread'[u], cache'[thread'[u].view]), thread'[u])
    <3>1. CASE u = t
      BY <1>2, <1>3, <1>9, <1>10, <1>11, <3>1 DEF job
    <3>2. CASE u # t
      BY <1>1, <1>2, <1>11, <2>1, <3>2 DEF JobInv
    <3>3. QED
      BY <3>1, <3>2
  <2>2. QED
    BY <2>1 DEF JobInv
<1>19. IInv'
  BY <1>13, <1>14, <1>15, <1>16, <1>17, <1>18 DEF IInv
<1>20. QED
  BY <1>1, <1>v, <1>3, <1>5, <1>6, <1>9, <1>11, <1>19 DEF base, new, says, v, QueryMakes

\* The steps a route looks up are near the times of its fills.
LEMMA StepsAreNear ==
  ASSUME IInv, NEW t \in Threads, thread[t].op = "folding", NEW i \in everFilled
  PROVE  /\ NearIn(Market, rows[i].at, StepAt(rows[i].at, thread[t].now))
         /\ StepAt(rows[i].at, thread[t].now) \in 0 .. step
<1>1. i \in 1 .. Len(rows)
  BY FiledNow DEF IInv
<1>2. rows[i] \in OrderRows /\ rows[i].at <= clock /\ MarketOK
  BY <1>1 DEF IInv, TypeInv, RowInv
<1>3. rows[i].at \in Nat
  BY <1>2 DEF OrderRows
<1>4. t \in Waiting /\ thread[t] \in Jobs
  BY DEF Waiting, IInv, TypeInv
<1>5. thread[t].now \in Nat
  BY <1>4 DEF Jobs
<1>6. booted <= thread[t].now /\ thread[t].now <= clock /\ clock - thread[t].now <= skew
  BY <1>4 DEF IInv, WaitInv
<1>7. NearIn(Market, rows[i].at, StepAt(rows[i].at, thread[t].now))
  BY <1>2, <1>3, <1>5, <1>6, StepAtIsNear
<1>8. step \in Nat /\ Market.step = step
  BY <1>2 DEF MarketOK, Market
<1>9. QED
  BY <1>7, <1>8 DEF NearIn

LEMMA FoldStep ==
  ASSUME IInv, NEW t \in Threads, Fold(t)
  PROVE  /\ IInv'
         /\ cache'[thread[t].view] # None
         /\ Walked(cache'[thread[t].view].walk) = thread[t].says
         /\ \A u \in Views \ {thread[t].view} : cache'[u] = cache[u]
<1> DEFINE job == thread[t]
           v == job.view
           base == JobBase(job, cache[v])
           given == [i \in job.new |-> StepAt(rows[i].at, job.now)]
           steps == [n \in Nat |-> IF n \in job.new THEN StepAt(rows[n].at, job.now) ELSE 0]
           entry == FoldEntries(KindOf(v), base, job.new, given)
<1>1. /\ TypeInv /\ RowInv /\ InsertInv /\ WaitInv /\ LockInv /\ CacheInv /\ JobInv
      /\ MarketOK /\ job.op = "folding"
  BY DEF IInv, TypeInv, Fold
<1>2. /\ thread' = [thread EXCEPT ![t] = Idle] /\ rows' = rows /\ visible' = visible
      /\ cache' = [cache EXCEPT ![v] = entry]
      /\ UNCHANGED time /\ everFilled' = everFilled /\ erased' = erased /\ late' = late
      /\ Gone' = Gone
  BY DEF Fold, JobBase, orders, Gone
<1>3. /\ job.resumed => cache[v] # None
      /\ Queried(rows, everFilled, Gone, v, base, job)
  BY <1>1 DEF JobInv
<1>4. v \in Views /\ job.new \subseteq Nat /\ base \in Entries
  BY <1>1, <1>3, JobBaseType
<1>5. Filed(rows, everFilled) /\ job.new \subseteq everFilled
  BY <1>1, <1>3, FiledNow DEF Queried
<1>6. PICK C : Counts(rows, everFilled, Gone, Market, v, base, C)
  <2>1. CASE job.resumed
    BY <1>1, <1>3, <1>4, <2>1 DEF CacheInv, JobBase
  <2>2. CASE ~job.resumed
    BY <1>5, <2>2, CountsNothing DEF JobBase
  <2>3. QED
    BY <2>1, <2>2
<1>7. Recorded(rows, job.new)
  BY <1>5, RecordedIn DEF Filed
<1>8. \A i \in job.new : /\ NearIn(Market, rows[i].at, StepAt(rows[i].at, job.now))
                         /\ StepAt(rows[i].at, job.now) \in 0 .. step
  BY <1>1, <1>5, StepsAreNear
<1>9. /\ steps \in Steps /\ StepsOf(given, steps, job.new)
      /\ NearFills(Market, rows, steps, job.new)
  <2>1. step \in Nat
    BY <1>1 DEF MarketOK
  <2>2. \A i \in job.new : i \in Nat
    BY <1>4
  <2> HIDE DEF job
  <2>3. \A i \in job.new : given[i] = StepAt(rows[i].at, job.now) /\ steps[i] = given[i]
    BY <2>2
  <2>4. steps \in Steps
    BY <1>8, <2>1 DEF Steps
  <2> HIDE DEF given, steps
  <2>5. QED
    BY <1>8, <2>1, <2>3, <2>4 DEF StepsOf, NearFills
<1> HIDE DEF given, steps
<1>10. entry = Folding(KindOf(v), rows, steps, base, job.new)
  BY <1>1, <1>4, <1>7, <1>9, FoldEntriesIsFolding
<1> HIDE DEF job, v, base, entry
<1>11. /\ entry \in Entries /\ Walked(entry.walk) = job.says
       /\ Counts(rows, everFilled, Gone, Market, v, entry, C \cup job.new)
  <2>1. More(rows, everFilled, Gone, Market, v, C, job,
             Folding(KindOf(v), rows, steps, base, job.new))
    BY <1>3, <1>4, <1>5, <1>6, <1>9, CountsMore
  <2>2. QED
    BY <1>10, <2>1 DEF More
<1>12. /\ cache' \in [Views -> Entries \cup {None}] /\ cache'[v] = entry
       /\ \A u \in Views \ {v} : cache'[u] = cache[u]
  BY <1>1, <1>2, <1>4, <1>11 DEF TypeInv
<1>13. /\ thread' \in [Threads -> Jobs] /\ thread'[t] = Idle /\ Idle.op = "idle"
       /\ \A u \in Threads \ {t} : thread'[u] = thread[u]
  BY <1>1, <1>2, IdleIs, ThreadTakes
<1>14. \A u \in Threads : thread'[u].op # "idle" => thread'[u] = thread[u]
  BY <1>13
<1>15. /\ MarketOK' /\ Market' = Market /\ clock' = clock /\ booted' = booted /\ skew' = skew
  BY <1>1, <1>2, TimeStays
<1>16. TypeInv' /\ RowInv'
  BY <1>1, <1>2, <1>12, <1>13, <1>15 DEF TypeInv, RowInv
<1>17. InsertInv'
  <2>1. Len(rows) \in Nat
    BY <1>1 DEF TypeInv
  <2>2. QED
    BY <1>1, <1>2, <1>14, <2>1, InsertersStay
<1>18. WaitInv'
  BY <1>1, <1>14, <1>15, WaitersStay
<1>19. LockInv'
  BY <1>1, <1>13 DEF LockInv
<1>20. CacheInv'
  <2>1. ASSUME NEW u \in Views, cache'[u] # None
        PROVE  \E D : Counts(rows', everFilled', Gone', Market', u, cache'[u], D)
    <3>1. CASE u = v
      BY <1>2, <1>11, <1>12, <1>15, <3>1
    <3>2. CASE u # v
      BY <1>1, <1>2, <1>12, <1>15, <2>1, <3>2 DEF CacheInv
    <3>3. QED
      BY <3>1, <3>2
  <2>2. QED
    BY <2>1 DEF CacheInv
<1>21. JobInv'
  <2>1. ASSUME NEW u \in Threads, thread'[u].op = "folding"
        PROVE  /\ thread'[u].resumed => cache'[thread'[u].view] # None
               /\ Queried(rows', everFilled', Gone', thread'[u].view,
                          JobBase(thread'[u], cache'[thread'[u].view]), thread'[u])
    <3>1. u # t /\ thread'[u] = thread[u] /\ thread[u].op = "folding"
      BY <1>13, <2>1
    <3>2. thread[u].view # v
      BY <1>1, <3>1 DEF LockInv, job, v
    <3>3. thread[u].view \in Views
      BY <1>1, <3>1 DEF TypeInv, Jobs
    <3>4. cache'[thread[u].view] = cache[thread[u].view]
      BY <1>12, <3>2, <3>3
    <3>5. QED
      BY <1>1, <1>2, <3>1, <3>4 DEF JobInv
  <2>2. QED
    BY <2>1 DEF JobInv
<1>22. IInv'
  BY <1>16, <1>17, <1>18, <1>19, <1>20, <1>21 DEF IInv
<1>23. entry # None
  BY <1>11, AccountingAssumption
<1>24. QED
  BY <1>11, <1>12, <1>22, <1>23 DEF job, v

\* While the market steps or time passes, what was near stays near.
LEMMA LaterStep ==
  ASSUME IInv, UNCHANGED <<orders, cache, thread>>, MarketOK', Later(Market, Market'),
         clock <= clock', WaitInv'
  PROVE  IInv'
<1>1. /\ TypeInv /\ RowInv /\ InsertInv /\ rows \in Seq(OrderRows)
      /\ clock \in Nat /\ clock' \in Nat
  BY DEF IInv, TypeInv, MarketOK
<1>2. /\ rows' = rows /\ visible' = visible /\ everFilled' = everFilled /\ erased' = erased
      /\ late' = late /\ cache' = cache /\ thread' = thread
  BY DEF orders
<1>3. TypeInv'
  BY <1>1, <1>2 DEF TypeInv
<1>4. RowInv'
  <2>1. ASSUME NEW i \in 1 .. Len(rows) PROVE rows[i].at <= clock'
    <3>1. rows[i] \in OrderRows /\ rows[i].at <= clock
      BY <1>1 DEF RowInv
    <3>2. rows[i].at \in Nat
      BY <3>1 DEF OrderRows
    <3>3. QED
      BY <1>1, <3>1, <3>2
  <2>2. QED
    BY <1>1, <1>2, <2>1 DEF RowInv
<1>5. InsertInv'
  BY <1>1, <1>2 DEF InsertInv, Inserting
<1>6. ViewsStay
  <2>1. Market' \in Markets
    BY DEF MarketOK, Market, Markets
  <2>2. GrowsNow
    BY <1>1, <2>1, OrdersStay
  <2>3. QED
    BY <1>2, <2>2 DEF ViewsStay
<1>7. QED
  BY <1>3, <1>4, <1>5, <1>6, StayStep

LEMMA TickStep ==
  ASSUME IInv, Tick
  PROVE  IInv'
<1>1. MarketOK /\ WaitInv /\ Second \in Nat
  BY AccountingAssumption DEF IInv, TypeInv
<1>2. /\ slept = Second /\ step' = step + 1 /\ slept' = 0 /\ clock' = clock
      /\ booted' = booted /\ skew' = skew /\ thread' = thread
      /\ UNCHANGED <<orders, cache, thread>>
  BY DEF Tick
<1>3. /\ step \in Nat /\ clock \in Nat /\ booted \in Nat /\ skew \in Nat /\ booted <= clock
      /\ Made(step) \in Nat /\ Made(0) = 0
  BY <1>1, MadeIs DEF MarketOK
<1>4. Made(step + 1) = IF step = 0 THEN 0 ELSE Made(step) + Second
  BY <1>3, MadeNext
<1>5. Made(step') + slept' <= clock' - booted'
  <2>1. CASE step = 0
    BY <1>2, <1>3, <1>4, <2>1
  <2>2. CASE step > 0
    BY <1>1, <1>2, <1>3, <1>4, <2>2 DEF MarketOK
  <2>3. QED
    BY <1>3, <2>1, <2>2
<1>6. Behind' <= skew'
  <2>1. clock - booted - Made(step) <= skew
    BY <1>1 DEF MarketOK, Behind
  <2>2. Made(step + 1) >= Made(step) /\ Made(step + 1) \in Nat
    BY <1>1, <1>3, <1>4
  <2>3. Behind' = clock - booted - Made(step + 1)
    BY <1>2 DEF Behind
  <2>4. QED
    BY <1>2, <1>3, <2>1, <2>2, <2>3
<1>7. \A s \in Symbols : History[s] # <<>> => step' < Len(History[s])
  BY <1>2 DEF Tick
<1>8. MarketOK'
  BY <1>1, <1>2, <1>3, <1>5, <1>6, <1>7 DEF MarketOK
<1>9. Later(Market, Market')
  BY <1>2, <1>3 DEF Later, Market
<1>10. WaitInv'
  BY <1>1, <1>2, WaitersStay
<1>11. QED
  BY <1>2, <1>3, <1>8, <1>9, <1>10, LaterStep

LEMMA BeatStep ==
  ASSUME IInv, Beat
  PROVE  IInv'
<1> DEFINE lags == {clock + 1 - thread[t].now : t \in Waiting}
           all == {skew, Behind + 1} \cup lags
<1>1. MarketOK /\ WaitInv /\ Second \in Nat
  BY AccountingAssumption DEF IInv, TypeInv
<1>2. /\ clock' = clock + 1 /\ step' = step /\ booted' = booted /\ thread' = thread
      /\ slept' = (IF slept < Second THEN slept + 1 ELSE slept) /\ skew' = Max(all)
      /\ UNCHANGED <<orders, cache, thread>>
  BY DEF Beat
<1>3. /\ step \in Nat /\ clock \in Nat /\ booted \in Nat /\ skew \in Nat /\ slept \in Nat
      /\ booted <= clock /\ slept <= Second /\ Made(step) \in Nat /\ Made(0) = 0
  BY <1>1, MadeIs DEF MarketOK
<1>4. /\ step > 0 => Made(step) + slept <= clock - booted
      /\ Behind = clock - booted - Made(step) /\ Behind <= skew
  BY <1>1 DEF MarketOK, Behind
<1>5. Behind \in Nat
  <2>1. CASE step = 0
    BY <1>3, <1>4, <2>1
  <2>2. CASE step > 0
    BY <1>3, <1>4, <2>2
  <2>3. QED
    BY <1>3, <2>1, <2>2
<1>6. ASSUME NEW t \in Waiting
      PROVE  /\ thread[t].now \in Nat /\ booted <= thread[t].now /\ thread[t].now <= clock
  <2>1. thread[t] \in Jobs /\ thread[t].op \in {"asking", "folding"}
    BY <1>6 DEF IInv, TypeInv, Waiting
  <2>2. thread[t].now \in Nat
    BY <2>1 DEF Jobs
  <2>3. QED
    BY <1>1, <2>2 DEF WaitInv
<1>7. all \subseteq 0 .. (skew + clock + 1)
  <2>1. lags \subseteq 0 .. (skew + clock + 1)
    <3>1. ASSUME NEW t \in Waiting PROVE clock + 1 - thread[t].now \in 0 .. (skew + clock + 1)
      BY <1>3, <1>6
    <3>2. QED
      BY <3>1
  <2>2. skew \in 0 .. (skew + clock + 1) /\ Behind + 1 \in 0 .. (skew + clock + 1)
    BY <1>3, <1>4, <1>5
  <2> HIDE DEF lags
  <2>3. QED
    BY <2>1, <2>2
<1> HIDE DEF all
<1>8. Max(all) \in all /\ \A y \in all : Max(all) >= y
  <2>1. skew \in all
    BY DEF all
  <2>2. 0 \in Int /\ skew + clock + 1 \in Int
    BY <1>3
  <2>3. IsFiniteSet(0 .. (skew + clock + 1))
    BY <2>2, FS_Interval
  <2>4. IsFiniteSet(all)
    BY <1>7, <2>3, FS_Subset
  <2>5. Numbers(all)
    BY <1>7 DEF Numbers
  <2>6. QED
    BY <2>1, <2>4, <2>5, MaxIsGreatest
<1>9. /\ skew' \in Nat /\ skew' >= skew /\ skew' >= Behind + 1
      /\ \A t \in Waiting : skew' >= clock + 1 - thread[t].now
  <2>1. skew' \in 0 .. (skew + clock + 1)
    BY <1>2, <1>7, <1>8
  <2>2. skew' \in Nat
    BY <1>3, <2>1
  <2>3. QED
    BY <1>2, <1>8, <2>2 DEF all
<1>10. Behind' = Behind + 1
  BY <1>2, <1>3, <1>4 DEF Behind, Made
<1>11. step' > 0 => Made(step') + slept' <= clock' - booted'
  BY <1>2, <1>3, <1>4
<1>12. MarketOK'
  <2>1. \A s \in Symbols : History[s] # <<>> => step' < Len(History[s])
    BY <1>1, <1>2 DEF MarketOK
  <2>2. clock' \in Nat /\ booted' <= clock' /\ slept' \in Nat /\ slept' <= Second
    BY <1>1, <1>2, <1>3
  <2>3. QED
    BY <1>2, <1>3, <1>9, <1>10, <1>11, <2>1, <2>2 DEF MarketOK
<1>13. Later(Market, Market') /\ clock <= clock'
  BY <1>2, <1>3, <1>9 DEF Later, Market
<1>14. WaitInv'
  <2>1. Waiting' = Waiting
    BY <1>2 DEF Waiting
  <2>2. ASSUME NEW t \in Waiting
        PROVE  /\ booted' <= thread'[t].now /\ thread'[t].now <= clock'
               /\ clock' - thread'[t].now <= skew'
    BY <1>2, <1>3, <1>6, <1>9
  <2>3. QED
    BY <2>1, <2>2 DEF WaitInv
<1>15. QED
  BY <1>2, <1>12, <1>13, <1>14, LaterStep

LEMMA RestartStep ==
  ASSUME IInv, Restart
  PROVE  IInv'
<1>1. /\ TypeInv /\ RowInv /\ InsertInv /\ MarketOK /\ Second \in Nat
  BY AccountingAssumption DEF IInv, TypeInv
<1>2. /\ cache' = [v \in Views |-> None] /\ thread' = [t \in Threads |-> Idle]
      /\ rows' = rows /\ visible' = visible /\ everFilled' = everFilled /\ erased' = erased
      /\ late' = late /\ clock' = clock /\ booted' = clock /\ step' = 0
      /\ slept' = Second /\ skew' = 0
  BY DEF Restart, orders
<1>3. \A t \in Threads : thread'[t] = Idle /\ thread'[t].op = "idle"
  BY <1>2, IdleIs
<1>4. MarketOK'
  <2>1. \A s \in Symbols : History[s] # <<>> => 0 < Len(History[s])
    <3>1. ASSUME NEW s \in Symbols, History[s] # <<>> PROVE 0 < Len(History[s])
      <4>1. History[s] \in Seq(Int)
        BY AccountingAssumption
      <4>2. QED
        BY <3>1, <4>1, EmptySeq
    <3>2. QED
      BY <3>1
  <2>2. Behind' = clock - clock - Made(0)
    BY <1>2 DEF Behind, Made
  <2>3. Behind' = 0
    BY <1>1, <2>2, MadeIs DEF MarketOK
  <2>4. QED
    BY <1>1, <1>2, <2>1, <2>3 DEF MarketOK
<1>5. TypeInv' /\ RowInv'
  BY <1>1, <1>2, <1>4, IdleIs DEF TypeInv, RowInv
<1>6. InsertInv' /\ WaitInv' /\ LockInv' /\ JobInv'
  BY <1>1, <1>2, <1>3 DEF InsertInv, Inserting, WaitInv, Waiting, LockInv, JobInv
<1>7. CacheInv'
  BY <1>2 DEF CacheInv
<1>8. QED
  BY <1>5, <1>6, <1>7 DEF IInv

LEMMA InvStep == IInv /\ [Next]_vars => IInv'
<1> SUFFICES ASSUME IInv, [Next]_vars PROVE IInv'
  OBVIOUS
<1>1. CASE UNCHANGED vars
  <2>1. /\ UNCHANGED time /\ cache' = cache /\ thread' = thread /\ rows' = rows
        /\ visible' = visible /\ everFilled' = everFilled /\ erased' = erased /\ late' = late
    BY <1>1 DEF vars, orders
  <2>2. MarketOK' /\ Market' = Market /\ clock' = clock /\ booted' = booted /\ skew' = skew
    BY <2>1, TimeStays DEF IInv, TypeInv
  <2>3. TypeInv' /\ RowInv' /\ LockInv'
    BY <2>1, <2>2 DEF IInv, TypeInv, RowInv, LockInv
  <2>4. InsertInv' /\ WaitInv'
    BY <2>1, <2>2 DEF IInv, InsertInv, WaitInv, Inserting, Waiting
  <2>5. CacheInv' /\ JobInv'
    BY <2>1, <2>2 DEF IInv, CacheInv, JobInv, Gone
  <2>6. QED
    BY <2>3, <2>4, <2>5 DEF IInv
<1>2. ASSUME NEW t \in Threads, NEW row \in NewRows, Insert(t, row) PROVE IInv'
  BY <1>2, InsertStep
<1>3. ASSUME NEW t \in Threads, Commit(t) \/ Rollback(t) \/ Query(t) \/ Fold(t) PROVE IInv'
  BY <1>3, CommitStep, RollbackStep, QueryStep, FoldStep
<1>4. ASSUME NEW t \in Threads, NEW v \in Views, Ask(t, v) PROVE IInv'
  BY <1>4, AskStep
<1>5. ASSUME NEW id \in visible, CancelOrder(id) PROVE IInv'
  BY <1>5, CancelStep
<1>6. CASE Tick \/ Beat \/ Restart
  BY <1>6, TickStep, BeatStep, RestartStep
<1>7. QED
  BY <1>1, <1>2, <1>3, <1>4, <1>5, <1>6 DEF Next

\* Every cached view is the walk of the fills it counts, and every route holds
\* the fills that its entry lacks: the invariant the theorems rest on.
LEMMA CountingInvariant == Spec => []IInv
BY InvInit, InvStep, PTL DEF Spec
-----------------------------------------------------------------------------
(* Theorems *)

LEMMA ConservedNow == IInv => ValueIsConserved
<1> SUFFICES ASSUME IInv, NEW v \in Views, cache[v] # None
    PROVE  ValueAtCost(cache[v].walk) = StartingCash + TotalRealized(cache[v].walk)
  BY DEF ValueIsConserved
<1> DEFINE w0 == EmptyWalk(StartingCash)
<1>1. PICK C : Counts(rows, everFilled, Gone, Market, v, cache[v], C)
  BY DEF IInv, CacheInv
<1>2. Recorded(rows, C)
  BY <1>1, FiledNow, RecordedIn DEF IInv, Counts, Filed
<1> DEFINE w == cache[v].walk
           c == Total(w.cost, Symbols)
           r == Total(w.realized, Symbols)
<1>3. WalkedOver(w0, C, w)
  BY <1>1, <1>2, EmptyTyped, WalkWorks DEF Counts
<1>4. w \in Walks /\ w.cash + c - r = StartingCash
  <2> HIDE DEF w
  <2>1. w \in Walks
    BY <1>3 DEF WalkedOver
  <2>2. w.cash + c - r = w0.cash + Total(w0.cost, Symbols) - Total(w0.realized, Symbols)
    BY <1>3 DEF WalkedOver
  <2>3. QED
    BY <2>1, <2>2, EmptyTyped
<1>5. ValueAtCost(w) = w.cash + c /\ TotalRealized(w) = r
  BY DEF ValueAtCost, TotalRealized, Total
<1> HIDE DEF w
<1>6. w.cash \in Int /\ c \in Int /\ r \in Int
  <2>1. w.cash \in Int /\ \A i \in Symbols : w.cost[i] \in Int
    BY <1>4 DEF Walks
  <2>2. c \in Int
    BY <2>1, AccountingAssumption, TotalType
  <2>3. r \in Int
    BY <1>4, RealizedType
  <2>4. QED
    BY <2>1, <2>2, <2>3
<1> HIDE DEF c, r
<1>7. w.cash + c = StartingCash + r
  <2>1. StartingCash \in Int
    BY AccountingAssumption
  <2>2. QED
    BY <1>4, <1>6, <2>1
<1>8. QED
  BY <1>5, <1>7 DEF w

\* Averaging, reducing and flipping neither make nor lose money: in every
\* cached view, cash and the positions at cost are the starting cash and what
\* was realized, whatever was resumed, cancelled or restarted (_apply_fill and
\* the caches of accounting.py).
THEOREM MoneyIsConserved == Spec => []ValueIsConserved
BY CountingInvariant, ConservedNow, PTL

LEMMA FreshNow == IInv => ListsAreFresh
<1> SUFFICES ASSUME IInv, erased = {}, late = {}, NEW v \in Views, cache[v] # None
    PROVE  LET ids == {i \in Filled(ScopeOf(v)) : i <= cache[v].walk.last} IN
             \E steps \in [ids -> 0 .. step] :
               /\ \A i \in ids : Near(rows[i].at, steps[i])
               /\ cache[v] = FoldEntries(KindOf(v), EmptyEntry, ids, steps)
  BY DEF ListsAreFresh
<1>1. PICK C : Counts(rows, everFilled, Gone, Market, v, cache[v], C)
  BY DEF IInv, CacheInv
<1>2. Filed(rows, everFilled) /\ MarketOK
  BY FiledNow DEF IInv, TypeInv
<1>3. C \subseteq everFilled /\ Recorded(rows, C)
  BY <1>1, <1>2, RecordedIn DEF Counts, Filed
<1>4. {i \in Filled(ScopeOf(v)) : i <= cache[v].walk.last} = C
  <2>1. Filled(ScopeOf(v)) = {i \in everFilled : InScope(ScopeOf(v), rows[i])}
    BY DEF Filled, IInv, RowInv
  <2>2. QED
    BY <1>1, <2>1 DEF Counts, Gone
<1>5. PICK all \in Steps :
        /\ \A i \in C : NearIn(Market, rows[i].at, all[i])
        /\ cache[v] = Folding(KindOf(v), rows, all, EmptyEntry, C)
  BY <1>1 DEF Counts
<1> DEFINE steps == [i \in C |-> all[i]]
<1>6. \A i \in C : all[i] \in 0 .. step /\ Near(rows[i].at, all[i])
  <2>1. step \in Nat /\ Market.booted = booted /\ Market.skew = skew /\ Market.step = step
    BY <1>2 DEF MarketOK, Market
  <2>2. ASSUME NEW i \in C PROVE all[i] \in 0 .. step /\ Near(rows[i].at, all[i])
    <3>1. NearIn(Market, rows[i].at, all[i])
      BY <1>5
    <3>2. QED
      BY <2>1, <3>1 DEF NearIn, Near
  <2>3. QED
    BY <2>2
<1>7. steps \in [C -> 0 .. step] /\ \A i \in C : Near(rows[i].at, steps[i])
  BY <1>6
<1>8. StepsOf(steps, all, C)
  <2>1. step \in Nat
    BY <1>2 DEF MarketOK
  <2>2. QED
    BY <1>6, <2>1 DEF StepsOf
<1> HIDE DEF steps
<1>9. cache[v] = FoldEntries(KindOf(v), EmptyEntry, C, steps)
  BY <1>2, <1>3, <1>5, <1>8, EmptyTyped, FoldEntriesIsFolding
<1>10. QED
  BY <1>4, <1>7, <1>9

\* As long as no partial fill was cancelled and no fill was overtaken, a list or
\* a curve that was resumed over many calls is, point by point, what one walk of
\* the table makes of it: each point is marked at one step of the market for all
\* its positions, which is the step of the fill's time but for the second that
\* the lookup cuts off and for how late the market and the routes ever were
\* (get_cached_equity_curve, price_lookup of build_market_price_lookup).
THEOREM ResumedListsAreFresh == Spec => []ListsAreFresh
BY CountingInvariant, FreshNow, PTL

-----------------------------------------------------------------------------
(* The views implement the ledger *)

\* What the view says while a route folds, and when none does.
LEMMA StatementIs ==
  ASSUME IInv, NEW v \in Views
  PROVE  /\ \A t \in Threads : thread[t].op = "folding" /\ thread[t].view = v
               => Statements[v] = thread[t].says
         /\ (\A t \in Threads : ~(thread[t].op = "folding" /\ thread[t].view = v))
               => Statements[v] = IF cache[v] = None THEN None ELSE Walked(cache[v].walk)
<1>1. thread \in [Threads -> Jobs]
  BY DEF IInv, TypeInv
<1>2. Statements[v] = IF Answering(v) # {} THEN (CHOOSE s \in Answering(v) : TRUE).says
                      ELSE IF cache[v] = None THEN None ELSE Walked(cache[v].walk)
  BY DEF Statements
<1>3. ASSUME NEW t \in Threads, thread[t].op = "folding", thread[t].view = v
      PROVE  Answering(v) = {thread[t]}
  <2>1. thread[t] \in Answering(v)
    BY <1>1, <1>3 DEF Answering, Range
  <2>2. ASSUME NEW s \in Answering(v) PROVE s = thread[t]
    <3>1. PICK u \in Threads : s = thread[u]
      BY <1>1 DEF Answering, Range
    <3>2. thread[u].op = "folding" /\ thread[u].view = v
      BY <3>1 DEF Answering
    <3>3. u = t
      BY <1>3, <3>2 DEF IInv, LockInv
    <3>4. QED
      BY <3>1, <3>3
  <2>3. QED
    BY <2>1, <2>2
<1>4. ASSUME \A t \in Threads : ~(thread[t].op = "folding" /\ thread[t].view = v)
      PROVE  Answering(v) = {}
  BY <1>1, <1>4 DEF Answering, Range
<1>5. ASSUME NEW t \in Threads, thread[t].op = "folding", thread[t].view = v
      PROVE  Statements[v] = thread[t].says
  <2>1. (CHOOSE s \in {thread[t]} : TRUE) = thread[t]
    OBVIOUS
  <2>2. Answering(v) = {thread[t]}
    BY <1>3, <1>5
  <2>3. QED
    BY <1>2, <2>1, <2>2
<1>6. QED
  BY <1>2, <1>4, <1>5
\* The two as one formula, so that it holds in the next state too.
StatementsAre ==
  \A v \in Views :
    /\ \A t \in Threads : thread[t].op = "folding" /\ thread[t].view = v
         => Statements[v] = thread[t].says
    /\ (\A t \in Threads : ~(thread[t].op = "folding" /\ thread[t].view = v))
         => Statements[v] = IF cache[v] = None THEN None ELSE Walked(cache[v].walk)

LEMMA StatementsNow == IInv => StatementsAre
BY StatementIs DEF StatementsAre

LEMMA StatementsNext == IInv' => StatementsAre'
BY StatementsNow, PTL

LEMMA StatementsFunction ==
  /\ Statements = [v \in Views |-> Statements[v]]
  /\ Statements' = [v \in Views |-> Statements'[v]]
BY DEF Statements

\* No route starts or ends a fold.
FoldersStay ==
  \A t \in Threads :
    \/ thread'[t] = thread[t]
    \/ thread'[t].op # "folding" /\ thread[t].op # "folding"

\* Nothing is said that was not said before, if no route starts, ends or stores.
LEMMA StatementsStay ==
  ASSUME IInv, IInv', cache' = cache,
         FoldersStay
  PROVE  Statements' = Statements
<1>1. ASSUME NEW v \in Views PROVE Statements'[v] = Statements[v]
  <2>1. CASE \E t \in Threads : thread[t].op = "folding" /\ thread[t].view = v
    <3>1. PICK t \in Threads : thread[t].op = "folding" /\ thread[t].view = v
      BY <2>1
    <3>2. thread'[t] = thread[t]
      BY <3>1 DEF FoldersStay
    <3>3. Statements[v] = thread[t].says
      BY <3>1, StatementsNow DEF StatementsAre
    <3>4. Statements'[v] = thread'[t].says
      BY <3>1, <3>2, StatementsNext DEF StatementsAre
    <3>5. QED
      BY <3>2, <3>3, <3>4
  <2>2. CASE \A t \in Threads : ~(thread[t].op = "folding" /\ thread[t].view = v)
    <3>1. \A t \in Threads : ~(thread'[t].op = "folding" /\ thread'[t].view = v)
      BY <2>2 DEF FoldersStay
    <3>2. Statements[v] = IF cache[v] = None THEN None ELSE Walked(cache[v].walk)
      BY <2>2, StatementsNow DEF StatementsAre
    <3>3. Statements'[v] = IF cache'[v] = None THEN None ELSE Walked(cache'[v].walk)
      BY <3>1, StatementsNext DEF StatementsAre
    <3>4. QED
      BY <3>2, <3>3
  <2>3. QED
    BY <2>1, <2>2
<1>2. QED
  BY <1>1, StatementsFunction

LEMMA AccountIs ==
  ASSUME NEW v, NEW ids
  PROVE  Promise!Account(v, ids)
           = Walked(Walk(EmptyWalk(StartingCash), rows,
                         {i \in ids : InScope(ScopeOf(v), rows[i])}))
BY DEF Promise!Account, Promise!Walk, Walk, Promise!EmptyWalk, EmptyWalk, Walked,
       Promise!InScope, InScope, Promise!ApplyFill, ApplyFill, Promise!Signed, Signed,
       Promise!Opens, Opens, Promise!Realized, Realized, Promise!NewCost, NewCost,
       Promise!CostOut, CostOut, Promise!Magnitude, Magnitude, Promise!MapThenFoldSet,
       MapThenFoldSet, Promise!Max, Max, Promise!Min, Min
\* The fills that were committed after one of a higher id are kept count of.
LateStep ==
  late' = late \cup {i \in everFilled' \ everFilled : \E j \in everFilled : j > i}

LEMMA LateStays ==
  ASSUME everFilled' = everFilled, late' = late
  PROVE  LateStep
<1>1. everFilled' \ everFilled = {}
  OBVIOUS
<1>2. QED
  BY <1>1 DEF LateStep

LEMMA CommitLate ==
  ASSUME IInv, NEW t \in Threads, Commit(t)
  PROVE  LateStep
<1> DEFINE id == thread[t].id
<1>1. /\ everFilled' = (IF IsFill(rows[id]) THEN everFilled \cup {id} ELSE everFilled)
      /\ late' = (IF IsFill(rows[id]) /\ \E j \in everFilled : j > id
                  THEN late \cup {id} ELSE late)
      /\ t \in Inserting
  BY DEF Commit, Inserting
<1>2. id \notin everFilled
  BY <1>1 DEF IInv, RowInv, InsertInv
<1> HIDE DEF id
<1>3. CASE IsFill(rows[id])
  <2>1. everFilled' \ everFilled = {id}
    BY <1>1, <1>2, <1>3
  <2>2. QED
    BY <1>1, <1>3, <2>1 DEF LateStep
<1>4. CASE ~IsFill(rows[id])
  BY <1>1, <1>4, LateStays
<1>5. QED
  BY <1>3, <1>4

\* A step that leaves the views alone records orders.
LEMMA Records ==
  ASSUME IInv, IInv', ViewsStay, FoldersStay, LateStep, erased \subseteq erased'
  PROVE  Promise!Record
<1>1. Statements' = Statements
  BY StatementsStay DEF ViewsStay
<1>2. everFilled \subseteq everFilled' /\ SameFills(rows, rows', everFilled)
  BY DEF ViewsStay, GrowsNow, Grows
<1>3. erased' \subseteq everFilled'
  BY DEF IInv, RowInv
<1>4. \A i \in everFilled : [rows'[i] EXCEPT !.status = ""] = [rows[i] EXCEPT !.status = ""]
  BY <1>2 DEF SameFills, SameFill
<1>5. OneWriter => late' = {}
  BY DEF IInv, InsertInv
<1>6. QED
  BY <1>1, <1>2, <1>3, <1>4, <1>5 DEF Promise!Record, LateStep

\* A query is the moment at which the account is asked for.
LEMMA Asks ==
  ASSUME IInv, NEW t \in Threads, Query(t)
  PROVE  \E v \in Views : Promise!Ask(v)
<1> DEFINE v == thread[t].view
           base == Base(v)
           new == NewFills(v)
           w0 == EmptyWalk(StartingCash)
<1>1. IInv' /\ QueryMakes(t, v)
  BY QueryStep
<1>2. /\ rows' = rows /\ everFilled' = everFilled /\ erased' = erased /\ late' = late
      /\ cache' = cache
  BY DEF Query, orders
<1>v. v \in Views
  BY <1>1 DEF QueryMakes
<1> HIDE DEF v
<1>3. PICK C : Counts(rows, everFilled, Gone, Market, v, base, C)
  BY <1>1 DEF QueryMakes
<1>4. /\ base \in Entries
      /\ new = {i \in everFilled \ erased : InScope(ScopeOf(v), rows[i]) /\ i > base.walk.last}
      /\ thread'[t].says = Walked(Walk(base.walk, rows, new))
  BY <1>1 DEF QueryMakes
<1>5. Filed(rows, everFilled)
  BY FiledNow DEF IInv
<1> HIDE DEF base, new
<1>6. C \subseteq everFilled /\ Recorded(rows, C) /\ Recorded(rows, new)
      /\ \A i \in everFilled : i \in Nat
  <2>1. C \subseteq everFilled /\ new \subseteq everFilled /\ Recorded(rows, everFilled)
    BY <1>3, <1>4, <1>5 DEF Counts, Filed
  <2>2. QED
    BY <2>1, RecordedIn DEF Recorded
<1>7. base.walk.last \in Nat
  BY <1>4 DEF Entries, Walks
<1>8. \A i \in C, j \in new : i < j
  <2>1. ASSUME NEW i \in C, NEW j \in new PROVE i < j
    <3>1. i <= base.walk.last /\ j > base.walk.last /\ i \in Nat /\ j \in Nat
      BY <1>3, <1>4, <1>6 DEF Counts
    <3>2. QED
      BY <1>7, <3>1
  <2>2. QED
    BY <2>1
<1>9. Walk(base.walk, rows, new) = Walk(w0, rows, C \cup new)
  <2>1. base.walk = Walk(w0, rows, C)
    BY <1>3 DEF Counts
  <2>2. Walk(w0, rows, C \cup new) = Walk(Walk(w0, rows, C), rows, new)
    BY <1>6, <1>8, EmptyTyped, WalkMore
  <2>3. QED
    BY <2>1, <2>2
<1> DEFINE uncounted == {i \in everFilled : InScope(ScopeOf(v), rows[i]) /\ i \notin C \cup new}
<1>10. uncounted \in SUBSET Gone
  <2>1. ASSUME NEW i \in everFilled \ Gone, InScope(ScopeOf(v), rows[i])
        PROVE  i \in C \cup new
    <3>1. i \in Nat
      BY <1>6
    <3>2. CASE i <= base.walk.last
      BY <1>3, <2>1, <3>2 DEF Counts
    <3>3. CASE i > base.walk.last
      BY <1>4, <2>1, <3>3 DEF Gone
    <3>4. QED
      BY <1>7, <3>1, <3>2, <3>3
  <2>2. QED
    BY <2>1
<1>11. {i \in everFilled \ uncounted : InScope(ScopeOf(v), rows[i])} = C \cup new
  BY <1>3, <1>4, <1>6 DEF Counts
<1>12. Promise!Account(v, everFilled \ uncounted) = Walked(Walk(w0, rows, C \cup new))
  <2> DEFINE ids == everFilled \ uncounted
  <2>1. {i \in ids : InScope(ScopeOf(v), rows[i])} = C \cup new
    BY <1>11
  <2> HIDE DEF ids
  <2>2. Promise!Account(v, ids) = Walked(Walk(w0, rows, {i \in ids : InScope(ScopeOf(v), rows[i])}))
    BY AccountIs
  <2>3. Promise!Account(v, ids) = Walked(Walk(w0, rows, C \cup new))
    BY <2>1, <2>2, Zenon
  <2>4. QED
    BY <2>3 DEF ids
<1>13. Statements'[v] = thread'[t].says
  BY <1>1, <1>v, StatementsNext DEF StatementsAre, QueryMakes
<1>14. Statements'[v] = Promise!Account(v, everFilled \ uncounted)
  <2> HIDE DEF uncounted, w0
  <2>1. QED
    BY <1>4, <1>9, <1>12, <1>13, Zenon
<1>15. ASSUME NEW u \in Views \ {v} PROVE Statements'[u] = Statements[u]
  <2>1. CASE \E r \in Threads : thread[r].op = "folding" /\ thread[r].view = u
    <3>1. PICK r \in Threads : thread[r].op = "folding" /\ thread[r].view = u
      BY <2>1
    <3>2. thread'[r] = thread[r]
      BY <1>1, <3>1 DEF QueryMakes
    <3>3. Statements[u] = thread[r].says
      BY <3>1, StatementsNow DEF StatementsAre
    <3>4. Statements'[u] = thread'[r].says
      BY <1>1, <3>1, <3>2, StatementsNext DEF StatementsAre
    <3>5. QED
      BY <3>2, <3>3, <3>4
  <2>2. CASE \A r \in Threads : ~(thread[r].op = "folding" /\ thread[r].view = u)
    <3>1. \A r \in Threads : ~(thread'[r].op = "folding" /\ thread'[r].view = u)
      BY <1>1, <2>2 DEF QueryMakes
    <3>2. Statements[u] = IF cache[u] = None THEN None ELSE Walked(cache[u].walk)
      BY <2>2, StatementsNow DEF StatementsAre
    <3>3. Statements'[u] = IF cache'[u] = None THEN None ELSE Walked(cache'[u].walk)
      BY <1>1, <3>1, StatementsNext DEF StatementsAre
    <3>4. QED
      BY <1>2, <3>2, <3>3
  <2>3. QED
    BY <2>1, <2>2
<1> HIDE DEF uncounted
<1>16. \E gone \in SUBSET (erased \cup late) :
         Statements'[v] = Promise!Account(v, everFilled \ gone)
  BY <1>10, <1>14 DEF Gone
<1>17. Promise!Ask(v)
  BY <1>2, <1>15, <1>16 DEF Promise!Ask
<1>18. QED
  BY <1>v, <1>17

\* What a route stores is what it was about to say.
LEMMA FoldSaysNothing ==
  ASSUME IInv, NEW t \in Threads, Fold(t)
  PROVE  UNCHANGED Promise!ledgerVars
<1> DEFINE v == thread[t].view
<1>1. /\ IInv' /\ cache'[v] # None /\ Walked(cache'[v].walk) = thread[t].says
      /\ \A u \in Views \ {v} : cache'[u] = cache[u]
  BY FoldStep
<1>2. /\ rows' = rows /\ everFilled' = everFilled /\ erased' = erased /\ late' = late
      /\ thread[t].op = "folding" /\ thread' = [thread EXCEPT ![t] = Idle]
  BY DEF Fold, orders
<1>3. /\ thread'[t].op = "idle" /\ \A u \in Threads \ {t} : thread'[u] = thread[u]
  BY <1>2 DEF IInv, TypeInv, Idle
<1>4. v \in Views
  BY <1>2 DEF IInv, TypeInv, Jobs
<1>5. Statements'[v] = Statements[v]
  <2>1. Statements[v] = thread[t].says
    BY <1>2, <1>4, StatementsNow DEF StatementsAre
  <2>2. \A u \in Threads : ~(thread'[u].op = "folding" /\ thread'[u].view = v)
    <3>1. ASSUME NEW u \in Threads, thread'[u].op = "folding", thread'[u].view = v PROVE FALSE
      <4>1. u # t /\ thread'[u] = thread[u]
        BY <1>3, <3>1
      <4>2. QED
        BY <1>2, <3>1, <4>1 DEF IInv, LockInv
    <3>2. QED
      BY <3>1
  <2>3. Statements'[v] = Walked(cache'[v].walk)
    BY <1>1, <1>4, <2>2, StatementsNext DEF StatementsAre
  <2>4. QED
    BY <1>1, <2>1, <2>3
<1>6. ASSUME NEW u \in Views \ {v} PROVE Statements'[u] = Statements[u]
  <2>1. CASE \E r \in Threads : thread[r].op = "folding" /\ thread[r].view = u
    <3>1. PICK r \in Threads : thread[r].op = "folding" /\ thread[r].view = u
      BY <2>1
    <3>2. thread'[r] = thread[r]
      BY <1>3, <1>6, <3>1
    <3>3. Statements[u] = thread[r].says
      BY <3>1, StatementsNow DEF StatementsAre
    <3>4. Statements'[u] = thread'[r].says
      BY <1>1, <3>1, <3>2, StatementsNext DEF StatementsAre
    <3>5. QED
      BY <3>2, <3>3, <3>4
  <2>2. CASE \A r \in Threads : ~(thread[r].op = "folding" /\ thread[r].view = u)
    <3>1. \A r \in Threads : ~(thread'[r].op = "folding" /\ thread'[r].view = u)
      BY <1>3, <2>2
    <3>2. Statements[u] = IF cache[u] = None THEN None ELSE Walked(cache[u].walk)
      BY <2>2, StatementsNow DEF StatementsAre
    <3>3. Statements'[u] = IF cache'[u] = None THEN None ELSE Walked(cache'[u].walk)
      BY <1>1, <3>1, StatementsNext DEF StatementsAre
    <3>4. QED
      BY <1>1, <3>2, <3>3
  <2>3. QED
    BY <2>1, <2>2
<1>7. Statements' = Statements
  BY <1>5, <1>6, StatementsFunction
<1>8. QED
  BY <1>2, <1>7 DEF Promise!ledgerVars

LEMMA InitRefines == Init => Promise!LedgerInit
<1> SUFFICES ASSUME Init PROVE Promise!LedgerInit
  OBVIOUS
<1>1. \A v \in Views : Statements[v] = None
  <2>1. IInv /\ \A t \in Threads : thread[t].op = "idle"
    BY InvInit DEF Init, Idle
  <2>2. \A v \in Views : cache[v] = None
    BY DEF Init
  <2>3. QED
    BY <2>1, <2>2, StatementsNow DEF StatementsAre
<1>2. Statements = [v \in Views |-> None]
  BY <1>1, StatementsFunction
<1>3. QED
  BY <1>2 DEF Init, Promise!LedgerInit

\* A thread that inserts before or after its step folds neither before nor after.
LEMMA OneThreadMoves ==
  ASSUME IInv, NEW t \in Threads, NEW job, job.op # "folding", thread[t].op # "folding",
         thread' = [thread EXCEPT ![t] = job]
  PROVE  FoldersStay
<1>1. DOMAIN thread = Threads
  BY DEF IInv, TypeInv
<1>2. thread'[t] = job
  BY <1>1
<1>3. \A r \in Threads \ {t} : thread'[r] = thread[r]
  BY <1>1
<1>4. QED
  BY <1>2, <1>3 DEF FoldersStay

LEMMA StepRefines == IInv /\ [Next]_vars => [Promise!LedgerNext]_(Promise!ledgerVars)
<1> SUFFICES ASSUME IInv, [Next]_vars
    PROVE  Promise!LedgerNext \/ UNCHANGED Promise!ledgerVars
  OBVIOUS
<1> USE DEF Promise!LedgerNext
<1>0. IInv'
  BY InvStep
<1>1. ASSUME UNCHANGED <<orders, cache>>, FoldersStay
      PROVE  UNCHANGED Promise!ledgerVars
  <2>1. Statements' = Statements
    BY <1>0, <1>1, StatementsStay
  <2>2. QED
    BY <1>1, <2>1 DEF orders, Promise!ledgerVars
<1>2. ASSUME NEW t \in Threads, NEW row \in NewRows, Insert(t, row) PROVE Promise!LedgerNext
  <2> DEFINE job == [op |-> "inserting", id |-> Len(rows) + 1]
  <2>1. ViewsStay
    BY <1>2, InsertStep
  <2>2. /\ thread' = [thread EXCEPT ![t] = job] /\ thread[t].op = "idle"
        /\ everFilled' = everFilled /\ late' = late /\ erased' = erased
    BY <1>2 DEF Insert
  <2>3. job.op # "folding"
    OBVIOUS
  <2> HIDE DEF job
  <2>4. FoldersStay
    BY <2>2, <2>3, OneThreadMoves
  <2>5. QED
    BY <1>0, <2>1, <2>2, <2>4, LateStays, Records
<1>3. ASSUME NEW t \in Threads, Commit(t) PROVE Promise!LedgerNext
  <2>1. ViewsStay /\ LateStep
    BY <1>3, CommitStep, CommitLate
  <2>2. thread' = [thread EXCEPT ![t] = Idle] /\ thread[t].op = "inserting" /\ erased' = erased
    BY <1>3 DEF Commit
  <2>3. FoldersStay
    BY <2>2, OneThreadMoves DEF Idle
  <2>4. QED
    BY <1>0, <2>1, <2>2, <2>3, Records
<1>4. ASSUME NEW t \in Threads, Rollback(t) PROVE UNCHANGED Promise!ledgerVars
  <2>1. /\ thread' = [thread EXCEPT ![t] = Idle] /\ thread[t].op = "inserting"
        /\ UNCHANGED <<orders, cache>>
    BY <1>4 DEF Rollback
  <2>2. FoldersStay
    BY <2>1, OneThreadMoves DEF Idle
  <2>3. QED
    BY <1>1, <2>1, <2>2
<1>5. ASSUME NEW t \in Threads, NEW v \in Views, Ask(t, v) PROVE UNCHANGED Promise!ledgerVars
  <2> DEFINE job == [op |-> "asking", view |-> v, now |-> clock]
  <2>1. /\ thread' = [thread EXCEPT ![t] = job] /\ thread[t].op = "idle"
        /\ UNCHANGED <<orders, cache>>
    BY <1>5 DEF Ask
  <2>2. job.op # "folding"
    OBVIOUS
  <2> HIDE DEF job
  <2>3. FoldersStay
    BY <2>1, <2>2, OneThreadMoves
  <2>4. QED
    BY <1>1, <2>1, <2>3
<1>6. ASSUME NEW t \in Threads, Query(t) PROVE Promise!LedgerNext
  BY <1>6, Asks
<1>7. ASSUME NEW t \in Threads, Fold(t) PROVE UNCHANGED Promise!ledgerVars
  BY <1>7, FoldSaysNothing
<1>8. ASSUME NEW id \in visible, CancelOrder(id) PROVE Promise!LedgerNext
  <2>1. ViewsStay
    BY <1>8, CancelStep
  <2>2. thread' = thread /\ everFilled' = everFilled /\ late' = late /\ erased \subseteq erased'
    BY <1>8 DEF CancelOrder
  <2>3. FoldersStay
    BY <2>2 DEF FoldersStay
  <2>4. QED
    BY <1>0, <2>1, <2>2, <2>3, LateStays, Records
<1>9. ASSUME Tick \/ Beat \/ UNCHANGED vars PROVE UNCHANGED Promise!ledgerVars
  <2>1. UNCHANGED <<orders, cache, thread>>
    BY <1>9 DEF Tick, Beat, vars
  <2>2. FoldersStay
    BY <2>1 DEF FoldersStay
  <2>3. QED
    BY <1>1, <2>1, <2>2
<1>10. CASE Restart
  <2>1. /\ UNCHANGED orders /\ \A v \in Views : cache'[v] = None
        /\ \A t \in Threads : thread'[t].op = "idle"
    BY <1>10 DEF Restart, Idle
  <2>2. \A v \in Views : Statements'[v] = None
    BY <1>0, <2>1, StatementsNext DEF StatementsAre
  <2>3. Statements' = [v \in Views |-> None]
    BY <2>2, StatementsFunction
  <2>4. Promise!Forget
    BY <2>1, <2>3 DEF Promise!Forget, orders
  <2>5. QED
    BY <2>4
<1>11. QED
  BY <1>2, <1>3, <1>4, <1>5, <1>6, <1>7, <1>8, <1>9, <1>10 DEF Next

\* The cached views of the account, behind their locks, resumed at a watermark,
\* forgotten by a restart and over a table that changes meanwhile, implement
\* the ledger: each statement counts every fill once, and misses at most fills
\* whose rows were cancelled since and, unless one session writes at a time,
\* fills committed after one of a higher id (get_cached_account_snapshot,
\* "incremental, not a shortcut around correctness").
THEOREM ViewsImplementTheLedger == Spec => ImplementsLedger
<1>1. Spec => Promise!LedgerInit /\ [][Promise!LedgerNext]_(Promise!ledgerVars)
  BY CountingInvariant, InitRefines, StepRefines, PTL DEF Spec
<1>2. QED
  BY <1>1 DEF ImplementsLedger, Promise!LedgerSpec
=============================================================================
