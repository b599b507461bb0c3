----------------------------- MODULE BookProofs -----------------------------
(* Theorems about Book, for every value of its constants.                  *)
EXTENDS Book, Sums, SequenceTheorems

-----------------------------------------------------------------------------
(* Live orders come and go one at a time *)

\* Removing an order leaves the others as they are.
LEMMA Removal ==
  ASSUME NEW id \in DOMAIN live, LiveOK, live' = Without(id)
  PROVE  /\ LiveOK'
         /\ DOMAIN live' = DOMAIN live \ {id}
         /\ \A i \in DOMAIN live' : live'[i] = live[i]
         /\ HasRoom'
<1>1. DOMAIN live' = DOMAIN live \ {id} /\ \A i \in DOMAIN live' : live'[i] = live[i]
  BY DEF Without, Restrict
<1>2. IsFiniteSet(DOMAIN live) /\ Cardinality(DOMAIN live) <= Capacity
  BY DEF LiveOK
<1>3. /\ IsFiniteSet(DOMAIN live \ {id})
      /\ Cardinality(DOMAIN live \ {id}) = Cardinality(DOMAIN live) - 1
      /\ Cardinality(DOMAIN live) \in Nat
  BY <1>2, FS_RemoveElement, FS_CardinalityType
<1>4. QED
  BY <1>1, <1>2, <1>3, BookAssumption DEF LiveOK, HasRoom

\* Adding an order leaves the others as they are.
LEMMA Addition ==
  ASSUME NEW id \in OrderIds \ DOMAIN live, NEW n \in Nodes, LiveOK, HasRoom,
         live' = With(id, n)
  PROVE  /\ LiveOK'
         /\ DOMAIN live' = DOMAIN live \cup {id}
         /\ \A i \in DOMAIN live : live'[i] = live[i]
         /\ live'[id] = n
<1>1. /\ DOMAIN live' = DOMAIN live \cup {id}
      /\ \A i \in DOMAIN live : live'[i] = live[i]
      /\ live'[id] = n
  BY DEF With
<1>2. IsFiniteSet(DOMAIN live) /\ Cardinality(DOMAIN live) < Capacity
  BY DEF LiveOK, HasRoom
<1>3. /\ IsFiniteSet(DOMAIN live \cup {id})
      /\ Cardinality(DOMAIN live \cup {id}) = Cardinality(DOMAIN live) + 1
      /\ Cardinality(DOMAIN live) \in Nat
  BY <1>2, FS_AddElement, FS_CardinalityType
<1>4. QED
  BY <1>1, <1>2, <1>3, BookAssumption DEF LiveOK

\* Dropping the innermost loop leaves a stack of the loops around it.
LEMMA FrontType ==
  ASSUME NEW S, NEW s \in Seq(S), s # <<>>
  PROVE  /\ Front(s) \in Seq(S)
         /\ Len(Front(s)) = Len(s) - 1
         /\ Len(s) = 1 <=> Front(s) = <<>>
<1>1. Len(s) \in Nat \ {0}
  BY EmptySeq, LenProperties
<1>2. Front(s) \in Seq(S) /\ Len(Front(s)) = IF 1 <= Len(s) - 1 THEN Len(s) - 1 - 1 + 1 ELSE 0
  <2>1. \A i \in 1 .. Len(s) - 1 : s[i] \in S
    BY <1>1, ElementOfSeq
  <2>2. 1 \in Int /\ Len(s) - 1 \in Int
    BY <1>1
  <2>3. QED
    BY ONLY <2>1, <2>2, SubSeqProperties DEF Front
<1>3. Len(Front(s)) = Len(s) - 1
  <2> DEFINE k == Len(s)
             f == Len(Front(s))
  <2>1. k \in Nat \ {0} /\ f = IF 1 <= k - 1 THEN k - 1 - 1 + 1 ELSE 0
    BY <1>1, <1>2
  <2> HIDE DEF k, f
  <2>2. f = k - 1
    BY <2>1
  <2>3. QED
    BY <2>2 DEF k, f
<1>4. Len(s) = 1 <=> Len(Front(s)) = 0
  BY <1>1, <1>3
<1>5. Len(Front(s)) = 0 <=> Front(s) = <<>>
  BY <1>2, EmptySeq
<1>6. QED
  BY <1>2, <1>3, <1>4, <1>5

LEMMA MinOfPair ==
  ASSUME NEW a \in Nat, NEW b \in Nat
  PROVE  Min({a, b}) \in {a, b} /\ Min({a, b}) <= a /\ Min({a, b}) <= b
  BY DEF Min

\* The edges of the band are prices, so a repriced market order has one.
LEMMA BandEdges == MinPx \in Prices /\ MaxPx \in Prices
  BY BookAssumption DEF Prices, ValidPx

\* An order that passed the checks becomes a task.
LEMMA TaskType ==
  ASSUME NEW id \in OrderIds, NEW o \in Orders, WellFormed(id, o)
  PROVE  Task(id, Effective(o)) \in Tasks /\ Task(id, Effective(o)).id = id
  BY BookAssumption, BandEdges
     DEF WellFormed, Effective, Task, Tasks, Prices, ValidPx, Sides, Types, TIFs

LEMMA AsLimitType ==
  ASSUME NEW m \in DOMAIN live, LiveOK
  PROVE  Task(m, AsLimit(m)) \in Tasks /\ Task(m, AsLimit(m)).id = m
  BY DEF LiveOK, AsLimit, Task, Tasks, Nodes

-----------------------------------------------------------------------------
(* Type correctness *)

LEMMA TypeInit == Init => TypeOK
<1> SUFFICES ASSUME Init PROVE TypeOK
  OBVIOUS
<1>1. IsFiniteSet({}) /\ Cardinality({}) = 0
  BY FS_EmptySet
<1>2. LiveOK
  BY <1>1, BookAssumption DEF Init, LiveOK
<1>3. MarketOK
  <2>1. arrSeq \in Nat /\ lastPx \in Int /\ positions \in [Owners -> Int]
    BY DEF Init
  <2>2. QED
    BY <2>1 DEF Init, MarketOK
<1>4. CallOK /\ ReplyOK /\ HistoryOK
  <2>1. <<>> \in Seq(0 .. MaxCascades) /\ <<>> \in Seq(FillRecords)
    BY EmptySeq
  <2>2. CallOK
    BY <2>1 DEF Init, CallOK
  <2>3. ReplyOK
    BY <2>1 DEF Init, ReplyOK
  <2>4. HistoryOK
    BY DEF Init, HistoryOK
  <2>5. QED
    BY <2>2, <2>3, <2>4
<1>5. QED
  BY <1>2, <1>3, <1>4 DEF TypeOK

\* The parts of TypeOK that a step which does not touch their variables keeps.
LEMMA LiveUnchanged == LiveOK /\ UNCHANGED live => LiveOK'
  BY DEF LiveOK

LEMMA MarketUnchanged ==
  MarketOK /\ UNCHANGED <<arrSeq, hasLast, lastPx, positions>> => MarketOK'
  BY DEF MarketOK

LEMMA MarketArrival ==
  MarketOK /\ arrSeq' = arrSeq + 1 /\ UNCHANGED <<hasLast, lastPx, positions>> => MarketOK'
<1> SUFFICES ASSUME MarketOK, arrSeq' = arrSeq + 1, UNCHANGED <<hasLast, lastPx, positions>>
             PROVE  MarketOK'
  OBVIOUS
<1>1. arrSeq' \in Nat
  BY DEF MarketOK
<1>2. QED
  BY <1>1 DEF MarketOK

\* While no call runs, live orders may come and go.
LEMMA IdleUnchanged ==
  ASSUME CallOK, phase = "idle", UNCHANGED <<phase, cur, stack>>
  PROVE  CallOK'
  BY DEF CallOK

LEMMA HistoryUnchanged ==
  ASSUME HistoryOK, UNCHANGED <<capped, reached>>,
         \A i \in reached : i \in DOMAIN live' /\ live'[i] = live[i]
  PROVE  HistoryOK'
  BY DEF HistoryOK

\* A step preserves the types.
LEMMA TypeStep == TypeOK /\ [Next]_vars => TypeOK'
<1> DEFINE G == LiveOK' /\ MarketOK' /\ CallOK' /\ ReplyOK' /\ HistoryOK'
<1> SUFFICES ASSUME LiveOK, MarketOK, CallOK, ReplyOK, HistoryOK, [Next]_vars
             PROVE  G
  BY DEF TypeOK
<1> USE BookAssumption DEF book, history
<1> HIDE DEF G
<1>1. ASSUME NEW id \in OrderIds, NEW o \in Orders, RejectSubmit(id, o) PROVE G
  BY <1>1 DEF RejectSubmit, LiveOK, MarketOK, CallOK, ReplyOK, HistoryOK, G
<1>2. ASSUME NEW id \in OrderIds, NEW o \in Orders, Park(id, o) PROVE G
  <2>1. Node(o, o.stop, o.qty, TRUE) \in Nodes
    BY <1>2 DEF Park, WellFormed, Parks, Node, Nodes, Prices, ValidPx, MarketOK, Types, Sides, TIFs
  <2>2. /\ id \in OrderIds \ DOMAIN live /\ HasRoom
        /\ live' = With(id, Node(o, o.stop, o.qty, TRUE))
    BY <1>2 DEF Park, WellFormed
  <2>3. /\ LiveOK' /\ DOMAIN live \subseteq DOMAIN live'
        /\ \A i \in DOMAIN live : live'[i] = live[i]
    BY <2>1, <2>2, Addition
  <2>4. MarketOK' /\ CallOK'
    BY <1>2, MarketArrival, IdleUnchanged DEF Park
  <2>5. ReplyOK'
    BY <1>2 DEF Park, ReplyOK
  <2>6. HistoryOK'
    BY <1>2, <2>3, HistoryUnchanged DEF Park, HistoryOK
  <2>7. QED
    BY <2>3, <2>4, <2>5, <2>6 DEF G
<1>3. ASSUME NEW id \in OrderIds, NEW o \in Orders, ParkFull(id, o) PROVE G
  BY <1>3 DEF ParkFull, LiveOK, MarketOK, CallOK, ReplyOK, HistoryOK, G
<1>4. ASSUME NEW id \in OrderIds, NEW o \in Orders, Take(id, o) PROVE G
  <2>1. LiveOK' /\ MarketOK'
    BY <1>4, LiveUnchanged, MarketUnchanged DEF Take
  <2>2. CallOK'
    BY <1>4, TaskType DEF Take, CallOK, WellFormed
  <2>3. ReplyOK'
    BY <1>4 DEF Take, ReplyOK
  <2>4. HistoryOK'
    BY <1>4, HistoryUnchanged DEF Take, HistoryOK
  <2>5. QED
    BY <2>1, <2>2, <2>3, <2>4 DEF G
<1>5. ASSUME NEW id \in OrderIds, Cancel(id) PROVE G
  <2>1. LiveOK' /\ \A i \in DOMAIN live \ {id} : i \in DOMAIN live' /\ live'[i] = live[i]
    BY <1>5, Removal DEF Cancel
  <2>2. MarketOK' /\ CallOK'
    BY <1>5, MarketUnchanged, IdleUnchanged DEF Cancel
  <2>3. ReplyOK'
    BY <1>5 DEF Cancel, ReplyOK
  <2>4. HistoryOK'
    BY <1>5, <2>1 DEF Cancel, HistoryOK
  <2>5. QED
    BY <2>1, <2>2, <2>3, <2>4 DEF G
<1>6. ASSUME NEW id \in OrderIds, CancelUnknown(id) PROVE G
  BY <1>6 DEF CancelUnknown, LiveOK, MarketOK, CallOK, ReplyOK, HistoryOK, G
<1>7. ASSUME NEW m \in DOMAIN live, Fill(m) PROVE G
  <2> DEFINE n == live[m]
             q == Min({cur.rem, n.qty})
  <2>1. n \in Nodes /\ cur \in Tasks /\ cur.rem > 0 /\ cur.id \notin DOMAIN live
    BY <1>7 DEF Fill, CallOK, LiveOK
  <2>2. q \in Nat \ {0} /\ q <= cur.rem /\ q <= n.qty
    BY <2>1, MinOfPair DEF Nodes, Tasks
  <2>3. /\ LiveOK' /\ DOMAIN live' \subseteq DOMAIN live
        /\ \A i \in DOMAIN live : live[i].pending => i \in DOMAIN live' /\ live'[i] = live[i]
    <3>1. ~n.pending
      BY <1>7 DEF Fill, IsMaker, Reachable, Resting
    <3>2. CASE q = n.qty
      BY <1>7, <3>1, <3>2, Removal DEF Fill
    <3>3. CASE q # n.qty
      <4>1. live' = [live EXCEPT ![m] = [n EXCEPT !.qty = n.qty - q]]
        BY <1>7, <3>3 DEF Fill
      <4>2. [n EXCEPT !.qty = n.qty - q] \in Nodes
        BY <2>1, <2>2, <3>3 DEF Nodes
      <4>3. QED
        BY <3>1, <4>1, <4>2 DEF LiveOK
    <3>4. QED
      BY <3>2, <3>3
  <2>4. MarketOK'
    <3>1. positions' \in [Owners -> Int]
      <4> DEFINE taken == [positions EXCEPT ![cur.owner] = @ + Signed(cur.side, q)]
      <4>1. positions' = [taken EXCEPT ![n.owner] = @ - Signed(cur.side, q)]
        BY <1>7 DEF Fill, Moved
      <4>2. Signed(cur.side, q) \in Int /\ positions \in [Owners -> Int]
        BY <2>2 DEF Signed, MarketOK
      <4>3. taken \in [Owners -> Int]
        BY <2>1, <4>2 DEF Tasks
      <4>4. QED
        <5>1. n.owner \in Owners /\ taken[n.owner] \in Int
          BY <2>1, <4>3 DEF Nodes
        <5>2. taken[n.owner] - Signed(cur.side, q) \in Int
          BY <5>1, <4>2
        <5> HIDE DEF taken
        <5>3. QED
          BY <4>1, <4>3, <5>1, <5>2
    <3>2. arrSeq' \in Nat /\ lastPx' \in Int /\ lastPx' \in Prices
      BY <1>7, <2>1 DEF Fill, MarketOK, Nodes, Prices
    <3>3. QED
      BY <1>7, <3>1, <3>2 DEF Fill, MarketOK
  <2>5. CallOK'
    <3>1. cur' = [cur EXCEPT !.rem = cur.rem - q]
      BY <1>7 DEF Fill
    <3>2. cur' \in Tasks /\ cur'.id = cur.id
      BY <2>1, <2>2, <3>1 DEF Tasks
    <3>3. QED
      BY <1>7, <2>1, <2>3, <3>2 DEF Fill, CallOK
  <2>6. ReplyOK'
    <3> DEFINE f == [taker |-> cur.id, maker |-> m, px |-> n.px, qty |-> q,
                     side |-> cur.side, limit |-> cur.px]
    <3>1. f \in FillRecords
      BY <2>1, <2>2 DEF FillRecords, Nodes, Tasks, LiveOK
    <3>2. fills' = Append(fills, f)
      BY <1>7 DEF Fill
    <3>3. QED
      BY <1>7, <3>1, <3>2 DEF Fill, ReplyOK
  <2>7. HistoryOK'
    BY <1>7, <2>3 DEF Fill, HistoryOK
  <2>8. QED
    BY <2>3, <2>4, <2>5, <2>6, <2>7 DEF G
<1>8. ASSUME NEW m \in DOMAIN live, CancelOwn(m) PROVE G
  <2>1. /\ LiveOK' /\ DOMAIN live' \subseteq DOMAIN live
        /\ \A i \in DOMAIN live \ {m} : i \in DOMAIN live' /\ live'[i] = live[i]
    BY <1>8, Removal DEF CancelOwn
  <2>2. ~live[m].pending
    BY <1>8 DEF CancelOwn, IsMaker, Reachable, Resting
  <2>3. MarketOK'
    BY <1>8, MarketUnchanged DEF CancelOwn
  <2>4. CallOK' /\ ReplyOK'
    BY <1>8, <2>1 DEF CancelOwn, CallOK, ReplyOK
  <2>5. HistoryOK'
    BY <1>8, <2>1, <2>2 DEF CancelOwn, HistoryOK
  <2>6. QED
    BY <2>1, <2>3, <2>4, <2>5 DEF G
<1>9. ASSUME NEW m \in DOMAIN live, ReleaseNext(m), UNCHANGED capped PROVE
        /\ LiveOK' /\ HistoryOK'
        /\ stack' \in Seq(0 .. MaxCascades) /\ stack' # <<>>
        /\ released' \in Nat /\ m \in OrderIds /\ DOMAIN live' = DOMAIN live \ {m}
  <2>1. /\ LiveOK' /\ DOMAIN live' = DOMAIN live \ {m}
        /\ \A i \in DOMAIN live \ {m} : i \in DOMAIN live' /\ live'[i] = live[i]
    BY <1>9, Removal DEF ReleaseNext
  <2>2. HistoryOK'
    BY <1>9, <2>1 DEF ReleaseNext, HistoryOK
  <2>3. stack \in Seq(0 .. MaxCascades) /\ stack # <<>>
    BY <1>9 DEF ReleaseNext, CallOK
  <2>4. Cascade \in 0 .. MaxCascades - 1
    BY <1>9, <2>3 DEF ReleaseNext, Cascade
  <2>5. stack' \in Seq(0 .. MaxCascades) /\ stack' # <<>>
    BY <1>9, <2>3, <2>4 DEF ReleaseNext, NextCascade, Cascade
  <2>6. QED
    BY <1>9, <2>1, <2>2, <2>5 DEF ReleaseNext, ReplyOK, LiveOK
<1>10. ASSUME NEW m \in DOMAIN live, Release(m) PROVE G
  <2>1. MarketOK'
    BY <1>10, MarketUnchanged DEF Release
  <2>2. CallOK'
    BY <1>9, <1>10, AsLimitType, ZenonT(40) DEF Release, CallOK
  <2>3. ReplyOK'
    BY <1>9, <1>10 DEF Release, ReplyOK
  <2>4. QED
    BY <1>9, <1>10, <2>1, <2>2, <2>3 DEF Release, G
<1>11. ASSUME NEW m \in DOMAIN live, ReleaseRefused(m) PROVE G
  <2>1. MarketOK'
    BY <1>11, MarketUnchanged DEF ReleaseRefused
  <2>2. CallOK'
    BY <1>9, <1>11 DEF ReleaseRefused, ReleaseNext, CallOK
  <2>3. ReplyOK'
    BY <1>9, <1>11 DEF ReleaseRefused, ReplyOK
  <2>4. QED
    BY <1>9, <1>11, <2>1, <2>2, <2>3 DEF ReleaseRefused, G
<1>12. ASSUME EnterRunTriggers, CallOK PROVE CallOK'
  <2>1. stack' \in Seq(0 .. MaxCascades) /\ stack' # <<>>
    BY <1>12 DEF EnterRunTriggers, CallOK
  <2>2. QED
    BY <1>12, <2>1 DEF EnterRunTriggers, CallOK
<1>13. CASE Rest
  <2>1. cur \in Tasks /\ cur.id \notin DOMAIN live
    BY <1>13 DEF Rest, MatchDone, CallOK
  <2>2. Node(cur, cur.px, cur.rem, FALSE) \in Nodes
    BY <1>13, <2>1 DEF Rest, Node, Nodes, Tasks, MarketOK
  <2>3. /\ LiveOK' /\ DOMAIN live \subseteq DOMAIN live'
        /\ \A i \in DOMAIN live : live'[i] = live[i]
    <3>1. PICK id \in OrderIds \ DOMAIN live, n \in Nodes :
             id = cur.id /\ n = Node(cur, cur.px, cur.rem, FALSE)
      BY <2>1, <2>2 DEF Tasks
    <3>2. HasRoom /\ live' = With(id, n)
      BY <1>13, <3>1 DEF Rest
    <3>3. QED
      BY <3>2, Addition
  <2>4. MarketOK' /\ CallOK'
    BY <1>12, <1>13, MarketArrival DEF Rest
  <2>5. ReplyOK'
    BY <1>13 DEF Rest, ReplyOK
  <2>6. HistoryOK'
    BY <1>13, <2>3, HistoryUnchanged DEF Rest, HistoryOK
  <2>7. QED
    BY <2>3, <2>4, <2>5, <2>6 DEF G
<1>14. CASE Drop
  <2>1. LiveOK' /\ MarketOK' /\ CallOK'
    BY <1>12, <1>14, LiveUnchanged, MarketUnchanged DEF Drop
  <2>2. ReplyOK' /\ HistoryOK'
    BY <1>14 DEF Drop, ReplyOK, HistoryOK
  <2>3. QED
    BY <2>1, <2>2 DEF G
<1>15. CASE RestFull
  <2>1. LiveOK' /\ MarketOK'
    BY <1>15, LiveUnchanged, MarketUnchanged DEF RestFull
  <2>2. CallOK'
    BY <1>15 DEF RestFull, CallOK, Answer
  <2>3. ReplyOK'
    <3>1. CASE stack = <<>>
      <4>1. fills' \in Seq(FillRecords)
        BY <1>15, <3>1, EmptySeq DEF RestFull, Answer
      <4>2. QED
        BY <1>15, <3>1, <4>1 DEF RestFull, ReplyOK, Answer
    <3>2. CASE stack # <<>>
      BY <1>15, <3>2 DEF RestFull, ReplyOK
    <3>3. QED
      BY <3>1, <3>2
  <2>4. HistoryOK'
    BY <1>15 DEF RestFull, HistoryOK
  <2>5. QED
    BY <2>1, <2>2, <2>3, <2>4 DEF G
<1>16. CASE Return
  <2>1. LiveOK' /\ MarketOK'
    BY <1>16, LiveUnchanged, MarketUnchanged DEF Return
  <2>2. stack \in Seq(0 .. MaxCascades) /\ stack # <<>>
    BY <1>16 DEF Return, CallOK
  <2>3. /\ stack' \in Seq(0 .. MaxCascades)
        /\ Len(stack) = 1 <=> stack' = <<>>
    BY <1>16, <2>2, FrontType DEF Return
  <2>4. CallOK'
    BY <1>16, <2>3 DEF Return, CallOK, Answer
  <2>5. ReplyOK'
    <3>1. CASE Len(stack) = 1
      <4>1. fills' \in Seq(FillRecords)
        BY <1>16, <3>1, EmptySeq DEF Return, Answer
      <4>2. QED
        BY <1>16, <3>1, <4>1 DEF Return, ReplyOK, Answer
    <3>2. CASE Len(stack) # 1
      BY <1>16, <3>2 DEF Return, ReplyOK
    <3>3. QED
      BY <3>1, <3>2
  <2>6. HistoryOK'
    BY <1>16 DEF Return, HistoryOK
  <2>7. QED
    BY <2>1, <2>4, <2>5, <2>6 DEF G
<1>17. CASE UNCHANGED vars
  BY <1>17 DEF vars, LiveOK, MarketOK, CallOK, ReplyOK, HistoryOK, G
<1>18. CASE Call
  BY <1>18, <1>1, <1>2, <1>3, <1>4, <1>5, <1>6 DEF Call
<1>19. CASE Internal
  BY <1>19, <1>7, <1>8, <1>10, <1>11, <1>13, <1>14, <1>15, <1>16 DEF Internal
<1>20. QED
  BY <1>17, <1>18, <1>19 DEF Next

\* Every reachable book is well typed: live orders fit the arena and carry
\* valid prices and positive quantities, and the phase of a call agrees with
\* its order and its stack of runTriggers loops.
THEOREM TypeCorrect == Spec => []TypeOK
  BY TypeInit, TypeStep, PTL DEF Spec

-----------------------------------------------------------------------------
(* The book is never crossed *)

\* The visible orders after a step are among those before it, each at its price.
VisibleShrinks ==
  \A i \in DOMAIN live' : ~live'[i].pending =>
    /\ i \in DOMAIN live /\ ~live[i].pending
    /\ live'[i].side = live[i].side /\ live'[i].level = live[i].level

LEMMA ShrinkKeepsUncrossed == NotCrossed /\ VisibleShrinks => NotCrossed'
  BY DEF NotCrossed, VisibleShrinks, Resting

LEMMA RemovalShrinks ==
  ASSUME NEW id \in DOMAIN live, live' = Without(id)
  PROVE  VisibleShrinks
  BY DEF VisibleShrinks, Without, Restrict

LEMMA UnchangedShrinks == UNCHANGED live => VisibleShrinks
  BY DEF VisibleShrinks

LEMMA UncrossedStep == TypeOK /\ NotCrossed /\ [Next]_vars => NotCrossed'
<1> SUFFICES ASSUME TypeOK, NotCrossed, [Next]_vars PROVE NotCrossed'
  OBVIOUS
<1> USE DEF book, history
<1>1. ASSUME NEW id \in OrderIds, NEW o \in Orders,
             RejectSubmit(id, o) \/ ParkFull(id, o) \/ Take(id, o)
      PROVE  NotCrossed'
  BY <1>1, UnchangedShrinks, ShrinkKeepsUncrossed DEF RejectSubmit, ParkFull, Take
<1>2. ASSUME NEW id \in OrderIds, NEW o \in Orders, Park(id, o) PROVE NotCrossed'
  <2>1. VisibleShrinks
    BY <1>2 DEF Park, VisibleShrinks, With, Node
  <2>2. QED
    BY <2>1, ShrinkKeepsUncrossed
<1>3. ASSUME NEW id \in DOMAIN live,
             Cancel(id) \/ CancelOwn(id) \/ Release(id) \/ ReleaseRefused(id)
      PROVE  NotCrossed'
  BY <1>3, RemovalShrinks, ShrinkKeepsUncrossed
     DEF Cancel, CancelOwn, Release, ReleaseRefused, ReleaseNext
<1>4. ASSUME NEW m \in DOMAIN live, Fill(m) PROVE NotCrossed'
  <2>1. CASE live' = Without(m)
    BY <2>1, RemovalShrinks, ShrinkKeepsUncrossed
  <2>2. CASE live' # Without(m)
    <3>1. PICK q : live' = [live EXCEPT ![m] = [live[m] EXCEPT !.qty = q]]
      BY <1>4, <2>2 DEF Fill
    <3>2. live[m] \in Nodes
      BY DEF TypeOK, LiveOK
    <3>3. VisibleShrinks
      BY <3>1, <3>2 DEF VisibleShrinks, Nodes
    <3>4. QED
      BY <3>3, ShrinkKeepsUncrossed
  <2>3. QED
    BY <2>1, <2>2
<1>5. CASE Rest
  <2>1. cur \in Tasks /\ Reachable(cur.side, cur.px) = {}
    BY <1>5 DEF Rest, MatchDone, TypeOK, CallOK
  <2>2. /\ live' = With(cur.id, Node(cur, cur.px, cur.rem, FALSE))
        /\ cur.id \notin DOMAIN live
    BY <1>5 DEF Rest, MatchDone, TypeOK, CallOK
  <2>3. /\ \A i \in DOMAIN live : live'[i] = live[i]
        /\ live'[cur.id] = Node(cur, cur.px, cur.rem, FALSE)
        /\ DOMAIN live' = DOMAIN live \cup {cur.id}
    BY <2>2 DEF With
  <2>4. /\ live'[cur.id].side = cur.side /\ live'[cur.id].level = cur.px
        /\ cur.px \in Int /\ cur.side \in Sides
    BY <2>1, <2>3 DEF Node, Tasks, Prices
  <2>5. \A i \in Resting(Opposite(cur.side)) :
           /\ live[i].level \in Int
           /\ ~Crosses(cur.side, cur.px, live[i].level)
    BY <2>1 DEF Reachable, Resting, TypeOK, LiveOK, Nodes, Prices
  <2>6. SUFFICES ASSUME NEW b \in Resting("buy")', NEW s \in Resting("sell")'
                 PROVE  live'[b].level < live'[s].level
    BY DEF NotCrossed
  <2>7. /\ live'[b].side = "buy" /\ live'[s].side = "sell"
        /\ b # cur.id => b \in Resting("buy") /\ live'[b] = live[b]
        /\ s # cur.id => s \in Resting("sell") /\ live'[s] = live[s]
    BY <2>3 DEF Resting
  <2>8. CASE b = cur.id
    BY <2>4, <2>5, <2>7, <2>8 DEF Opposite, Crosses
  <2>9. CASE s = cur.id
    BY <2>4, <2>5, <2>7, <2>9 DEF Opposite, Crosses
  <2>10. CASE b # cur.id /\ s # cur.id
    BY <2>7, <2>10 DEF NotCrossed
  <2>11. QED
    BY <2>8, <2>9, <2>10
<1>6. CASE Drop \/ RestFull \/ Return \/ UNCHANGED vars
  BY <1>6, UnchangedShrinks, ShrinkKeepsUncrossed DEF Drop, RestFull, Return, vars
<1>7. ASSUME NEW id \in OrderIds, CancelUnknown(id) PROVE NotCrossed'
  BY <1>7, UnchangedShrinks, ShrinkKeepsUncrossed DEF CancelUnknown
<1>8. CASE Call
  BY <1>8, <1>1, <1>2, <1>3, <1>7 DEF Call, Cancel
<1>9. CASE Internal
  BY <1>9, <1>3, <1>4, <1>5, <1>6 DEF Internal
<1>10. QED
  BY <1>6, <1>8, <1>9 DEF Next

\* No bid is ever at or above an ask, in any state of any submit: matching
\* exhausts what the order crosses before its remainder rests.
THEOREM NeverCrossed == Spec => []NotCrossed
<1>1. Init => NotCrossed
  BY DEF Init, NotCrossed, Resting
<1>2. QED
  BY <1>1, TypeCorrect, UncrossedStep, PTL DEF Spec

-----------------------------------------------------------------------------
(* Refused submits and quiet stops *)

\* No parked stop of l is activated by a last price p.
QuietIn(l, has, p) ==
  \A i \in DOMAIN l : l[i].pending => ~(has /\ Triggered(l[i].side, l[i].level, p))

LEMMA QuietIsNone == LiveOK => (NoneTriggered <=> QuietIn(live, hasLast, lastPx))
  BY DEF LiveOK, Nodes, Sides, NoneTriggered, Activated, Parked, QuietIn

\* A refusal can only follow a computation that has not touched the book: once
\* an order has been filled against or cancelled there is a free slot, or
\* nothing left to rest.
EntryInv ==
  /\ phase # "idle" => result = "none"
  /\ phase = "match" /\ stack = <<>> =>
       /\ book = entry \/ cur.rem = 0 \/ HasRoom
       /\ ~capped => QuietIn(entry[1], entry[3], entry[4])

LEMMA EntryStep == TypeOK /\ EntryInv /\ StopsQuiet /\ [Next]_vars => EntryInv' /\ StopsQuiet'
<1> SUFFICES ASSUME TypeOK, EntryInv, StopsQuiet, [Next]_vars
             PROVE  EntryInv' /\ StopsQuiet'
  OBVIOUS
<1> USE DEF history
<1>1. phase = "idle" /\ ~capped => QuietIn(live, hasLast, lastPx)
  BY QuietIsNone DEF StopsQuiet, TypeOK
<1>2. LiveOK'
  BY TypeStep DEF TypeOK
<1>3. ASSUME phase' = "idle" /\ ~capped' => QuietIn(live', hasLast', lastPx') PROVE StopsQuiet'
  <2>1. NoneTriggered' <=> QuietIn(live', hasLast', lastPx')
    BY <1>2, QuietIsNone DEF LiveOK, Nodes, Sides, NoneTriggered, Activated, Parked, QuietIn
  <2>2. QED
    BY <1>3, <2>1 DEF StopsQuiet
<1>4. ASSUME NEW id \in OrderIds, NEW o \in Orders, RejectSubmit(id, o) \/ ParkFull(id, o)
      PROVE  EntryInv' /\ StopsQuiet'
  BY <1>1, <1>3, <1>4 DEF RejectSubmit, ParkFull, EntryInv, book
<1>5. ASSUME NEW id \in OrderIds, NEW o \in Orders, Park(id, o) PROVE EntryInv' /\ StopsQuiet'
  <2>1. QuietIn(live, hasLast, lastPx) => QuietIn(live', hasLast', lastPx')
    BY <1>5 DEF Park, Parks, With, Node, QuietIn
  <2>2. QED
    BY <1>1, <1>3, <1>5, <2>1 DEF Park, EntryInv
<1>6. ASSUME NEW id \in OrderIds, NEW o \in Orders, Take(id, o) PROVE EntryInv' /\ StopsQuiet'
  BY <1>1, <1>3, <1>6 DEF Take, EntryInv, book, TypeOK, CallOK
<1>7. ASSUME NEW id \in OrderIds, Cancel(id) PROVE EntryInv' /\ StopsQuiet'
  <2>1. QuietIn(live, hasLast, lastPx) => QuietIn(live', hasLast', lastPx')
    BY <1>7 DEF Cancel, Without, Restrict, QuietIn
  <2>2. QED
    BY <1>1, <1>3, <1>7, <2>1 DEF Cancel, EntryInv
<1>8. ASSUME NEW id \in OrderIds, CancelUnknown(id) PROVE EntryInv' /\ StopsQuiet'
  BY <1>1, <1>3, <1>8 DEF CancelUnknown, EntryInv, book
<1>9. ASSUME NEW m \in DOMAIN live, Fill(m) PROVE EntryInv' /\ StopsQuiet'
  <2> DEFINE q == Min({cur.rem, live[m].qty})
  <2>1. cur \in Tasks /\ live[m] \in Nodes
    BY <1>9 DEF Fill, TypeOK, CallOK, LiveOK
  <2>2. q \in {cur.rem, live[m].qty}
    BY <2>1, MinOfPair DEF Nodes, Tasks
  <2>3. CASE q = live[m].qty
    <3>1. HasRoom'
      BY <1>9, <2>3, Removal DEF Fill, TypeOK
    <3>2. QED
      BY <1>3, <1>9, <3>1 DEF Fill, EntryInv
  <2>4. CASE q = cur.rem
    <3>1. cur'.rem = 0
      BY <1>9, <2>1, <2>4 DEF Fill, Tasks
    <3>2. QED
      BY <1>3, <1>9, <3>1 DEF Fill, EntryInv
  <2>5. QED
    BY <2>2, <2>3, <2>4
<1>10. ASSUME NEW m \in DOMAIN live, CancelOwn(m) PROVE EntryInv' /\ StopsQuiet'
  <2>1. HasRoom'
    BY <1>10, Removal DEF CancelOwn, TypeOK
  <2>2. QED
    BY <1>3, <1>10, <2>1 DEF CancelOwn, EntryInv
<1>11. ASSUME NEW m \in DOMAIN live, Release(m) \/ ReleaseRefused(m)
       PROVE  EntryInv' /\ StopsQuiet'
  <2>1. stack \in Seq(0 .. MaxCascades) /\ stack # <<>> /\ stack' # <<>>
    BY <1>11 DEF Release, ReleaseRefused, ReleaseNext, NextCascade, TypeOK, CallOK
  <2>2. QED
    BY <1>3, <1>11, <2>1 DEF Release, ReleaseRefused, ReleaseNext, EntryInv
<1>12. CASE Rest \/ Drop
  BY <1>3, <1>12 DEF Rest, Drop, EnterRunTriggers, MatchDone, EntryInv
<1>13. CASE RestFull
  <2>1. CASE stack = <<>>
    <3>1. book = entry
      BY <1>13, <2>1 DEF RestFull, MatchDone, EntryInv, TypeOK, CallOK, Tasks
    <3>2. ~capped => QuietIn(live, hasLast, lastPx)
      BY <1>13, <2>1, <3>1 DEF RestFull, MatchDone, EntryInv, book
    <3>3. QED
      BY <1>3, <1>13, <2>1, <3>2 DEF RestFull, Answer, EntryInv, book
  <2>2. CASE stack # <<>>
    BY <1>3, <1>13, <2>2 DEF RestFull, MatchDone, EntryInv
  <2>3. QED
    BY <2>1, <2>2
<1>14. CASE Return
  <2>1. ~capped' => QuietIn(live', hasLast', lastPx')
    BY <1>14, QuietIsNone DEF Return, TypeOK, book
  <2>2. QED
    BY <1>3, <1>14, <2>1 DEF Return, Answer, EntryInv
<1>15. CASE UNCHANGED vars
  BY <1>1, <1>3, <1>15 DEF vars, EntryInv, book, HasRoom
<1>16. CASE Call
  BY <1>16, <1>4, <1>5, <1>6, <1>7, <1>8 DEF Call
<1>17. CASE Internal
  BY <1>17, <1>9, <1>10, <1>11, <1>12, <1>13, <1>14 DEF Internal
<1>18. QED
  BY <1>15, <1>16, <1>17 DEF Next

LEMMA EntryInit == Init => EntryInv /\ StopsQuiet
  BY DEF Init, EntryInv, StopsQuiet, NoneTriggered, Activated, Parked

\* Between calls no stop waits behind the market, unless a cascade was cut off.
THEOREM StopsNeverStranded == Spec => []StopsQuiet
  BY EntryInit, EntryStep, TypeCorrect, PTL DEF Spec

LEMMA RejectStep ==
  TypeOK /\ EntryInv /\ [Next]_vars =>
    (phase' = "idle" /\ result' # "none"
       => book' = IF phase = "idle" THEN book ELSE entry)
<1> SUFFICES ASSUME TypeOK, EntryInv, [Next]_vars, phase' = "idle", result' # "none"
             PROVE  book' = IF phase = "idle" THEN book ELSE entry
  OBVIOUS
<1>1. ASSUME NEW id \in OrderIds, NEW o \in Orders,
             RejectSubmit(id, o) \/ Park(id, o) \/ ParkFull(id, o) \/ Take(id, o)
      PROVE  phase = "idle" /\ book' = book
  BY <1>1 DEF RejectSubmit, Park, ParkFull, Take, book
<1>2. ASSUME NEW id \in OrderIds, Cancel(id) \/ CancelUnknown(id)
      PROVE  phase = "idle" /\ book' = book
  BY <1>2 DEF Cancel, CancelUnknown, book
<1>3. ASSUME NEW m \in DOMAIN live, Fill(m) \/ CancelOwn(m) \/ Release(m) \/ ReleaseRefused(m)
      PROVE  FALSE
  BY <1>3 DEF Fill, CancelOwn, Release, ReleaseRefused, ReleaseNext
<1>4. CASE RestFull
  <2>1. stack = <<>> /\ phase = "match" /\ book' = book
    BY <1>4 DEF RestFull, MatchDone, book
  <2>2. book = entry
    BY <1>4, <2>1 DEF RestFull, EntryInv, TypeOK, CallOK, Tasks
  <2>3. QED
    BY <2>1, <2>2
<1>5. CASE Rest \/ Drop \/ Return
  BY <1>5 DEF Rest, Drop, EnterRunTriggers, Return, Answer, EntryInv
<1>6. CASE UNCHANGED vars
  BY <1>6 DEF vars, EntryInv, book
<1>7. CASE Call
  BY <1>7, <1>1, <1>2 DEF Call
<1>8. CASE Internal
  BY <1>8, <1>3, <1>4, <1>5 DEF Internal
<1>9. QED
  BY <1>6, <1>7, <1>8 DEF Next

\* A refused submit leaves the book exactly as it found it.
THEOREM RejectsAreNoOps == Spec => RejectIsNoOp
  BY EntryInit, EntryStep, RejectStep, TypeCorrect, PTL DEF Spec, RejectIsNoOp

-----------------------------------------------------------------------------
(* The position limit *)

\* A fill moves as much into the taker's position as it takes off the order.
LEMMA LimitStep ==
  TypeOK /\ TakerWithinLimit /\ [Next]_vars => TakerWithinLimit'
<1> SUFFICES ASSUME TypeOK, TakerWithinLimit, [Next]_vars, phase' = "match", PositionLimit > 0
             PROVE  Abs(positions'[cur'.owner] + Signed(cur'.side, cur'.rem)) <= PositionLimit
  BY DEF TakerWithinLimit
<1> USE DEF book, history
<1>1. ASSUME NEW id \in OrderIds, NEW o \in Orders, Take(id, o)
      PROVE  Abs(positions'[cur'.owner] + Signed(cur'.side, cur'.rem)) <= PositionLimit
  <2>1. WithinPositionLimit(Effective(o))
    BY <1>1 DEF Take, Admissible
  <2>2. positions' = positions /\ cur' = Task(id, Effective(o))
    BY <1>1 DEF Take
  <2>3. QED
    BY <2>1, <2>2 DEF WithinPositionLimit, Task
<1>2. ASSUME NEW m \in DOMAIN live, Release(m)
      PROVE  Abs(positions'[cur'.owner] + Signed(cur'.side, cur'.rem)) <= PositionLimit
  <2>1. WithinPositionLimit(AsLimit(m))
    BY <1>2 DEF Release, Admissible
  <2>2. positions' = positions /\ cur' = Task(m, AsLimit(m))
    BY <1>2 DEF Release
  <2>3. QED
    BY <2>1, <2>2 DEF WithinPositionLimit, Task
<1>3. ASSUME NEW m \in DOMAIN live, Fill(m)
      PROVE  Abs(positions'[cur'.owner] + Signed(cur'.side, cur'.rem)) <= PositionLimit
  <2> DEFINE n == live[m]
             q == Min({cur.rem, n.qty})
             moved == [positions EXCEPT ![cur.owner] = @ + Signed(cur.side, q)]
  <2>1. /\ n \in Nodes /\ cur \in Tasks /\ n.owner # cur.owner
        /\ positions \in [Owners -> Int]
    BY <1>3 DEF Fill, TypeOK, CallOK, LiveOK, MarketOK
  <2>2. q \in Nat
    BY <2>1, MinOfPair DEF Nodes, Tasks
  <2>3. positions' = [moved EXCEPT ![n.owner] = @ - Signed(cur.side, q)]
    BY <1>3 DEF Fill, Moved
  <2>4. positions'[cur.owner] = moved[cur.owner]
    <3>1. DOMAIN moved = Owners /\ cur.owner \in Owners
      BY <2>1 DEF Tasks
    <3> HIDE DEF moved, q
    <3>2. QED
      BY <2>1, <2>3, <3>1
  <2>5. moved[cur.owner] = positions[cur.owner] + Signed(cur.side, q)
    BY <2>1 DEF Tasks
  <2>6. cur' = [cur EXCEPT !.rem = cur.rem - q] /\ phase = "match"
    BY <1>3 DEF Fill
  <2>7. cur'.owner = cur.owner /\ cur'.side = cur.side /\ cur'.rem = cur.rem - q
    BY <2>1, <2>6 DEF Tasks
  <2>8. Signed(cur.side, q) + Signed(cur.side, cur.rem - q) = Signed(cur.side, cur.rem)
    BY <2>1, <2>2 DEF Signed, Tasks
  <2>9. /\ positions[cur.owner] \in Int /\ Signed(cur.side, q) \in Int
        /\ Signed(cur.side, cur.rem - q) \in Int
    BY <2>1, <2>2 DEF Signed, Tasks
  <2>10. positions'[cur'.owner] + Signed(cur'.side, cur'.rem)
           = positions[cur.owner] + Signed(cur.side, cur.rem)
    <3> HIDE DEF moved, q
    <3>1. positions'[cur'.owner] = positions[cur.owner] + Signed(cur.side, q)
      BY <2>4, <2>5, <2>7
    <3>2. Signed(cur'.side, cur'.rem) = Signed(cur.side, cur.rem - q)
      BY <2>7
    <3>3. QED
      BY <2>8, <2>9, <3>1, <3>2
  <2>11. QED
    BY <2>6, <2>10 DEF TakerWithinLimit
<1>4. ASSUME NEW m \in DOMAIN live, CancelOwn(m)
      PROVE  Abs(positions'[cur'.owner] + Signed(cur'.side, cur'.rem)) <= PositionLimit
  BY <1>4 DEF CancelOwn, TakerWithinLimit
<1>5. ASSUME NEW m \in DOMAIN live, ReleaseRefused(m) PROVE FALSE
  BY <1>5 DEF ReleaseRefused, ReleaseNext
<1>6. CASE Rest \/ Drop \/ RestFull \/ Return
  BY <1>6 DEF Rest, Drop, EnterRunTriggers, RestFull, Return, Answer
<1>7. CASE UNCHANGED vars
  BY <1>7 DEF vars, TakerWithinLimit
<1>8. CASE Call
  BY <1>8, <1>1 DEF Call, RejectSubmit, Park, ParkFull, Cancel, CancelUnknown
<1>9. CASE Internal
  BY <1>9, <1>2, <1>3, <1>4, <1>5, <1>6 DEF Internal
<1>10. QED
  BY <1>7, <1>8, <1>9 DEF Next

\* The fills of the order being matched, a stop released in a cascade included,
\* cannot take its owner past the position limit, however it is filled.
THEOREM TakersStayWithinLimit == Spec => []TakerWithinLimit
<1>1. Init => TakerWithinLimit
  BY DEF Init, TakerWithinLimit
<1>2. QED
  BY <1>1, LimitStep, TypeCorrect, PTL DEF Spec
-----------------------------------------------------------------------------
(* Fills walk the book *)

\* FillsWalkTheBook speaks of the fills made.  What makes the next fill obey it
\* is the book that is left: whatever the taker can still reach lies at or
\* beyond every price it has traded at.  A parked stop has traded at none, so a
\* stop released in a cascade starts a walk of its own.
WalkInv ==
  /\ FillsWalkTheBook
  /\ phase = "idle" => fills = <<>>
  /\ \A i \in DOMAIN live :
       IF live[i].pending THEN \A j \in DOMAIN fills : fills[j].taker # i
                          ELSE live[i].px = live[i].level
  /\ phase = "match" =>
       \A j \in DOMAIN fills : fills[j].taker = cur.id =>
         /\ fills[j].side = cur.side
         /\ \A m \in Reachable(cur.side, cur.px) :
              Crosses(cur.side, live[m].level, fills[j].px)

\* The orders after a step are among those before it, each in its place.
OrdersStay ==
  \A i \in DOMAIN live' :
    /\ i \in DOMAIN live
    /\ live'[i].pending = live[i].pending /\ live'[i].side = live[i].side
    /\ live'[i].level = live[i].level /\ live'[i].px = live[i].px

LEMMA RemovalStays ==
  ASSUME NEW id \in DOMAIN live, live' = Without(id)
  PROVE  OrdersStay
  BY DEF OrdersStay, Without, Restrict

LEMMA FillStays ==
  ASSUME LiveOK, NEW m \in DOMAIN live, Fill(m)
  PROVE  OrdersStay
<1>1. CASE live' = Without(m)
  BY <1>1, RemovalStays
<1>2. CASE live' # Without(m)
  <2>1. PICK q : live' = [live EXCEPT ![m] = [live[m] EXCEPT !.qty = q]]
    BY <1>2 DEF Fill
  <2>2. live[m] \in Nodes
    BY DEF LiveOK
  <2>3. QED
    BY <2>1, <2>2 DEF OrdersStay, Nodes
<1>3. QED
  BY <1>1, <1>2

\* A step that trades nothing and takes up no order keeps the walk.
LEMMA StayKeepsWalk ==
  ASSUME WalkInv, OrdersStay, UNCHANGED <<fills, cur>>, phase' \in {phase, "trigger"}
  PROVE  WalkInv'
<1>1. FillsWalkTheBook'
  BY DEF WalkInv, FillsWalkTheBook
<1>2. phase' = "idle" => fills' = <<>>
  BY DEF WalkInv
<1>3. \A i \in DOMAIN live' :
        IF live'[i].pending THEN \A j \in DOMAIN fills' : fills'[j].taker # i
                            ELSE live'[i].px = live'[i].level
  BY DEF WalkInv, OrdersStay
<1>4. ASSUME phase' = "match", NEW j \in DOMAIN fills', fills'[j].taker = cur'.id
      PROVE  /\ fills'[j].side = cur'.side
             /\ \A m \in Reachable(cur.side, cur.px)' :
                  Crosses(cur'.side, live'[m].level, fills'[j].px)
  <2>1. \A m \in Reachable(cur.side, cur.px)' :
           m \in Reachable(cur.side, cur.px) /\ live'[m].level = live[m].level
    BY DEF OrdersStay, Reachable, Resting
  <2>2. QED
    BY <1>4, <2>1 DEF WalkInv
<1>5. QED
  BY <1>1, <1>2, <1>3, <1>4 DEF WalkInv

\* The fills of an earlier call are gone when the next one begins.
LEMMA NoFillsNoWalk ==
  ASSUME fills' = <<>>,
         \A i \in DOMAIN live' : live'[i].pending \/ live'[i].px = live'[i].level
  PROVE  WalkInv'
<1>1. DOMAIN fills' = {}
  OBVIOUS
<1>2. QED
  BY <1>1 DEF WalkInv, FillsWalkTheBook

\* The next fill is at the head of what can be reached.
LEMMA FillWalks ==
  ASSUME TypeOK, WalkInv, NEW m \in DOMAIN live, Fill(m)
  PROVE  WalkInv'
<1> DEFINE n == live[m]
           q == Min({cur.rem, n.qty})
           f == [taker |-> cur.id, maker |-> m, px |-> n.px, qty |-> q,
                 side |-> cur.side, limit |-> cur.px]
<1>1. /\ n \in Nodes /\ cur \in Tasks /\ n.px = n.level /\ n.px \in Int /\ cur.px \in Int
      /\ cur.id \notin DOMAIN live
  BY DEF Fill, IsMaker, Reachable, Resting, TypeOK, LiveOK, CallOK, WalkInv, Nodes, Tasks, Prices
<1>2. OrdersStay
  BY FillStays DEF TypeOK
<1>3. fills \in Seq(FillRecords) /\ fills' = Append(fills, f)
  BY DEF Fill, TypeOK, ReplyOK
<1>4. /\ DOMAIN fills' = DOMAIN fills \cup {Len(fills) + 1}
      /\ DOMAIN fills = 1 .. Len(fills) /\ Len(fills) \in Nat
      /\ \A j \in DOMAIN fills : fills'[j] = fills[j]
      /\ fills'[Len(fills) + 1] = f
  <2> HIDE DEF f
  <2>1. QED
    BY <1>3
<1>5. cur' = [cur EXCEPT !.rem = cur.rem - q] /\ phase = "match" /\ phase' = "match"
  BY DEF Fill
<1>6. cur'.id = cur.id /\ cur'.side = cur.side /\ cur'.px = cur.px
  BY <1>1, <1>5 DEF Tasks
<1>7. f.taker = cur.id /\ f.side = cur.side /\ f.limit = cur.px /\ f.px = n.level
  BY <1>1
<1>8. m \in Reachable(cur.side, cur.px) /\ Crosses(cur.side, cur.px, n.level)
  BY DEF Fill, IsMaker, Reachable
<1> HIDE DEF f, q
<1>9. FillsWalkTheBook'
  <2>1. SUFFICES ASSUME NEW i \in DOMAIN fills'
                 PROVE  /\ Crosses(fills'[i].side, fills'[i].limit, fills'[i].px)
                        /\ \A j \in 1 .. i : fills'[j].taker = fills'[i].taker
                             => Crosses(fills'[i].side, fills'[i].px, fills'[j].px)
    BY DEF FillsWalkTheBook
  <2>2. CASE i \in DOMAIN fills
    <3>1. \A j \in 1 .. i : j \in DOMAIN fills
      BY <1>4, <2>2
    <3>2. QED
      BY <1>4, <2>2, <3>1 DEF WalkInv, FillsWalkTheBook
  <2>3. CASE i = Len(fills) + 1
    <3>1. Crosses(f.side, f.limit, f.px)
      BY <1>7, <1>8
    <3>2. ASSUME NEW j \in 1 .. i, fills'[j].taker = f.taker
          PROVE  Crosses(f.side, f.px, fills'[j].px)
      <4>1. CASE j = i
        BY <1>1, <1>4, <1>7, <2>3, <4>1 DEF Crosses
      <4>2. CASE j # i
        <5>1. j \in DOMAIN fills
          BY <1>4, <2>3, <4>2
        <5>2. Crosses(cur.side, n.level, fills[j].px)
          BY <1>4, <1>5, <1>7, <1>8, <3>2, <5>1 DEF WalkInv
        <5>3. QED
          BY <1>4, <1>7, <5>1, <5>2
      <4>3. QED
        BY <4>1, <4>2
    <3>3. QED
      BY <1>4, <2>3, <3>1, <3>2
  <2>4. QED
    BY <1>4, <2>2, <2>3
<1>10. \A i \in DOMAIN live' :
         IF live'[i].pending THEN \A j \in DOMAIN fills' : fills'[j].taker # i
                             ELSE live'[i].px = live'[i].level
  BY <1>1, <1>2, <1>4, <1>7 DEF WalkInv, OrdersStay
<1>11. ASSUME NEW j \in DOMAIN fills', fills'[j].taker = cur.id,
              NEW k \in Reachable(cur.side, cur.px)'
       PROVE  fills'[j].side = cur.side /\ Crosses(cur.side, live'[k].level, fills'[j].px)
  <2>1. k \in Reachable(cur.side, cur.px) /\ live'[k].level = live[k].level
    BY <1>2, <1>6 DEF OrdersStay, Reachable, Resting
  <2>2. CASE j \in DOMAIN fills
    BY <1>4, <1>5, <1>11, <2>1, <2>2 DEF WalkInv
  <2>3. CASE j = Len(fills) + 1
    <3>1. k = m \/ Precedes(cur.side, m, k)
      BY <2>1 DEF Fill, IsMaker
    <3>2. Crosses(cur.side, live[k].level, n.level)
      BY <1>1, <3>1 DEF Precedes, Crosses
    <3>3. QED
      BY <1>4, <1>7, <2>1, <2>3, <3>2
  <2>4. QED
    BY <1>4, <2>2, <2>3
<1>12. \A j \in DOMAIN fills' : fills'[j].taker = cur.id => fills'[j].side = cur.side
  BY <1>4, <1>5, <1>7 DEF WalkInv
<1>13. QED
  BY <1>5, <1>6, <1>9, <1>10, <1>11, <1>12 DEF WalkInv

\* A released stop has not traded yet.
LEMMA ReleaseWalks ==
  ASSUME LiveOK, WalkInv, NEW m \in DOMAIN live, Release(m)
  PROVE  WalkInv'
<1>1. live' = Without(m) /\ fills' = fills /\ cur'.id = m /\ phase' = "match"
  BY AsLimitType DEF Release, ReleaseNext
<1>2. OrdersStay
  BY <1>1, RemovalStays
<1>3. live[m].pending
  BY DEF Release, ReleaseNext, IsTriggered, Activated, Parked
<1>4. \A j \in DOMAIN fills' : fills'[j].taker # cur'.id
  BY <1>1, <1>3 DEF WalkInv
<1>5. FillsWalkTheBook'
  BY <1>1 DEF WalkInv, FillsWalkTheBook
<1>6. QED
  BY <1>1, <1>2, <1>4, <1>5 DEF WalkInv, OrdersStay

LEMMA WalkStep == TypeOK /\ WalkInv /\ [Next]_vars => WalkInv'
<1> SUFFICES ASSUME TypeOK, WalkInv, [Next]_vars PROVE WalkInv'
  OBVIOUS
<1> USE DEF book, history
<1>1. UNCHANGED live => OrdersStay
  BY DEF OrdersStay
<1>2. ASSUME NEW id \in OrderIds, NEW o \in Orders,
             RejectSubmit(id, o) \/ ParkFull(id, o)
      PROVE  WalkInv'
  BY <1>1, <1>2, StayKeepsWalk DEF RejectSubmit, ParkFull
<1>3. ASSUME NEW id \in OrderIds, NEW o \in Orders, Park(id, o) \/ Take(id, o)
      PROVE  WalkInv'
  <2>1. fills' = <<>>
    BY <1>3 DEF Park, Take, WalkInv
  <2>2. \A i \in DOMAIN live' : live'[i].pending \/ live'[i].px = live'[i].level
    BY <1>3 DEF Park, Take, With, Node, WalkInv
  <2>3. QED
    BY <2>1, <2>2, NoFillsNoWalk
<1>4. ASSUME NEW m \in DOMAIN live, Cancel(m) \/ CancelOwn(m) \/ ReleaseRefused(m)
      PROVE  WalkInv'
  BY <1>4, RemovalStays, StayKeepsWalk DEF Cancel, CancelOwn, ReleaseRefused, ReleaseNext
<1>5. ASSUME NEW m \in DOMAIN live, Fill(m) \/ Release(m) PROVE WalkInv'
  BY <1>5, FillWalks, ReleaseWalks DEF TypeOK
<1>6. CASE Rest
  <2>1. /\ live' = With(cur.id, Node(cur, cur.px, cur.rem, FALSE))
        /\ fills' = fills /\ phase' = "trigger"
    BY <1>6 DEF Rest, EnterRunTriggers
  <2>2. \A i \in DOMAIN live' :
           \/ i \in DOMAIN live /\ live'[i] = live[i]
           \/ ~live'[i].pending /\ live'[i].px = live'[i].level
    BY <2>1 DEF With, Node
  <2>3. FillsWalkTheBook'
    BY <2>1 DEF WalkInv, FillsWalkTheBook
  <2>4. QED
    BY <2>1, <2>2, <2>3 DEF WalkInv
<1>7. CASE Drop \/ RestFull \/ Return
  <2>1. UNCHANGED live /\ phase' \in {"idle", "trigger"}
    BY <1>7 DEF Drop, EnterRunTriggers, RestFull, Return, Answer
  <2>2. CASE fills' = <<>>
    BY <2>1, <2>2, NoFillsNoWalk DEF WalkInv
  <2>3. CASE fills' # <<>>
    <3>1. fills' = fills /\ phase' = "trigger"
      BY <1>7, <2>3 DEF Drop, EnterRunTriggers, RestFull, Return, Answer
    <3>2. QED
      BY <2>1, <3>1 DEF WalkInv, FillsWalkTheBook
  <2>4. QED
    BY <2>2, <2>3
<1>8. ASSUME NEW id \in OrderIds, CancelUnknown(id) PROVE WalkInv'
  BY <1>1, <1>8, StayKeepsWalk DEF CancelUnknown
<1>9. CASE UNCHANGED vars
  BY <1>1, <1>9, StayKeepsWalk DEF vars
<1>10. CASE Call
  BY <1>10, <1>2, <1>3, <1>4, <1>8 DEF Call, Cancel
<1>11. CASE Internal
  BY <1>11, <1>4, <1>5, <1>6, <1>7 DEF Internal
<1>12. QED
  BY <1>9, <1>10, <1>11 DEF Next

\* One taker's fills never improve in price and are never worse than its limit,
\* self-trade prevention and cascades of stops included: matchAgainst serves the
\* best level first, and nothing better appears behind it while it runs.
THEOREM TakersWalkTheBook == Spec => []FillsWalkTheBook
<1>1. Init => WalkInv
  BY DEF Init, WalkInv, FillsWalkTheBook
<1>2. WalkInv => FillsWalkTheBook
  BY DEF WalkInv
<1>3. QED
  BY <1>1, <1>2, WalkStep, TypeCorrect, PTL DEF Spec

-----------------------------------------------------------------------------
(* Positions net to zero *)

\* One side of a fill gains what the other loses.
Shifted(f, a, b, d) == [[f EXCEPT ![a] = @ + d] EXCEPT ![b] = @ - d]

LEMMA MovedKeepsNet ==
  ASSUME NEW f \in [Owners -> Int], NEW a \in Owners, NEW b \in Owners, NEW d \in Int
  PROVE  Total(Shifted(f, a, b, d), Owners) = Total(f, Owners)
<1> DEFINE g == [f EXCEPT ![a] = @ + d]
           h == [g EXCEPT ![b] = @ - d]
<1>1. IsFiniteSet(Owners)
  BY BookAssumption
<1>2. g \in [Owners -> Int] /\ g[a] = f[a] + d /\ \A o \in Owners \ {a} : g[o] = f[o]
  OBVIOUS
<1> HIDE DEF g
<1>3. h \in [Owners -> Int] /\ h[b] = g[b] - d /\ \A o \in Owners \ {b} : h[o] = g[o]
  BY <1>2
<1> HIDE DEF h
<1>4. Total(g, Owners) = Total(f, Owners) + g[a] - f[a]
  <2>1. \A o \in Owners : f[o] \in Int /\ g[o] \in Int
    BY <1>2
  <2>2. QED
    BY <1>1, <1>2, <2>1, TotalChange
<1>5. Total(h, Owners) = Total(g, Owners) + h[b] - g[b]
  <2>1. \A o \in Owners : g[o] \in Int /\ h[o] \in Int
    BY <1>2, <1>3
  <2>2. QED
    BY <1>1, <1>3, <2>1, TotalChange
<1>6. Total(f, Owners) \in Int /\ f[a] \in Int /\ g[b] \in Int
  BY <1>1, <1>2, TotalType
<1>7. Total(h, Owners) = Total(f, Owners)
  BY <1>2, <1>3, <1>4, <1>5, <1>6
<1>8. QED
  BY <1>7 DEF g, h, Shifted

Netted == Total(positions, Owners) = 0

LEMMA NettedIsProperty == Netted => PositionsNetToZero
  BY DEF Netted, PositionsNetToZero, Total

LEMMA NetStep == TypeOK /\ Netted /\ [Next]_vars => Netted'
<1> SUFFICES ASSUME TypeOK, Netted, [Next]_vars
             PROVE  Netted'
  OBVIOUS
<1> USE DEF book, history
<1>1. ASSUME NEW m \in DOMAIN live, Fill(m) PROVE Netted'
  <2> DEFINE d == Signed(cur.side, Min({cur.rem, live[m].qty}))
  <2>1. live[m] \in Nodes /\ cur \in Tasks
    BY <1>1 DEF Fill, TypeOK, CallOK, LiveOK
  <2>2. d \in Int
    BY <2>1, MinOfPair DEF Signed, Nodes, Tasks
  <2>3. /\ cur.owner \in Owners /\ live[m].owner \in Owners
        /\ positions \in [Owners -> Int]
    BY <2>1 DEF Nodes, Tasks, TypeOK, MarketOK
  <2>4. positions' = Shifted(positions, cur.owner, live[m].owner, d)
    BY <1>1 DEF Fill, Moved, Shifted
  <2> HIDE DEF d
  <2>5. Total(positions', Owners) = Total(positions, Owners)
    BY <2>2, <2>3, <2>4, MovedKeepsNet
  <2>6. QED
    BY <2>5 DEF Netted
<1>2. CASE UNCHANGED positions
  BY <1>2 DEF Netted
<1>3. CASE Call
  BY <1>3, <1>2 DEF Call, RejectSubmit, Park, ParkFull, Take, Cancel, CancelUnknown
<1>4. CASE Internal
  BY <1>4, <1>1, <1>2
     DEF Internal, CancelOwn, Release, ReleaseRefused, Rest, Drop, RestFull, Return
<1>5. CASE UNCHANGED vars
  BY <1>2, <1>5 DEF vars
<1>6. QED
  BY <1>3, <1>4, <1>5 DEF Next

\* The positions of all owners net to zero in every state of every submit, for
\* any number of owners: a fill takes from one side what it gives to the other.
THEOREM NothingMadeOrLost == Spec => []PositionsNetToZero
<1>1. Init => Netted
  <2>1. Init => \A o \in Owners : positions[o] = 0
    BY DEF Init
  <2>2. QED
    BY <2>1, BookAssumption, TotalZero DEF Netted
<1>2. QED
  BY <1>1, NetStep, NettedIsProperty, TypeCorrect, PTL DEF Spec

-----------------------------------------------------------------------------
(* Fill-or-kill *)

\* The orders of others that a taker can reach in a book l, and what they offer.
Offers(l, side, owner, limit) ==
  {i \in DOMAIN l : /\ ~l[i].pending /\ l[i].side = Opposite(side)
                    /\ Crosses(side, limit, l[i].level) /\ l[i].owner # owner}

Offered(l, side, owner, limit) ==
  LET s == Offers(l, side, owner, limit) IN Total([i \in s |-> l[i].qty], s)

AvailableIn(l, side, owner, limit) == QtyTotal(l, Offers(l, side, owner, limit))

Book(l) == IsFiniteSet(DOMAIN l) /\ \A i \in DOMAIN l : l[i] \in Nodes

LEMMA AvailableIsOffered ==
  ASSUME NEW l, Book(l), NEW side, NEW owner, NEW limit
  PROVE  AvailableIn(l, side, owner, limit) = Offered(l, side, owner, limit)
<1>1. IsFiniteSet(Offers(l, side, owner, limit))
  BY FS_Subset DEF Book, Offers
<1>2. QED
  BY <1>1, QtyTotalIsTotal DEF AvailableIn, Offered

\* An order that offers nothing leaves.
LEMMA OfferedOthersLeave ==
  ASSUME NEW l, Book(l), NEW side, NEW owner, NEW limit,
         NEW m \in DOMAIN l, m \notin Offers(l, side, owner, limit)
  PROVE  LET k == Restrict(l, DOMAIN l \ {m})
         IN  Book(k) /\ Offered(k, side, owner, limit) = Offered(l, side, owner, limit)
<1> DEFINE k == Restrict(l, DOMAIN l \ {m})
           s == Offers(l, side, owner, limit)
<1>1. DOMAIN k = DOMAIN l \ {m} /\ \A i \in DOMAIN k : k[i] = l[i]
  BY DEF Restrict
<1> HIDE DEF k
<1>2. Book(k)
  BY <1>1, FS_Subset DEF Book
<1>3. Offers(k, side, owner, limit) = s
  BY <1>1 DEF Offers
<1>4. [i \in s |-> k[i].qty] = [i \in s |-> l[i].qty]
  BY <1>1, <1>3 DEF Offers
<1>5. Offered(k, side, owner, limit) = Offered(l, side, owner, limit)
  BY <1>3, <1>4 DEF Offered
<1>6. QED
  BY <1>2, <1>5 DEF k

\* An offer is taken whole.
LEMMA OfferedTaken ==
  ASSUME NEW l, Book(l), NEW side, NEW owner, NEW limit,
         NEW m \in Offers(l, side, owner, limit)
  PROVE  LET k == Restrict(l, DOMAIN l \ {m})
         IN  /\ Book(k)
             /\ Offered(k, side, owner, limit) = Offered(l, side, owner, limit) - l[m].qty
<1> DEFINE k == Restrict(l, DOMAIN l \ {m})
           s == Offers(l, side, owner, limit)
           f == [i \in s |-> l[i].qty]
           g == [i \in s \ {m} |-> l[i].qty]
<1>1. DOMAIN k = DOMAIN l \ {m} /\ \A i \in DOMAIN k : k[i] = l[i]
  BY DEF Restrict
<1> HIDE DEF k
<1>2. Book(k)
  BY <1>1, FS_Subset DEF Book
<1>3. Offers(k, side, owner, limit) = s \ {m}
  BY <1>1 DEF Offers
<1>4. IsFiniteSet(s) /\ IsFiniteSet(s \ {m}) /\ m \in s
  BY FS_Subset DEF Book, Offers
<1>5. [i \in s \ {m} |-> k[i].qty] = g
  BY <1>1, <1>3 DEF Offers
<1>6. \A i \in s : f[i] \in Nat /\ f[i] = l[i].qty
  BY DEF Book, Offers, Nodes
<1>7. Total(f, s) = l[m].qty + Total(f, s \ {m})
  <2> HIDE DEF f, s
  <2>1. \A i \in s : f[i] \in Int
    BY <1>6
  <2>2. QED
    BY <1>4, <1>6, <2>1, TotalRemove
<1>8. Total(f, s \ {m}) = Total(g, s \ {m})
  <2>1. \A i \in s \ {m} : f[i] = g[i]
    OBVIOUS
  <2> HIDE DEF f, s, g
  <2>2. QED
    BY <1>4, <2>1, TotalSame
<1>9. Total(f, s \ {m}) \in Int /\ l[m].qty \in Int
  <2>1. \A i \in s \ {m} : f[i] \in Int
    BY <1>6
  <2> HIDE DEF f, s
  <2>2. QED
    BY <1>4, <1>6, <2>1, TotalType
<1>10. /\ Offered(k, side, owner, limit) = Total(g, s \ {m})
       /\ Offered(l, side, owner, limit) = Total(f, s)
  BY <1>3, <1>5 DEF Offered
<1> HIDE DEF f, s, g
<1>11. QED
  BY <1>2, <1>7, <1>8, <1>9, <1>10 DEF k

\* An offer is taken in part.
LiveReduced(l, m, q) == [l EXCEPT ![m].qty = @ - q]

LEMMA OfferedReduced ==
  ASSUME NEW l, Book(l), NEW side, NEW owner, NEW limit,
         NEW m \in Offers(l, side, owner, limit), NEW q \in Nat, q < l[m].qty
  PROVE  LET k == LiveReduced(l, m, q)
         IN  /\ Book(k)
             /\ Offered(k, side, owner, limit) = Offered(l, side, owner, limit) - q
<1> DEFINE k == LiveReduced(l, m, q)
           s == Offers(l, side, owner, limit)
           f == [i \in s |-> l[i].qty]
           g == [i \in s |-> k[i].qty]
<1>1. m \in DOMAIN l /\ l[m] \in Nodes /\ q \in Int
  BY DEF Offers, Book
<1>2. /\ DOMAIN k = DOMAIN l
      /\ k[m] = [l[m] EXCEPT !.qty = @ - q]
      /\ \A i \in DOMAIN l \ {m} : k[i] = l[i]
  BY <1>1 DEF LiveReduced
<1> HIDE DEF k
<1>3. /\ k[m] \in Nodes /\ k[m].qty = l[m].qty - q
      /\ k[m].pending = l[m].pending /\ k[m].side = l[m].side
      /\ k[m].level = l[m].level /\ k[m].owner = l[m].owner
  BY <1>1, <1>2 DEF Nodes
<1>4. Book(k)
  BY <1>2, <1>3 DEF Book
<1>5. Offers(k, side, owner, limit) = s
  BY <1>2, <1>3 DEF Offers
<1>6. IsFiniteSet(s) /\ m \in s
  BY FS_Subset DEF Book, Offers
<1>7. \A i \in s : f[i] \in Int /\ g[i] \in Int
  BY <1>4, <1>2 DEF Book, Offers, Nodes
<1>8. \A i \in s \ {m} : g[i] = f[i]
  BY <1>2 DEF Offers
<1>9. f[m] = l[m].qty /\ g[m] = l[m].qty - q
  BY <1>3, <1>6
<1>10. /\ Offered(k, side, owner, limit) = Total(g, s)
       /\ Offered(l, side, owner, limit) = Total(f, s)
  BY <1>5 DEF Offered
<1> HIDE DEF f, s, g
<1>11. Total(g, s) = Total(f, s) + g[m] - f[m] /\ Total(f, s) \in Int
  BY <1>6, <1>7, <1>8, TotalChange, TotalType
<1>12. l[m].qty \in Int
  BY <1>1 DEF Nodes
<1>13. Total(g, s) = Total(f, s) - q
  BY <1>1, <1>9, <1>11, <1>12
<1>14. QED
  BY <1>4, <1>10, <1>13 DEF k

LEMMA NothingOffered ==
  ASSUME NEW l, NEW side, NEW owner, NEW limit, Offers(l, side, owner, limit) = {}
  PROVE  Offered(l, side, owner, limit) = 0
  BY TotalEmpty DEF Offered

\* While a fill-or-kill order is matched, the orders of others that it can
\* reach hold at least what remains of it.
Covered ==
  phase = "match" /\ cur.tif = "FOK"
    => Offered(live, cur.side, cur.owner, cur.px) >= cur.rem

LEMMA AvailableHere ==
  ASSUME LiveOK, NEW side, NEW owner, NEW limit
  PROVE  Available(side, owner, limit) = Offered(live, side, owner, limit)
<1>1. Offers(live, side, owner, limit) = {i \in Reachable(side, limit) : live[i].owner # owner}
  BY DEF Offers, Reachable, Resting
<1>2. Available(side, owner, limit) = AvailableIn(live, side, owner, limit)
  BY <1>1 DEF Available, AvailableIn, QtyTotal
<1>3. Book(live)
  BY DEF Book, LiveOK
<1>4. QED
  BY <1>2, <1>3, AvailableIsOffered

LEMMA FillCovers ==
  ASSUME TypeOK, Covered, NEW m \in DOMAIN live, Fill(m)
  PROVE  Covered'
<1> DEFINE n == live[m]
           q == Min({cur.rem, n.qty})
           s == cur.side
           w == cur.owner
           p == cur.px
<1>1. SUFFICES ASSUME cur.tif = "FOK" PROVE Offered(live', s, w, p) >= cur.rem - q
  <2>1. /\ cur \in Tasks /\ phase' = "match"
        /\ cur' = [cur EXCEPT !.rem = @ - q]
    BY DEF Fill, TypeOK, CallOK
  <2> HIDE DEF q
  <2>2. /\ cur'.rem = cur.rem - q /\ cur'.side = s /\ cur'.owner = w
        /\ cur'.px = p /\ cur'.tif = cur.tif
    BY <2>1 DEF Tasks
  <2>3. QED
    BY <2>2, <1>1 DEF Covered
<1>2. /\ Book(live) /\ n \in Nodes /\ cur \in Tasks
  BY DEF Fill, TypeOK, CallOK, LiveOK, Book
<1>3. /\ cur.rem \in Nat /\ n.qty \in Nat /\ q \in Nat /\ q <= n.qty
  BY <1>2, MinOfPair DEF Nodes, Tasks
<1>4. m \in Offers(live, s, w, p)
  BY DEF Fill, IsMaker, Offers, Reachable, Resting
<1>5. Offered(live, s, w, p) >= cur.rem
  BY <1>1 DEF Covered, Fill
<1>6. live' = IF q = n.qty THEN Restrict(live, DOMAIN live \ {m})
              ELSE LiveReduced(live, m, q)
  BY DEF Fill, Without, LiveReduced
<1> HIDE DEF q
<1>7. Offered(live', s, w, p) = Offered(live, s, w, p) - q
  <2>1. CASE q = n.qty
    BY <1>2, <1>4, <1>6, <2>1, OfferedTaken
  <2>2. CASE q # n.qty
    <3>1. q < live[m].qty
      BY <1>3, <2>2
    <3>2. QED
      BY <1>2, <1>3, <1>4, <1>6, <2>2, <3>1, OfferedReduced
  <2>3. QED
    BY <2>1, <2>2
<1>8. Offered(live, s, w, p) \in Int
  <2> DEFINE o == Offers(live, s, w, p)
             f == [i \in o |-> live[i].qty]
  <2>1. IsFiniteSet(o) /\ \A i \in o : f[i] \in Int
    BY <1>2, FS_Subset DEF Book, Offers, Nodes
  <2>2. Offered(live, s, w, p) = Total(f, o)
    BY DEF Offered
  <2> HIDE DEF f, o
  <2>3. QED
    BY <2>1, <2>2, TotalType
<1>9. QED
  BY <1>3, <1>5, <1>7, <1>8

LEMMA CancelOwnCovers ==
  ASSUME TypeOK, Covered, NEW m \in DOMAIN live, CancelOwn(m)
  PROVE  Covered'
<1>1. /\ cur' = cur /\ phase' = phase /\ phase = "match"
      /\ live' = Restrict(live, DOMAIN live \ {m})
  BY DEF CancelOwn, Without
<1>2. Book(live) /\ m \notin Offers(live, cur.side, cur.owner, cur.px)
  BY DEF TypeOK, LiveOK, Book, CancelOwn, Offers
<1>3. Offered(live', cur.side, cur.owner, cur.px) = Offered(live, cur.side, cur.owner, cur.px)
  BY <1>1, <1>2, OfferedOthersLeave
<1>4. QED
  BY <1>1, <1>3 DEF Covered

\* Both the submitted order and the released stop pass the check first.
LEMMA EnterCovers ==
  ASSUME TypeOK, NEW id, NEW o, Admissible(o), cur' = Task(id, o),
         o.tif = "FOK" => Offered(live', o.side, o.owner, o.px)
                            = Offered(live, o.side, o.owner, o.px)
  PROVE  Covered'
<1>1. o.tif = "FOK" => Offered(live, o.side, o.owner, o.px) >= o.qty
  BY AvailableHere DEF TypeOK, Admissible
<1>2. /\ cur'.side = o.side /\ cur'.owner = o.owner /\ cur'.px = o.px
      /\ cur'.rem = o.qty /\ cur'.tif = o.tif
  BY DEF Task
<1>3. QED
  BY <1>1, <1>2 DEF Covered

LEMMA CoveredStep == TypeOK /\ Covered /\ [Next]_vars => Covered'
<1> SUFFICES ASSUME TypeOK, Covered, [Next]_vars
             PROVE  Covered'
  OBVIOUS
<1> USE DEF book, history
<1>1. ASSUME NEW id \in OrderIds, NEW o \in Orders, Take(id, o) PROVE Covered'
  BY <1>1, EnterCovers DEF Take
<1>2. ASSUME NEW m \in DOMAIN live, Release(m) PROVE Covered'
  <2>1. /\ live' = Restrict(live, DOMAIN live \ {m})
        /\ Admissible(AsLimit(m)) /\ cur' = Task(m, AsLimit(m))
    BY <1>2 DEF Release, ReleaseNext, Without
  <2>2. live[m].pending /\ Book(live)
    BY <1>2 DEF Release, ReleaseNext, IsTriggered, Activated, Parked,
                TypeOK, LiveOK, Book
  <2>3. \A s, w, p : Offered(live', s, w, p) = Offered(live, s, w, p)
    BY <2>1, <2>2, OfferedOthersLeave DEF Offers
  <2>4. QED
    BY <2>1, <2>3, EnterCovers
<1>3. CASE phase' # "match"
  BY <1>3 DEF Covered
<1>4. CASE UNCHANGED <<phase, cur, live>>
  BY <1>4 DEF Covered
<1>5. CASE Call
  BY <1>5, <1>1, <1>3, <1>4 DEF Call, RejectSubmit, Park, ParkFull, Cancel, CancelUnknown
<1>6. ASSUME NEW m \in DOMAIN live, Fill(m) \/ CancelOwn(m) PROVE Covered'
  BY <1>6, FillCovers, CancelOwnCovers
<1>7. ASSUME NEW m \in DOMAIN live, ReleaseRefused(m) PROVE Covered'
  BY <1>7, <1>3 DEF ReleaseRefused, ReleaseNext
<1>8. CASE Rest \/ Drop \/ RestFull \/ Return
  <2>1. phase' \in {"idle", "trigger"}
    BY <1>8 DEF Rest, Drop, EnterRunTriggers, RestFull, Return, Answer
  <2>2. QED
    BY <2>1, <1>3
<1>9. CASE Internal
  BY <1>9, <1>2, <1>6, <1>7, <1>8 DEF Internal
<1>10. CASE UNCHANGED vars
  BY <1>4, <1>10 DEF vars
<1>11. QED
  BY <1>5, <1>9, <1>10 DEF Next

LEMMA CoveredIsEnough == TypeOK /\ Covered => FOKAllOrNothing
<1> SUFFICES ASSUME TypeOK, Covered, MatchDone, cur.tif = "FOK", cur.rem # 0
             PROVE  FALSE
  BY DEF FOKAllOrNothing
<1>1. phase = "match" /\ Reachable(cur.side, cur.px) = {} /\ cur.rem \in Nat
  BY DEF MatchDone, TypeOK, CallOK, Tasks
<1>2. Offers(live, cur.side, cur.owner, cur.px) = {}
  BY <1>1 DEF Offers, Reachable, Resting
<1>3. Offered(live, cur.side, cur.owner, cur.px) = 0
  BY <1>2, NothingOffered
<1>4. QED
  BY <1>1, <1>3 DEF Covered

\* A fill-or-kill order that passed its check is filled entirely, whatever
\* self-trade prevention cancels on the way: available leaves out the taker's
\* own orders, so what it counted can only go to this taker.
THEOREM FillOrKillIsWhole == Spec => []FOKAllOrNothing
<1>1. Init => Covered
  BY DEF Init, Covered
<1>2. QED
  BY <1>1, CoveredStep, CoveredIsEnough, TypeCorrect, PTL DEF Spec
=============================================================================
