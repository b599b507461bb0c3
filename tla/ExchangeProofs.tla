---------------------------- MODULE ExchangeProofs ----------------------------
(* Theorems about the places where orders are decided on and traded: what a      *)
(* call of the engine does to a book that several watch (Venue), and with it the *)
(* quotes of the makers of a simulation (Simulation), the ledgers of the         *)
(* interactive demo (Demo) and the fills a market keeps and what a leaderboard   *)
(* makes of them (Market); a market's histories; the client of the engine        *)
(* (EngineClient), for any finite set of threads, any kinds of request and any   *)
(* number of calls; the backtests (Backtest), for paths of any length, any lots  *)
(* and any hedge; the strategies with more than one leg (Strategies), for any    *)
(* strikes, sizes and hedge ratios and any number of sessions.                   *)
EXTENDS Demo, Simulation, Market, EngineClient, Strategies, Backtest,
        Sums, FiniteSetTheorems, SequenceTheorems, TLAPS

-------------------------------------------------------------------------------
(* Venue: calls of the engine in a row                                         *)

\* The calls at the places S played in turn, from a book where none has been.
Fresh(book) == [book |-> book, fills |-> {}, swept |-> {}]
InTurn(g, start, calls, S) ==
  g = [s \in SUBSET S |-> IF s = {} THEN start ELSE Made(g[s \ {Max(s)}], calls[Max(s)])]

LEMMA InTurnUnique ==
  ASSUME NEW start, NEW calls, NEW S, NEW T, IsFiniteSet(S), Numbers(S),
         NEW g, NEW h, InTurn(g, start, calls, S), InTurn(h, start, calls, T)
  PROVE  \A s \in SUBSET (S \cap T) : g[s] = h[s]
<1> DEFINE B == {s \in SUBSET (S \cap T) : g[s] # h[s]}
<1>1. SUFFICES ASSUME B # {} PROVE FALSE
  OBVIOUS
<1>2. IsFiniteSet(S \cap T)
  BY FS_Subset, NumbersIn
<1>3. PICK s \in B : \A t \in B : t \subseteq s => t = s
  <2> HIDE DEF B
  <2>1. B \subseteq SUBSET (S \cap T)
    BY DEF B
  <2>2. QED
    BY <1>1, <1>2, <2>1, SmallestSubset
<1>4. s \in SUBSET S /\ s \in SUBSET T /\ g[s] # h[s]
  OBVIOUS
<1>5. /\ g[s] = IF s = {} THEN start ELSE Made(g[s \ {Max(s)}], calls[Max(s)])
      /\ h[s] = IF s = {} THEN start ELSE Made(h[s \ {Max(s)}], calls[Max(s)])
  BY <1>4 DEF InTurn
<1>6. s # {}
  BY <1>4, <1>5
<1>7. Max(s) \in s
  BY <1>4, <1>6, FS_Subset, NumbersIn, MaxIsGreatest
<1>8. s \ {Max(s)} \notin B
  BY <1>3, <1>7
<1>9. g[s \ {Max(s)}] = h[s \ {Max(s)}]
  BY <1>8
<1>10. QED
  BY <1>4, <1>5, <1>9

LEMMA InTurnExists ==
  ASSUME NEW start, NEW calls, NEW S, IsFiniteSet(S), Numbers(S)
  PROVE  \E g : InTurn(g, start, calls, S)
<1> DEFINE B == {s \in SUBSET S : ~ \E g : InTurn(g, start, calls, s)}
<1>1. SUFFICES ASSUME B # {} PROVE FALSE
  OBVIOUS
<1>2. PICK s \in B : \A t \in B : t \subseteq s => t = s
  <2> HIDE DEF B
  <2>1. B \subseteq SUBSET S
    BY DEF B
  <2>2. QED
    BY <1>1, <2>1, SmallestSubset
<1> DEFINE Of(t) == CHOOSE g : InTurn(g, start, calls, t)
           rest(t) == t \ {Max(t)}
           fold == [t \in SUBSET s |->
                      IF t = {} THEN start ELSE Made(Of(rest(t))[rest(t)], calls[Max(t)])]
<1>a. \A t \in SUBSET s : IsFiniteSet(t) /\ Numbers(t) /\ (t # {} => Max(t) \in t)
  BY FS_Subset, NumbersIn, MaxIsGreatest
<1>3. ASSUME NEW t \in SUBSET s, t # s PROVE InTurn(Of(t), start, calls, t)
  <2>1. t \notin B
    BY <1>2, <1>3
  <2>2. \E g : InTurn(g, start, calls, t)
    BY <2>1
  <2>3. QED
    BY <2>2
<1>4. ASSUME NEW t \in SUBSET s, t # {} PROVE fold[rest(t)] = Of(rest(t))[rest(t)]
  <2> DEFINE u == rest(t)
  <2>1. u \in SUBSET s /\ u # s
    BY <1>4, <1>a
  <2>2. InTurn(Of(u), start, calls, u)
    BY <1>3, <2>1
  <2> HIDE DEF Of
  <2>3. Of(u)[u] = IF u = {} THEN start ELSE Made(Of(u)[rest(u)], calls[Max(u)])
    BY <2>2 DEF InTurn
  <2>4. CASE u = {}
    BY <2>1, <2>3, <2>4
  <2>5. CASE u # {}
    <3>1. rest(u) \in SUBSET s /\ rest(u) # s /\ rest(u) \subseteq u
      BY <2>1, <2>5, <1>a
    <3>2. InTurn(Of(rest(u)), start, calls, rest(u))
      BY <1>3, <3>1
    <3>3. IsFiniteSet(u) /\ Numbers(u)
      BY <2>1, <1>a
    <3>4. Of(u)[rest(u)] = Of(rest(u))[rest(u)]
      <4> DEFINE v == rest(u)
      <4>1. v \in SUBSET (u \cap v)
        BY <3>1
      <4> HIDE DEF v, u
      <4>2. QED
        BY <2>2, <3>2, <3>3, <4>1, InTurnUnique DEF v
    <3>5. QED
      BY <2>1, <2>3, <2>5, <3>4
  <2>6. QED
    BY <2>4, <2>5
<1>5. InTurn(fold, start, calls, s)
  <2> HIDE DEF Of
  <2>1. fold = [t \in SUBSET s |-> IF t = {} THEN start ELSE Made(fold[rest(t)], calls[Max(t)])]
    BY <1>4
  <2>2. QED
    BY <2>1 DEF InTurn
<1>6. QED
  BY <1>5

LEMMA InTurnSame ==
  ASSUME NEW start, NEW calls, NEW S, NEW T, IsFiniteSet(S), Numbers(S), T \subseteq S,
         NEW g, NEW h, InTurn(g, start, calls, S), InTurn(h, start, calls, T)
  PROVE  g[T] = h[T]
<1>1. T \in SUBSET (S \cap T)
  OBVIOUS
<1>2. \A s \in SUBSET (S \cap T) : g[s] = h[s]
  BY InTurnUnique
<1>3. QED
  BY <1>1, <1>2

\* The last call is played on what the others left.
LEMMA PlayedIsInTurn ==
  ASSUME NEW book, NEW calls, NEW n \in Nat, DOMAIN calls = 1..n,
         NEW S, IsFiniteSet(S), Numbers(S), 1..n \subseteq S,
         NEW g, InTurn(g, Fresh(book), calls, S)
  PROVE  Played(book, calls) = g[1..n]
<1> DEFINE it == CHOOSE h : InTurn(h, Fresh(book), calls, 1..n)
<1>1. Played(book, calls) = it[1..n]
  BY DEF Played, FoldLeft, MapThenFoldSet, InTurn, Fresh
<1>2. IsFiniteSet(1..n) /\ Numbers(1..n)
  BY FS_Interval DEF Numbers
<1>3. InTurn(it, Fresh(book), calls, 1..n)
  BY <1>2, InTurnExists
<1>4. 1..n \in SUBSET (S \cap 1..n)
  OBVIOUS
<1> DEFINE T == 1..n
           start == Fresh(book)
<1> HIDE DEF it, T, start
<1>5. /\ InTurn(it, start, calls, T) /\ IsFiniteSet(T) /\ Numbers(T)
      /\ InTurn(g, start, calls, S) /\ IsFiniteSet(S) /\ Numbers(S)
      /\ T \in SUBSET (S \cap T)
  BY <1>2, <1>3, <1>4 DEF T, start
<1>6. g[T] = it[T]
  BY <1>5, InTurnSame
<1>7. QED
  BY <1>1, <1>6 DEF T

LEMMA NonePlayed == ASSUME NEW book PROVE Played(book, <<>>) = Fresh(book)
<1>1. PICK g : InTurn(g, Fresh(book), <<>>, {})
  BY FS_EmptySet, InTurnExists DEF Numbers
<1>2. g[{}] = Fresh(book)
  BY <1>1 DEF InTurn
<1>3. Played(book, <<>>) = g[1..0]
  <2>1. IsFiniteSet({}) /\ Numbers({})
    BY FS_EmptySet DEF Numbers
  <2>2. 0 \in Nat /\ DOMAIN <<>> = 1..0 /\ 1..0 \subseteq {}
    OBVIOUS
  <2>3. QED
    BY <1>1, <2>1, <2>2, PlayedIsInTurn
<1>4. QED
  BY <1>2, <1>3

LEMMA OneMorePlayed ==
  ASSUME NEW book, NEW calls, NEW C, calls \in Seq(C), NEW c \in C
  PROVE  Played(book, Append(calls, c)) = Made(Played(book, calls), c)
<1> DEFINE n == Len(calls)
           all == Append(calls, c)
<1>1. n \in Nat /\ DOMAIN calls = 1..n /\ DOMAIN all = 1..(n + 1)
      /\ all[n + 1] = c /\ \A i \in 1..n : all[i] = calls[i]
  OBVIOUS
<1> HIDE DEF n, all
<1> DEFINE S == 1..(n + 1)
<1>2. IsFiniteSet(S) /\ Numbers(S) /\ IsFiniteSet(1..n) /\ Numbers(1..n)
  BY <1>1, FS_Interval DEF Numbers
<1>3. PICK g : InTurn(g, Fresh(book), all, S)
  BY <1>2, InTurnExists
<1>4. Played(book, all) = g[S]
  BY <1>1, <1>2, <1>3, PlayedIsInTurn
<1>5. Max(S) = n + 1 /\ S \ {Max(S)} = 1..n /\ S # {}
  <2>1. S # {} /\ n + 1 \in S /\ \A x \in S : n + 1 >= x
    BY <1>1
  <2>2. Max(S) \in S /\ Max(S) >= n + 1
    BY <1>2, <2>1, MaxIsGreatest
  <2>3. Max(S) = n + 1
    BY <1>1, <2>1, <2>2
  <2>4. QED
    BY <1>1, <2>1, <2>3
<1>6. g[S] = Made(g[1..n], c)
  BY <1>1, <1>3, <1>5 DEF InTurn
<1>7. g[1..n] = Played(book, calls)
  <2>1. PICK h : InTurn(h, Fresh(book), calls, 1..n)
    BY <1>2, InTurnExists
  <2>2. Played(book, calls) = h[1..n]
    BY <1>1, <1>2, <2>1, PlayedIsInTurn
  <2>3. InTurn(h, Fresh(book), all, 1..n)
    <3>1. ASSUME NEW s \in SUBSET (1..n), s # {} PROVE all[Max(s)] = calls[Max(s)]
      <4>1. Max(s) \in s
        BY <1>2, <3>1, FS_Subset, NumbersIn, MaxIsGreatest
      <4>2. QED
        BY <1>1, <4>1
    <3>2. QED
      BY <2>1, <3>1 DEF InTurn
  <2>4. 1..n \in SUBSET (S \cap 1..n)
    BY <1>1
  <2> DEFINE T == 1..n
             start == Fresh(book)
  <2> HIDE DEF S, T, start
  <2>5. g[T] = h[T]
    <3>1. /\ InTurn(h, start, all, T) /\ IsFiniteSet(T) /\ Numbers(T)
          /\ InTurn(g, start, all, S) /\ IsFiniteSet(S) /\ Numbers(S)
      BY <1>2, <1>3, <2>3 DEF T, start
    <3>2. T \in SUBSET (S \cap T)
      BY <2>4 DEF T
    <3>3. QED
      BY <3>1, <3>2, InTurnSame
  <2>6. QED
    BY <2>2, <2>5 DEF T
<1>8. QED
  BY <1>4, <1>6, <1>7 DEF all

-------------------------------------------------------------------------------
(* Venue: what one call does to a book                                         *)

\* The values of a function on a finite set are finitely many.
LEMMA ValuesFinite ==
  ASSUME NEW S, IsFiniteSet(S), NEW f, NEW T, T = {f[x] : x \in S}
  PROVE  IsFiniteSet(T)
<1> DEFINE g == [x \in S |-> f[x]]
<1>1. g \in Surjection(S, T)
  BY DEF Surjection
<1> HIDE DEF g
<1>2. QED
  BY <1>1, FS_Surjection

Shaped(book) ==
  /\ IsFiniteSet(book)
  /\ \A r \in book : r = [id |-> r.id, owner |-> r.owner, side |-> r.side, qty |-> r.qty,
                          px |-> r.px, at |-> r.at]
SameOrder(r, s) == s.id = r.id /\ s.owner = r.owner /\ s.side = r.side /\ s.px = r.px

\* r is what a submit leaves of the order s of the book, or is the order it rests.
Remains(book, o, s, r) ==
  /\ s \in book \ Swept(book, o) /\ SameOrder(s, r) /\ r.at = s.at
  /\ r.qty = LeftOf(book, o, s) /\ r.qty > 0
Rests(book, o, r) ==
  /\ o.rests /\ r.id = o.id /\ r.owner = o.owner /\ r.side = o.side /\ r.px = o.px
  /\ r.qty = o.qty - Quantity(FillsOf(book, o)) /\ r.qty > 0
  /\ r.at = 1 + Max({0} \cup {s.at : s \in Queue(AfterTaking(book, o), o.side, o.px)})

LEMMA AfterTakingIs ==
  ASSUME NEW book, Shaped(book), NEW o
  PROVE  /\ Shaped(AfterTaking(book, o))
         /\ \A r \in AfterTaking(book, o) : \E s \in book : Remains(book, o, s, r)
         /\ \A s \in book \ Swept(book, o) : LeftOf(book, o, s) > 0 =>
              \E r \in AfterTaking(book, o) : Remains(book, o, s, r)
<1> DEFINE kept == {s \in book \ Swept(book, o) : LeftOf(book, o, s) > 0}
           cut(r) == [r EXCEPT !.qty = LeftOf(book, o, r)]
<1>1. AfterTaking(book, o) = {cut(r) : r \in kept}
  BY DEF AfterTaking
<1>2. IsFiniteSet(kept)
  BY FS_Subset DEF Shaped
<1>3. ASSUME NEW s \in kept
      PROVE  /\ Remains(book, o, s, cut(s))
             /\ cut(s) = [id |-> cut(s).id, owner |-> cut(s).owner, side |-> cut(s).side,
                          qty |-> cut(s).qty, px |-> cut(s).px, at |-> cut(s).at]
  <2>1. s \in book \ Swept(book, o) /\ LeftOf(book, o, s) > 0
    OBVIOUS
  <2>2. PICK left : left = LeftOf(book, o, s)
    OBVIOUS
  <2>3. cut(s) = [id |-> s.id, owner |-> s.owner, side |-> s.side, qty |-> left,
                  px |-> s.px, at |-> s.at]
    BY <2>1, <2>2 DEF Shaped
  <2> HIDE DEF kept, cut
  <2>4. QED
    BY <2>1, <2>2, <2>3 DEF Remains, SameOrder
<1> HIDE DEF kept, cut
<1>4. IsFiniteSet({cut(r) : r \in kept})
  <2> DEFINE f == [r \in kept |-> cut(r)]
             T == {f[r] : r \in kept}
  <2>1. T = {cut(r) : r \in kept}
    OBVIOUS
  <2> HIDE DEF f
  <2>2. IsFiniteSet(T)
    BY <1>2, ValuesFinite
  <2>3. QED
    BY <2>1, <2>2
<1>5. Shaped(AfterTaking(book, o))
  BY <1>1, <1>3, <1>4 DEF Shaped
<1>6. \A r \in AfterTaking(book, o) : \E s \in book : Remains(book, o, s, r)
  BY <1>1, <1>3 DEF Remains
<1>7. \A s \in book \ Swept(book, o) : LeftOf(book, o, s) > 0 =>
        \E r \in AfterTaking(book, o) : Remains(book, o, s, r)
  BY <1>1, <1>3 DEF kept
<1>8. QED
  BY <1>5, <1>6, <1>7

LEMMA SubmittedBook ==
  ASSUME NEW book, Shaped(book), NEW o, NEW b, b = Submitted(book, o).book
  PROVE  /\ Shaped(b)
         /\ \A r \in b : \/ \E s \in book : Remains(book, o, s, r)
                         \/ Rests(book, o, r)
         /\ \A s \in book \ Swept(book, o) : LeftOf(book, o, s) > 0 =>
              \E r \in b : Remains(book, o, s, r)
         /\ o.rests /\ o.qty - Quantity(FillsOf(book, o)) > 0 => \E r \in b : Rests(book, o, r)
<1>1. PICK left : left = o.qty - Quantity(FillsOf(book, o))
  OBVIOUS
<1>2. PICK after : after = AfterTaking(book, o)
  OBVIOUS
<1>3. b = IF o.rests /\ left > 0 THEN Rested(after, o, left) ELSE after
  BY <1>1, <1>2 DEF Submitted, Outcome
<1>4. /\ Shaped(after)
      /\ \A r \in after : \E s \in book : Remains(book, o, s, r)
      /\ \A s \in book \ Swept(book, o) : LeftOf(book, o, s) > 0 =>
           \E r \in after : Remains(book, o, s, r)
  BY <1>2, AfterTakingIs
<1>5. CASE o.rests /\ left > 0
  <2>1. PICK last : last = 1 + Max({0} \cup {r.at : r \in Queue(after, o.side, o.px)})
    OBVIOUS
  <2>2. PICK new : new = [id |-> o.id, owner |-> o.owner, side |-> o.side, qty |-> left,
                          px |-> o.px, at |-> last]
    OBVIOUS
  <2>3. b = after \cup {new}
    BY <1>3, <1>5, <2>1, <2>2 DEF Rested
  <2>4. Rests(book, o, new)
    BY <1>1, <1>2, <1>5, <2>1, <2>2 DEF Rests
  <2>5. IsFiniteSet(b)
    BY <1>4, <2>3, FS_AddElement DEF Shaped
  <2>6. new = [id |-> new.id, owner |-> new.owner, side |-> new.side, qty |-> new.qty,
               px |-> new.px, at |-> new.at]
    BY <2>2
  <2>7. Shaped(b)
    BY <1>4, <2>3, <2>5, <2>6 DEF Shaped
  <2>8. QED
    BY <1>4, <2>3, <2>4, <2>7
<1>6. CASE ~(o.rests /\ left > 0)
  BY <1>1, <1>3, <1>4, <1>6
<1>7. QED
  BY <1>5, <1>6

\* A fill of a submit: who took how much of what.
FillFor(book, o, r, f) ==
  /\ f.maker = r.id /\ f.makerOwner = r.owner /\ f.taker = o.id /\ f.takerOwner = o.owner
  /\ f.side = o.side /\ f.qty = Taken(book, o, r)

LEMMA SubmittedFills ==
  ASSUME NEW book, Shaped(book), NEW o, NEW fills, fills = Submitted(book, o).fills
  PROVE  /\ fills = FillsOf(book, o) /\ IsFiniteSet(fills)
         /\ \A f \in fills : \E r \in Hit(book, o) : FillFor(book, o, r, f)
         /\ \A r \in Hit(book, o) : \E f \in fills : FillFor(book, o, r, f)
<1> DEFINE fill(r) ==
      [nth |-> 1 + Cardinality({s \in Hit(book, o) : Before(s, r)}),
       maker |-> r.id, makerOwner |-> r.owner, taker |-> o.id, takerOwner |-> o.owner,
       side |-> o.side, qty |-> Taken(book, o, r)]
<1>1. fills = FillsOf(book, o) /\ fills = {fill(r) : r \in Hit(book, o)}
  BY DEF Submitted, Outcome, FillsOf
<1>2. IsFiniteSet(Hit(book, o))
  BY FS_Subset DEF Hit, Reached, Met, Shaped
<1>3. \A r \in Hit(book, o) : FillFor(book, o, r, fill(r))
  BY DEF FillFor
<1> HIDE DEF fill
<1>4. IsFiniteSet({fill(r) : r \in Hit(book, o)})
  <2> DEFINE S == Hit(book, o)
             g == [r \in S |-> fill(r)]
             T == {g[r] : r \in S}
  <2>1. T = {fill(r) : r \in Hit(book, o)}
    OBVIOUS
  <2> HIDE DEF g, S
  <2>2. IsFiniteSet(S)
    BY <1>2 DEF S
  <2>3. IsFiniteSet(T)
    BY <2>2, ValuesFinite
  <2>4. QED
    BY <2>1, <2>3
<1>5. QED
  BY <1>1, <1>3, <1>4

LEMMA ReachedAre ==
  ASSUME NEW book, NEW o
  PROVE  /\ Hit(book, o) \subseteq Reached(book, o) /\ Reached(book, o) \subseteq Met(book, o)
         /\ Met(book, o) \subseteq book /\ Swept(book, o) \subseteq Resting(book, o.owner)
         /\ \A r \in Hit(book, o) : r.owner # o.owner
BY DEF Hit, Reached, Met, Swept, Resting

LEMMA LeftIs ==
  ASSUME NEW book, NEW o, NEW r
  PROVE  LeftOf(book, o, r) = r.qty - IF r \in Hit(book, o) THEN Taken(book, o, r) ELSE 0
BY DEF LeftOf, Trades, Hit, Reached

LEMMA WithoutIs ==
  ASSUME NEW book, Shaped(book), NEW ids
  PROVE  Shaped(Without(book, ids)) /\ Without(book, ids) \subseteq book
BY FS_Subset DEF Without, Shaped

-------------------------------------------------------------------------------
(* Venue: the calls of refresh_quotes                                          *)

CancelOf(id) == [op |-> "cancel", id |-> id]
SubmitOf(o) == [op |-> "submit", order |-> o]
MadeIf(p, condition, c) == IF condition THEN Made(p, c) ELSE p
BidOf(m, desk, bidPx, size) == Order(NewBid(m, desk), m, "buy", size, bidPx, TRUE)
AskOf(m, desk, askPx, size) == Order(NewAsk(m, desk), m, "sell", size, askPx, TRUE)

\* The calls that come before the new quotes, the quotes, and those after them.
Cleared(p, desk, bidPx, askPx) ==
  MadeIf(MadeIf(p, CrossesAsk(desk, bidPx), CancelOf(desk.ask)),
         CrossesBid(desk, askPx), CancelOf(desk.bid))
Posted(p, m, desk, bidPx, askPx, size) ==
  MadeIf(MadeIf(p, QuotesBid(desk), SubmitOf(BidOf(m, desk, bidPx, size))),
         QuotesAsk(desk), SubmitOf(AskOf(m, desk, askPx, size)))
Dropping(p, desk, bidPx, askPx) ==
  MadeIf(MadeIf(p, desk.bid # None /\ ~CrossesBid(desk, askPx), CancelOf(desk.bid)),
         desk.ask # None /\ ~CrossesAsk(desk, bidPx), CancelOf(desk.ask))

LEMMA QuotesPlayed ==
  ASSUME NEW book, NEW m, NEW desk, NEW bidPx, NEW askPx, NEW size
  PROVE  Played(book, QuoteCalls(m, desk, bidPx, askPx, size)) =
           Dropping(Posted(Cleared(Fresh(book), desk, bidPx, askPx), m, desk, bidPx, askPx, size),
                    desk, bidPx, askPx)
<1> DEFINE c1 == CancelOf(desk.ask)
           c2 == CancelOf(desk.bid)
           c3 == SubmitOf(BidOf(m, desk, bidPx, size))
           c4 == SubmitOf(AskOf(m, desk, askPx, size))
           C == {c1, c2, c3, c4}
           b1 == CrossesAsk(desk, bidPx)
           b2 == CrossesBid(desk, askPx)
           b3 == QuotesBid(desk)
           b4 == QuotesAsk(desk)
           b5 == desk.bid # None /\ ~b2
           b6 == desk.ask # None /\ ~b1
           s1 == When(b1, c1)
           s2 == s1 \o When(b2, c2)
           s3 == s2 \o When(b3, c3)
           s4 == s3 \o When(b4, c4)
           s5 == s4 \o When(b5, c2)
           s6 == s5 \o When(b6, c1)
           P(s) == Played(book, s)
<1>1. QuoteCalls(m, desk, bidPx, askPx, size) = s6
  BY DEF QuoteCalls, CancelOf, SubmitOf, BidOf, AskOf
<1>2. /\ b1 \in BOOLEAN /\ b2 \in BOOLEAN /\ b3 \in BOOLEAN /\ b4 \in BOOLEAN
      /\ b5 \in BOOLEAN /\ b6 \in BOOLEAN
  BY DEF CrossesAsk, CrossesBid, QuotesBid, QuotesAsk
<1>3. c1 \in C /\ c2 \in C /\ c3 \in C /\ c4 \in C /\ <<>> \in Seq(C)
  OBVIOUS
<1> HIDE DEF C, c1, c2, c3, c4, b1, b2, b3, b4, b5, b6
<1>4. /\ s1 = IF b1 THEN Append(<<>>, c1) ELSE <<>>
      /\ \A s \in Seq(C), c \in C : s \o <<c>> = Append(s, c) /\ s \o <<>> = s
  BY DEF When
<1> HIDE DEF s1
<1>5. s1 \in Seq(C) /\ P(s1) = MadeIf(Fresh(book), b1, c1)
  <2>1. P(Append(<<>>, c1)) = Made(P(<<>>), c1)
    BY <1>3, OneMorePlayed
  <2>2. P(<<>>) = Fresh(book)
    BY NonePlayed
  <2> HIDE DEF P
  <2>3. QED
    BY <1>3, <1>4, <2>1, <2>2 DEF MadeIf
<1>6. s2 \in Seq(C) /\ P(s2) = MadeIf(P(s1), b2, c2)
  <2>1. s2 = IF b2 THEN Append(s1, c2) ELSE s1
    BY <1>3, <1>4, <1>5 DEF When
  <2> HIDE DEF s2
  <2>2. QED
    BY <1>3, <1>5, <2>1, OneMorePlayed DEF MadeIf
<1> HIDE DEF s2
<1>7. s3 \in Seq(C) /\ P(s3) = MadeIf(P(s2), b3, c3)
  <2>1. s3 = IF b3 THEN Append(s2, c3) ELSE s2
    BY <1>3, <1>4, <1>6 DEF When
  <2> HIDE DEF s3
  <2>2. QED
    BY <1>3, <1>6, <2>1, OneMorePlayed DEF MadeIf
<1> HIDE DEF s3
<1>8. s4 \in Seq(C) /\ P(s4) = MadeIf(P(s3), b4, c4)
  <2>1. s4 = IF b4 THEN Append(s3, c4) ELSE s3
    BY <1>3, <1>4, <1>7 DEF When
  <2> HIDE DEF s4
  <2>2. QED
    BY <1>3, <1>7, <2>1, OneMorePlayed DEF MadeIf
<1> HIDE DEF s4
<1>9. s5 \in Seq(C) /\ P(s5) = MadeIf(P(s4), b5, c2)
  <2>1. s5 = IF b5 THEN Append(s4, c2) ELSE s4
    BY <1>3, <1>4, <1>8 DEF When
  <2> HIDE DEF s5
  <2>2. QED
    BY <1>3, <1>8, <2>1, OneMorePlayed DEF MadeIf
<1> HIDE DEF s5
<1>10. s6 \in Seq(C) /\ P(s6) = MadeIf(P(s5), b6, c1)
  <2>1. s6 = IF b6 THEN Append(s5, c1) ELSE s5
    BY <1>3, <1>4, <1>9 DEF When
  <2> HIDE DEF s6
  <2>2. QED
    BY <1>3, <1>9, <2>1, OneMorePlayed DEF MadeIf
<1> HIDE DEF s6
<1> HIDE DEF P
<1>11. P(s2) = Cleared(Fresh(book), desk, bidPx, askPx)
  BY <1>5, <1>6 DEF Cleared, b1, b2, c1, c2
<1>12. P(s4) = Posted(P(s2), m, desk, bidPx, askPx, size)
  BY <1>7, <1>8 DEF Posted, b3, b4, c3, c4
<1>13. P(s6) = Dropping(P(s4), desk, bidPx, askPx)
  BY <1>9, <1>10 DEF Dropping, b1, b2, b5, b6, c1, c2
<1>14. QED
  BY <1>1, <1>11, <1>12, <1>13 DEF P

\* What is known of an order of the maker in the book while it renews its quotes.
Known(r, K, m, desk, bidPx, askPx) ==
  \/ "old bid" \in K /\ r.id = desk.bid /\ r.side = "buy" /\ r.px = desk.bidPx
  \/ "old ask" \in K /\ r.id = desk.ask /\ r.side = "sell" /\ r.px = desk.askPx
  \/ "new bid" \in K /\ r.id = NewBid(m, desk) /\ r.side = "buy" /\ r.px = bidPx
  \/ "new ask" \in K /\ r.id = NewAsk(m, desk) /\ r.side = "sell" /\ r.px = askPx
Renewing(p, book, K, m, desk, bidPx, askPx) ==
  /\ Shaped(p.book) /\ IsFiniteSet(p.fills) /\ p.swept = {}
  /\ \A r \in p.book : r.owner = m => Known(r, K, m, desk, bidPx, askPx)
  /\ \A r \in p.book : r.owner # m => \E s \in book : SameOrder(s, r)

\* A new quote that would meet none of the maker's own sweeps none.
LEMMA RenewingSubmits ==
  ASSUME NEW p, NEW book, NEW K, NEW m, NEW desk, NEW bidPx, NEW askPx,
         Renewing(p, book, K, m, desk, bidPx, askPx), NEW o, o.owner = m,
         \A r \in Met(p.book, o) : r.owner # m,
         NEW J, K \subseteq J,
         \A r : Rests(p.book, o, r) => Known(r, J, m, desk, bidPx, askPx)
  PROVE  Renewing(Made(p, SubmitOf(o)), book, J, m, desk, bidPx, askPx)
<1> DEFINE q == Made(p, SubmitOf(o))
<1>1. /\ q.book = Submitted(p.book, o).book /\ q.fills = p.fills \cup Submitted(p.book, o).fills
      /\ q.swept = p.swept \cup Submitted(p.book, o).swept
  BY DEF Made, FollowedBy, Called, SubmitOf
<1>2. Shaped(p.book) /\ IsFiniteSet(p.fills) /\ p.swept = {}
  BY DEF Renewing
<1>3. /\ Shaped(q.book)
      /\ \A r \in q.book : (\E s \in p.book : Remains(p.book, o, s, r)) \/ Rests(p.book, o, r)
  BY <1>1, <1>2, SubmittedBook
<1>4. IsFiniteSet(q.fills)
  <2>1. PICK fills : fills = Submitted(p.book, o).fills
    OBVIOUS
  <2>2. IsFiniteSet(fills)
    BY <1>2, <2>1, SubmittedFills
  <2>3. IsFiniteSet(p.fills \cup fills)
    BY <1>2, <2>2, FS_Union
  <2>4. QED
    BY <1>1, <2>1, <2>3
<1>5. q.swept = {}
  <2>1. Swept(p.book, o) = {}
    <3>1. \A r \in Reached(p.book, o) : r.owner # o.owner
      BY ReachedAre
    <3>2. QED
      BY <3>1 DEF Swept
  <2>2. Submitted(p.book, o).swept = {}
    BY <2>1 DEF Submitted, Outcome
  <2>3. QED
    BY <1>1, <1>2, <2>2
<1> HIDE DEF q
<1>6. ASSUME NEW r \in q.book, r.owner = m PROVE Known(r, J, m, desk, bidPx, askPx)
  <2>1. CASE Rests(p.book, o, r)
    BY <2>1
  <2>2. CASE \E s \in p.book : Remains(p.book, o, s, r)
    <3>1. PICK s \in p.book : SameOrder(s, r)
      BY <2>2 DEF Remains
    <3>2. Known(s, K, m, desk, bidPx, askPx)
      BY <1>6, <3>1 DEF Renewing, SameOrder
    <3>3. QED
      BY <3>1, <3>2 DEF Known, SameOrder
  <2>3. QED
    BY <1>3, <2>1, <2>2
<1>7. ASSUME NEW r \in q.book, r.owner # m PROVE \E s \in book : SameOrder(s, r)
  <2>1. PICK t \in p.book : SameOrder(t, r)
    BY <1>3, <1>7 DEF Remains, Rests
  <2>2. QED
    BY <1>7, <2>1 DEF Renewing, SameOrder
<1>8. QED
  BY <1>3, <1>4, <1>5, <1>6, <1>7 DEF Renewing, q

LEMMA RenewingCancels ==
  ASSUME NEW p, NEW book, NEW K, NEW m, NEW desk, NEW bidPx, NEW askPx,
         Renewing(p, book, K, m, desk, bidPx, askPx), NEW id,
         NEW J, \A r \in p.book : r.id # id /\ Known(r, K, m, desk, bidPx, askPx) =>
                  Known(r, J, m, desk, bidPx, askPx)
  PROVE  Renewing(Made(p, CancelOf(id)), book, J, m, desk, bidPx, askPx)
<1> DEFINE q == Made(p, CancelOf(id))
<1>1. q.book = Without(p.book, {id}) /\ q.fills = p.fills /\ q.swept = p.swept
  BY DEF Made, FollowedBy, Called, CancelOf
<1>2. Shaped(q.book) /\ q.book \subseteq p.book /\ \A r \in q.book : r.id # id
  <2>1. Shaped(p.book)
    BY DEF Renewing
  <2>2. Shaped(Without(p.book, {id})) /\ Without(p.book, {id}) \subseteq p.book
    BY <2>1, WithoutIs
  <2>3. \A r \in Without(p.book, {id}) : r.id # id
    BY DEF Without
  <2>4. QED
    BY <1>1, <2>2, <2>3
<1> HIDE DEF q
<1>3. QED
  BY <1>1, <1>2 DEF Renewing, q

PricesAre(desk, bidPx, askPx) ==
  /\ bidPx \in Int /\ askPx \in Int /\ bidPx < askPx
  /\ desk.bidPx \in Int /\ desk.askPx \in Int

\* All that a maker has in the book are the quotes it remembers.
OwnOrders(book, m, desk) ==
  \A r \in book : r.owner = m =>
    \/ desk.bid # None /\ r.id = desk.bid /\ r.side = "buy" /\ r.px = desk.bidPx
    \/ desk.ask # None /\ r.id = desk.ask /\ r.side = "sell" /\ r.px = desk.askPx
NewQuotes(desk) ==
  {k \in {"new bid", "new ask"} : IF k = "new bid" THEN QuotesBid(desk) ELSE QuotesAsk(desk)}

LEMMA QuotesNotCrossed ==
  ASSUME NEW desk, NEW bidPx, NEW askPx, PricesAre(desk, bidPx, askPx)
  PROVE  /\ desk.ask # None /\ ~CrossesAsk(desk, bidPx) => bidPx < desk.askPx
         /\ desk.bid # None /\ ~CrossesBid(desk, askPx) => askPx > desk.bidPx
<1>1. CASE bidPx >= desk.askPx
  BY <1>1 DEF CrossesAsk, CrossesBid, PricesAre
<1>2. CASE askPx <= desk.bidPx
  BY <1>2 DEF CrossesAsk, CrossesBid, PricesAre
<1>3. QED
  BY <1>1, <1>2 DEF PricesAre

\* So nothing but the new quotes is left, and the maker never met itself.
LEMMA QuotesRenewed ==
  ASSUME NEW book, Shaped(book), NEW m, NEW desk,
         NEW bidPx, NEW askPx, PricesAre(desk, bidPx, askPx),
         OwnOrders(book, m, desk),
         NEW size, NEW p, p = Played(book, QuoteCalls(m, desk, bidPx, askPx, size))
  PROVE  Renewing(p, book, NewQuotes(desk), m, desk, bidPx, askPx)
<1>0. Played(book, QuoteCalls(m, desk, bidPx, askPx, size)) =
        Dropping(Posted(Cleared(Fresh(book), desk, bidPx, askPx), m, desk, bidPx, askPx, size),
                 desk, bidPx, askPx)
  BY QuotesPlayed
<1> DEFINE K == NewQuotes(desk)
           R(q, J) == Renewing(q, book, J, m, desk, bidPx, askPx)
           K0 == {k \in {"old bid", "old ask"} :
                    IF k = "old bid" THEN desk.bid # None ELSE desk.ask # None}
           K1 == {k \in K0 : k = "old ask" => ~CrossesAsk(desk, bidPx)}
           K2 == {k \in K1 : k = "old bid" => ~CrossesBid(desk, askPx)}
           K3 == K2 \cup {k \in {"new bid"} : QuotesBid(desk)}
           K4 == K3 \cup {k \in {"new ask"} : QuotesAsk(desk)}
           K5 == K4 \ {"old bid"}
           p0 == Fresh(book)
           p1 == MadeIf(p0, CrossesAsk(desk, bidPx), CancelOf(desk.ask))
           p2 == MadeIf(p1, CrossesBid(desk, askPx), CancelOf(desk.bid))
           p3 == MadeIf(p2, QuotesBid(desk), SubmitOf(BidOf(m, desk, bidPx, size)))
           p4 == MadeIf(p3, QuotesAsk(desk), SubmitOf(AskOf(m, desk, askPx, size)))
           p5 == MadeIf(p4, desk.bid # None /\ ~CrossesBid(desk, askPx), CancelOf(desk.bid))
           p6 == MadeIf(p5, desk.ask # None /\ ~CrossesAsk(desk, bidPx), CancelOf(desk.ask))
<1>1. p = p6
  <2>1. p2 = Cleared(p0, desk, bidPx, askPx)
    BY DEF Cleared
  <2>2. p4 = Posted(p2, m, desk, bidPx, askPx, size)
    BY DEF Posted
  <2>3. p6 = Dropping(p4, desk, bidPx, askPx)
    BY DEF Dropping
  <2> HIDE DEF p2, p4, p6
  <2>4. QED
    BY <1>0, <2>1, <2>2, <2>3
<1>2. R(p0, K0)
  <2>1. p0.book = book /\ p0.fills = {} /\ p0.swept = {}
    BY DEF Fresh
  <2>2. \A r \in p0.book : r.owner = m => Known(r, K0, m, desk, bidPx, askPx)
    BY <2>1 DEF Known, OwnOrders
  <2>3. \A r \in p0.book : r.owner # m => \E s \in book : SameOrder(s, r)
    BY <2>1 DEF SameOrder
  <2>4. QED
    BY <2>1, <2>2, <2>3, FS_EmptySet DEF Renewing
<1>3. /\ desk.ask # None /\ ~CrossesAsk(desk, bidPx) => bidPx < desk.askPx
      /\ desk.bid # None /\ ~CrossesBid(desk, askPx) => askPx > desk.bidPx
  BY QuotesNotCrossed
<1> HIDE DEF p0
<1>4. R(p1, K1)
  <2>1. CASE CrossesAsk(desk, bidPx)
    <3>1. \A r \in p0.book : r.id # desk.ask /\ Known(r, K0, m, desk, bidPx, askPx) =>
            Known(r, K1, m, desk, bidPx, askPx)
      BY DEF Known
    <3>2. QED
      BY <1>2, <2>1, <3>1, RenewingCancels DEF MadeIf
  <2>2. CASE ~CrossesAsk(desk, bidPx)
    <3>1. K1 = K0 /\ p1 = p0
      BY <2>2 DEF MadeIf
    <3>2. QED
      BY <1>2, <3>1
  <2>3. QED
    BY <2>1, <2>2
<1> HIDE DEF p1
<1>5. R(p2, K2)
  <2>1. CASE CrossesBid(desk, askPx)
    <3>1. \A r \in p1.book : r.id # desk.bid /\ Known(r, K1, m, desk, bidPx, askPx) =>
            Known(r, K2, m, desk, bidPx, askPx)
      BY DEF Known
    <3>2. QED
      BY <1>4, <2>1, <3>1, RenewingCancels DEF MadeIf
  <2>2. CASE ~CrossesBid(desk, askPx)
    <3>1. K2 = K1 /\ p2 = p1
      BY <2>2 DEF MadeIf
    <3>2. QED
      BY <1>4, <3>1
  <2>3. QED
    BY <2>1, <2>2
<1> HIDE DEF p2
<1>6. /\ "old ask" \in K2 => bidPx < desk.askPx
      /\ "old bid" \in K2 => askPx > desk.bidPx
      /\ "new ask" \notin K2 /\ "new bid" \notin K2
  <2>1. "old ask" \in K2 => desk.ask # None /\ ~CrossesAsk(desk, bidPx)
    OBVIOUS
  <2>2. "old bid" \in K2 => desk.bid # None /\ ~CrossesBid(desk, askPx)
    OBVIOUS
  <2>3. "new ask" \notin K2 /\ "new bid" \notin K2
    OBVIOUS
  <2> HIDE DEF K2
  <2>4. QED
    BY <1>3, <2>1, <2>2, <2>3
<1>7. R(p3, K3)
  <2> DEFINE o == BidOf(m, desk, bidPx, size)
  <2>1. CASE QuotesBid(desk)
    <3>1. /\ o.owner = m /\ o.side = "buy" /\ o.px = bidPx /\ o.id = NewBid(m, desk)
      BY DEF BidOf, Order
    <3> HIDE DEF o
    <3>2. ASSUME NEW r \in Met(p2.book, o) PROVE r.owner # m
      <4>1. r \in p2.book /\ r.side # "buy" /\ ~Better(r.side, bidPx, r.px)
        BY <3>1 DEF Met
      <4>2. SUFFICES ASSUME r.owner = m PROVE FALSE
        OBVIOUS
      <4>3. Known(r, K2, m, desk, bidPx, askPx)
        BY <1>5, <4>1, <4>2 DEF Renewing
      <4>4. r.side = "sell" /\ r.px = desk.askPx /\ bidPx < desk.askPx
        BY <1>6, <4>1, <4>3 DEF Known
      <4>5. QED
        BY <4>1, <4>4 DEF Better, PricesAre
    <3>3. \A r : Rests(p2.book, o, r) => Known(r, K3, m, desk, bidPx, askPx)
      BY <2>1, <3>1 DEF Rests, Known
    <3>4. K2 \subseteq K3
      OBVIOUS
    <3> HIDE DEF K2, K3
    <3>5. R(Made(p2, SubmitOf(o)), K3)
      BY <1>5, <3>1, <3>2, <3>3, <3>4, RenewingSubmits
    <3>6. QED
      BY <2>1, <3>5 DEF MadeIf, o
  <2>2. CASE ~QuotesBid(desk)
    <3>1. K3 = K2 /\ p3 = p2
      BY <2>2 DEF MadeIf
    <3>2. QED
      BY <1>5, <3>1
  <2>3. QED
    BY <2>1, <2>2
<1> HIDE DEF p3
<1>8. /\ "old bid" \in K3 => askPx > desk.bidPx
      /\ "new ask" \notin K3
  BY <1>6
<1>9. R(p4, K4)
  <2> DEFINE o == AskOf(m, desk, askPx, size)
  <2>1. CASE QuotesAsk(desk)
    <3>1. /\ o.owner = m /\ o.side = "sell" /\ o.px = askPx /\ o.id = NewAsk(m, desk)
      BY DEF AskOf, Order
    <3> HIDE DEF o
    <3>2. ASSUME NEW r \in Met(p3.book, o) PROVE r.owner # m
      <4>1. r \in p3.book /\ r.side # "sell" /\ ~Better(r.side, askPx, r.px)
        BY <3>1 DEF Met
      <4>2. SUFFICES ASSUME r.owner = m PROVE FALSE
        OBVIOUS
      <4>3. Known(r, K3, m, desk, bidPx, askPx)
        BY <1>7, <4>1, <4>2 DEF Renewing
      <4>4. /\ r.side = "buy"
            /\ \/ r.px = desk.bidPx /\ askPx > desk.bidPx
               \/ r.px = bidPx
        BY <1>8, <4>1, <4>3 DEF Known
      <4>5. QED
        BY <4>1, <4>4 DEF Better, PricesAre
    <3>3. \A r : Rests(p3.book, o, r) => Known(r, K4, m, desk, bidPx, askPx)
      BY <2>1, <3>1 DEF Rests, Known
    <3>4. K3 \subseteq K4
      OBVIOUS
    <3> HIDE DEF K3, K4
    <3>5. R(Made(p3, SubmitOf(o)), K4)
      BY <1>7, <3>1, <3>2, <3>3, <3>4, RenewingSubmits
    <3>6. QED
      BY <2>1, <3>5 DEF MadeIf, o
  <2>2. CASE ~QuotesAsk(desk)
    <3>1. K4 = K3 /\ p4 = p3
      BY <2>2 DEF MadeIf
    <3>2. QED
      BY <1>7, <3>1
  <2>3. QED
    BY <2>1, <2>2
<1> HIDE DEF p4
<1>10. R(p5, K5)
  <2>1. CASE desk.bid # None /\ ~CrossesBid(desk, askPx)
    <3>1. \A r \in p4.book : r.id # desk.bid /\ Known(r, K4, m, desk, bidPx, askPx) =>
            Known(r, K5, m, desk, bidPx, askPx)
      BY DEF Known
    <3>2. QED
      BY <1>9, <2>1, <3>1, RenewingCancels DEF MadeIf
  <2>2. CASE ~(desk.bid # None /\ ~CrossesBid(desk, askPx))
    <3>1. "old bid" \notin K4
      BY <2>2
    <3>2. K5 = K4 /\ p5 = p4
      BY <2>2, <3>1 DEF MadeIf
    <3>3. QED
      BY <1>9, <3>2
  <2>3. QED
    BY <2>1, <2>2
<1> HIDE DEF p5
<1>11. K = K5 \ {"old ask"}
  BY DEF NewQuotes
<1>12. R(p6, K)
  <2>1. CASE desk.ask # None /\ ~CrossesAsk(desk, bidPx)
    <3>1. \A r \in p5.book : r.id # desk.ask /\ Known(r, K5, m, desk, bidPx, askPx) =>
            Known(r, K, m, desk, bidPx, askPx)
      BY <1>11 DEF Known
    <3>2. QED
      BY <1>10, <2>1, <3>1, RenewingCancels DEF MadeIf
  <2>2. CASE ~(desk.ask # None /\ ~CrossesAsk(desk, bidPx))
    <3>1. "old ask" \notin K5
      BY <2>2
    <3>2. K = K5 /\ p6 = p5
      BY <1>11, <2>2, <3>1 DEF MadeIf
    <3>3. QED
      BY <1>10, <3>2
  <2>3. QED
    BY <2>1, <2>2
<1>13. QED
  BY <1>1, <1>12

-------------------------------------------------------------------------------
(* Venue: what a submit does to the orders of those who watch theirs           *)

Sized(book) == \A r \in book : r.qty \in Nat \ {0}
Named(book) == \A r \in book : r.id[1] = r.owner
Sound(book) == Shaped(book) /\ Sized(book) /\ Named(book)

\* No order has the id of another's in V.
Unique(book, V) == \A r, s \in book : r.owner \in V /\ r.id = s.id => r = s

\* How much the fills take of the order with that id.
Lost(fills, id) == Quantity({f \in fills : f.maker = id})

LEMMA QuantityIsTotal ==
  ASSUME NEW S
  PROVE  Quantity(S) = Total([r \in S |-> r.qty], S)
BY DEF Quantity, SumFunctionOnSet, FoldFunctionOnSet, Total, MapThenSumSet

LEMMA QuantityIn ==
  ASSUME NEW S, IsFiniteSet(S), \A r \in S : r.qty \in Int
  PROVE  /\ Quantity(S) \in Int
         /\ (\A r \in S : r.qty \in Nat) => Quantity(S) \in Nat
<1> DEFINE g == [r \in S |-> r.qty]
<1>1. Quantity(S) = Total(g, S)
  BY QuantityIsTotal
<1>2. \A r \in S : g[r] = r.qty
  OBVIOUS
<1> HIDE DEF g
<1>3. QED
  BY <1>1, <1>2, TotalType, TotalNat

LEMMA QuantityOfNone == Quantity({}) = 0
BY QuantityIsTotal, TotalEmpty

LEMMA QuantityOfOne ==
  ASSUME NEW x, x.qty \in Int
  PROVE  Quantity({x}) = x.qty
<1> DEFINE S == {x}
           g == [r \in S |-> r.qty]
<1>1. Quantity(S) = Total(g, S) /\ g[x] = x.qty
  BY QuantityIsTotal
<1>2. Total(g, {} \cup {x}) = g[x] + Total(g, {})
  <2> HIDE DEF g
  <2>1. g[x] \in Int
    BY <1>1
  <2>2. QED
    BY <2>1, FS_EmptySet, TotalAdd
<1> HIDE DEF g
<1>3. Total(g, {}) = 0 /\ {} \cup {x} = S
  BY TotalEmpty
<1>4. QED
  BY <1>1, <1>2, <1>3

\* An order is taken from as far as it and the taker's go.
LEMMA TakenIs ==
  ASSUME NEW book, Sound(book), NEW o, o.qty \in Nat \ {0}
  PROVE  /\ \A r \in Hit(book, o) :
              Taken(book, o, r) \in Nat \ {0} /\ Taken(book, o, r) <= r.qty
         /\ \A r \in book : LeftOf(book, o, r) \in Nat /\ LeftOf(book, o, r) <= r.qty
<1>1. ASSUME NEW r \in Hit(book, o)
      PROVE  Taken(book, o, r) \in Nat \ {0} /\ Taken(book, o, r) <= r.qty
  <2>1. r \in book /\ Ahead(book, o, r) < o.qty
    BY ReachedAre DEF Hit, Reached
  <2>2. Ahead(book, o, r) \in Int
    <3> DEFINE S == {s \in Met(book, o) : s.owner # o.owner /\ Before(s, r)}
    <3>1. S \subseteq book
      BY ReachedAre
    <3> HIDE DEF S
    <3>2. IsFiniteSet(S) /\ \A s \in S : s.qty \in Int
      BY <3>1, FS_Subset DEF Sound, Shaped, Sized
    <3>3. Quantity(S) \in Int
      BY <3>2, QuantityIn
    <3>4. QED
      BY <3>3 DEF Ahead, S
  <2>3. PICK a \in Int : a = o.qty - Ahead(book, o, r)
    BY <2>2
  <2>4. PICK b \in Int : b = r.qty
    BY <2>1 DEF Sound, Sized
  <2>5. Taken(book, o, r) = Min({b, a}) /\ a > 0 /\ b > 0
    BY <2>1, <2>2, <2>3, <2>4 DEF Taken, Sound, Sized
  <2>6. Min({b, a}) \in {b, a} /\ Min({b, a}) <= b
    <3>1. \E x \in {b, a} : \A y \in {b, a} : x <= y
      <4>1. CASE a <= b
        BY <4>1
      <4>2. CASE b <= a
        BY <4>2
      <4>3. QED
        BY <4>1, <4>2
    <3>2. QED
      BY <3>1 DEF Min
  <2>7. QED
    BY <2>4, <2>5, <2>6
<1>2. QED
  BY <1>1, LeftIs DEF Sound, Sized

\* What an order of V loses is what the fill that names it took.
LEMMA LostIs ==
  ASSUME NEW book, Sound(book), NEW o, o.qty \in Nat \ {0},
         NEW s \in book, \A r \in book : r.id = s.id => r = s
  PROVE  LeftOf(book, o, s) = s.qty - Lost(FillsOf(book, o), s.id)
<1> DEFINE fill(r) ==
      [nth |-> 1 + Cardinality({q \in Hit(book, o) : Before(q, r)}),
       maker |-> r.id, makerOwner |-> r.owner, taker |-> o.id, takerOwner |-> o.owner,
       side |-> o.side, qty |-> Taken(book, o, r)]
           fills == FillsOf(book, o)
           its == {f \in fills : f.maker = s.id}
<1>1. fills = {fill(r) : r \in Hit(book, o)}
  BY DEF FillsOf
<1>2. \A r : fill(r).maker = r.id /\ fill(r).qty = Taken(book, o, r)
  OBVIOUS
<1>3. Hit(book, o) \subseteq book
  BY ReachedAre
<1>4. Lost(fills, s.id) = Quantity(its)
  BY DEF Lost
<1> HIDE DEF fill, fills
<1>5. CASE s \in Hit(book, o)
  <2>1. its = {fill(s)}
    BY <1>1, <1>2, <1>3, <1>5
  <2>2. fill(s).qty \in Int
    BY <1>2, <1>5, TakenIs
  <2> HIDE DEF its
  <2>3. Quantity(its) = Taken(book, o, s)
    BY <1>2, <2>1, <2>2, QuantityOfOne
  <2>4. QED
    BY <1>4, <1>5, <2>3, LeftIs DEF fills
<1>6. CASE s \notin Hit(book, o)
  <2>1. its = {}
    BY <1>1, <1>2, <1>3, <1>6
  <2>2. Quantity(its) = 0
    BY <2>1, QuantityOfNone
  <2> HIDE DEF its
  <2>3. QED
    BY <1>4, <1>6, <2>2, LeftIs DEF fills
<1>7. QED
  BY <1>5, <1>6

\* The fills of a submit, as those see them whose orders it meets.
FillsAre(fills, book, o) ==
  /\ IsFiniteSet(fills)
  /\ \A f \in fills : /\ f.qty \in Nat \ {0} /\ f.takerOwner = o.owner /\ f.makerOwner # o.owner
                      /\ \E s \in book : f.maker = s.id /\ f.makerOwner = s.owner

\* What it leaves of their orders, but of those that it swept away.
Leaves(b, book, o, fills, removed, V) ==
  /\ \A r \in b : r.owner \in V =>
       \/ \E s \in book : SameOrder(s, r) /\ r.qty = s.qty - Lost(fills, s.id)
       \/ /\ o.rests /\ r.id = o.id /\ r.owner = o.owner
          /\ r.qty = o.qty - Quantity(fills)
  /\ \A s \in book : s.owner \in V /\ s.id \notin removed /\ s.qty - Lost(fills, s.id) > 0 =>
       \E r \in b : SameOrder(s, r) /\ r.qty = s.qty - Lost(fills, s.id)

LEMMA FillsOfSubmit ==
  ASSUME NEW book, Sound(book), NEW o, o.qty \in Nat \ {0},
         NEW fills, fills = Submitted(book, o).fills
  PROVE  FillsAre(fills, book, o) /\ Quantity(fills) \in Nat
         /\ \A id : Lost(fills, id) \in Nat
<1>1. FillsAre(fills, book, o)
  <2>1. /\ IsFiniteSet(fills)
        /\ \A f \in fills : \E r \in Hit(book, o) : FillFor(book, o, r, f)
    BY SubmittedFills DEF Sound
  <2>2. ASSUME NEW f \in fills
        PROVE  /\ f.qty \in Nat \ {0} /\ f.takerOwner = o.owner /\ f.makerOwner # o.owner
               /\ \E s \in book : f.maker = s.id /\ f.makerOwner = s.owner
    <3>1. PICK r \in Hit(book, o) : FillFor(book, o, r, f)
      BY <2>1
    <3>2. r \in book /\ r.owner # o.owner
      BY ReachedAre
    <3>3. Taken(book, o, r) \in Nat \ {0}
      BY TakenIs
    <3>4. QED
      BY <3>1, <3>2, <3>3 DEF FillFor
  <2>3. QED
    BY <2>1, <2>2 DEF FillsAre
<1>2. ASSUME NEW T \in SUBSET fills PROVE Quantity(T) \in Nat
  <2>1. IsFiniteSet(T) /\ \A f \in T : f.qty \in Nat /\ f.qty \in Int
    BY <1>1, FS_Subset DEF FillsAre
  <2>2. QED
    BY <2>1, QuantityIn
<1>3. ASSUME NEW id PROVE Lost(fills, id) \in Nat
  BY <1>2 DEF Lost
<1>4. QED
  BY <1>1, <1>2, <1>3

LEMMA BookOfSubmit ==
  ASSUME NEW book, Sound(book), NEW V, Unique(book, V),
         NEW o, o.qty \in Nat \ {0}, o.id[1] = o.owner,
         \A r \in book : r.owner \in V => r.id # o.id,
         NEW b, b = Submitted(book, o).book, NEW fills, fills = Submitted(book, o).fills,
         NEW removed, removed = Submitted(book, o).swept
  PROVE  /\ Sound(b) /\ Unique(b, V) /\ Leaves(b, book, o, fills, removed, V)
         /\ \A id \in removed : id[1] = o.owner
         /\ o.rests /\ o.qty - Quantity(fills) > 0 =>
              \E r \in b : /\ r.id = o.id /\ r.owner = o.owner
                           /\ r.qty = o.qty - Quantity(fills)
<1>1. /\ Shaped(b)
      /\ \A r \in b : (\E s \in book : Remains(book, o, s, r)) \/ Rests(book, o, r)
      /\ \A s \in book \ Swept(book, o) : LeftOf(book, o, s) > 0 =>
           \E r \in b : Remains(book, o, s, r)
      /\ o.rests /\ o.qty - Quantity(FillsOf(book, o)) > 0 => \E r \in b : Rests(book, o, r)
  BY SubmittedBook DEF Sound
<1>2. fills = FillsOf(book, o)
  BY DEF Submitted, Outcome
<1>3. Quantity(fills) \in Nat
  BY FillsOfSubmit
<1>4. \A s \in book : LeftOf(book, o, s) \in Nat
  BY TakenIs
<1>5. \A s \in book : s.owner \in V => LeftOf(book, o, s) = s.qty - Lost(fills, s.id)
  BY <1>2, LostIs DEF Unique
<1>6. Sized(b)
  <2>1. ASSUME NEW r \in b PROVE r.qty \in Nat \ {0}
    <3>1. CASE \E s \in book : Remains(book, o, s, r)
      BY <1>4, <3>1 DEF Remains
    <3>2. CASE Rests(book, o, r)
      BY <1>2, <1>3, <3>2 DEF Rests
    <3>3. QED
      BY <1>1, <3>1, <3>2
  <2>2. QED
    BY <2>1 DEF Sized
<1>a. \A r : Rests(book, o, r) =>
        /\ o.rests /\ r.id = o.id /\ r.owner = o.owner
        /\ r.qty = o.qty - Quantity(fills)
  BY <1>2 DEF Rests
<1>7. Named(b)
  BY <1>1, <1>a DEF Named, Sound, Remains, SameOrder
<1>8. Unique(b, V)
  <2>1. SUFFICES ASSUME NEW r \in b, NEW t \in b, r.owner \in V, r.id = t.id PROVE r = t
    BY DEF Unique
  <2>2. /\ r = [id |-> r.id, owner |-> r.owner, side |-> r.side, qty |-> r.qty,
                px |-> r.px, at |-> r.at]
        /\ t = [id |-> t.id, owner |-> t.owner, side |-> t.side, qty |-> t.qty,
                px |-> t.px, at |-> t.at]
    BY <1>1 DEF Shaped
  <2>3. CASE Rests(book, o, r)
    <3>1. t.id = o.id
      BY <2>1, <2>3 DEF Rests
    <3>2. ASSUME NEW s \in book, Remains(book, o, s, t) PROVE FALSE
      <4>1. s.id = o.id
        BY <3>1, <3>2 DEF Remains, SameOrder
      <4>2. s.owner = o.owner /\ r.owner = o.owner
        BY <2>3, <4>1 DEF Sound, Named, Rests
      <4>3. QED
        BY <2>1, <4>1, <4>2
    <3>3. Rests(book, o, t)
      BY <1>1, <3>2
    <3>4. /\ r.id = t.id /\ r.owner = t.owner /\ r.side = t.side /\ r.px = t.px /\ r.at = t.at
          /\ r.qty = t.qty
      BY <2>3, <3>3 DEF Rests
    <3>5. QED
      BY <2>2, <3>4
  <2>4. CASE ~Rests(book, o, r)
    <3>1. PICK s \in book : Remains(book, o, s, r)
      BY <1>1, <2>4
    <3>2. ~Rests(book, o, t)
      <4>1. s.id = t.id /\ s.owner \in V
        BY <2>1, <3>1 DEF Remains, SameOrder
      <4>2. QED
        BY <4>1 DEF Rests
    <3>3. PICK u \in book : Remains(book, o, u, t)
      BY <1>1, <3>2
    <3>4. u = s
      BY <2>1, <3>1, <3>3 DEF Unique, Remains, SameOrder
    <3>5. /\ r.id = t.id /\ r.owner = t.owner /\ r.side = t.side /\ r.px = t.px /\ r.at = t.at
          /\ r.qty = t.qty
      BY <3>1, <3>3, <3>4 DEF Remains, SameOrder
    <3>6. QED
      BY <2>2, <3>5
  <2>5. QED
    BY <2>3, <2>4
<1>b. removed = {r.id : r \in Swept(book, o)} /\ \A id \in removed : id[1] = o.owner
  <2>1. removed = {r.id : r \in Swept(book, o)}
    BY DEF Submitted, Outcome
  <2>2. QED
    BY <2>1, ReachedAre DEF Resting, Sound, Named
<1>9. Leaves(b, book, o, fills, removed, V)
  <2>1. ASSUME NEW r \in b, r.owner \in V
        PROVE  \/ \E s \in book : SameOrder(s, r) /\ r.qty = s.qty - Lost(fills, s.id)
               \/ /\ o.rests /\ r.id = o.id /\ r.owner = o.owner
                  /\ r.qty = o.qty - Quantity(fills)
    <3>1. CASE \E s \in book : Remains(book, o, s, r)
      BY <1>5, <2>1, <3>1 DEF Remains, SameOrder
    <3>2. CASE Rests(book, o, r)
      BY <1>2, <3>2 DEF Rests
    <3>3. QED
      BY <1>1, <3>1, <3>2
  <2>2. ASSUME NEW s \in book, s.owner \in V, s.id \notin removed, s.qty - Lost(fills, s.id) > 0
        PROVE  \E r \in b : SameOrder(s, r) /\ r.qty = s.qty - Lost(fills, s.id)
    <3>1. s \notin Swept(book, o)
      BY <2>2, <1>b
    <3>2. QED
      BY <1>1, <1>5, <2>2, <3>1 DEF Remains
  <2>3. QED
    BY <2>1, <2>2 DEF Leaves
<1>10. QED
  BY <1>1, <1>2, <1>6, <1>7, <1>8, <1>9, <1>a, <1>b DEF Sound

-------------------------------------------------------------------------------
(* Venue: what the quotes of a maker do to the orders of those who watch them  *)

Following(p, book, m, V) ==
  /\ p = [book |-> p.book, fills |-> p.fills, swept |-> p.swept]
  /\ Sound(p.book) /\ Unique(p.book, V) /\ IsFiniteSet(p.fills)
  /\ \A f \in p.fills : /\ f.qty \in Nat \ {0} /\ f.takerOwner = m
                        /\ f.makerOwner \in V => \E s \in book : f.maker = s.id /\ f.makerOwner = s.owner
  /\ \A r \in p.book : r.owner \in V => \E s \in book : SameOrder(s, r) /\ r.qty <= s.qty
  /\ \A s \in book : s.owner \in V =>
       \/ \E f \in p.fills : f.maker = s.id
       \/ \E r \in p.book : SameOrder(s, r) /\ r.qty = s.qty

LEMMA FollowingStarts ==
  ASSUME NEW book, Sound(book), NEW V, Unique(book, V), NEW m
  PROVE  Following(Fresh(book), book, m, V)
<1>1. Fresh(book).book = book /\ Fresh(book).fills = {}
  BY DEF Fresh
<1>2. \A s \in book : SameOrder(s, s) /\ s.qty <= s.qty
  BY DEF SameOrder, Sound, Sized
<1>3. Fresh(book) = [book |-> Fresh(book).book, fills |-> Fresh(book).fills,
                    swept |-> Fresh(book).swept]
  BY DEF Fresh
<1>4. QED
  BY <1>1, <1>2, <1>3, FS_EmptySet DEF Following

LEMMA FollowingSubmits ==
  ASSUME NEW p, NEW book, Sound(book), NEW m, NEW V, Following(p, book, m, V), m \notin V,
         NEW o, o.owner = m, o.id[1] = m, o.qty \in Nat \ {0}
  PROVE  Following(Made(p, SubmitOf(o)), book, m, V)
<1>1. PICK q : q = Made(p, SubmitOf(o))
  OBVIOUS
<1>2. PICK b : b = Submitted(p.book, o).book
  OBVIOUS
<1>3. PICK fills : fills = Submitted(p.book, o).fills
  OBVIOUS
<1>4. q.book = b /\ q.fills = p.fills \cup fills
  BY <1>1, <1>2, <1>3 DEF Made, FollowedBy, Called, SubmitOf
<1>5. Sound(p.book) /\ Unique(p.book, V)
  BY DEF Following
<1>s. PICK removed : removed = Submitted(p.book, o).swept
  OBVIOUS
<1>6. /\ Sound(b) /\ Unique(b, V) /\ Leaves(b, p.book, o, fills, removed, V)
      /\ \A id \in removed : id[1] = o.owner
  <2>1. \A r \in p.book : r.owner \in V => r.id # o.id
    BY <1>5 DEF Sound, Named
  <2>2. QED
    BY <1>2, <1>3, <1>5, <1>s, <2>1, BookOfSubmit
<1>7. FillsAre(fills, p.book, o) /\ \A id : Lost(fills, id) \in Nat
  BY <1>3, <1>5, FillsOfSubmit
<1>8. IsFiniteSet(q.fills)
  <2>1. IsFiniteSet(fills) /\ IsFiniteSet(p.fills)
    BY <1>7 DEF Following, FillsAre
  <2>2. QED
    BY <1>4, <2>1, FS_Union
<1>9. ASSUME NEW f \in q.fills
      PROVE  /\ f.qty \in Nat \ {0} /\ f.takerOwner = m
             /\ f.makerOwner \in V => \E s \in book : f.maker = s.id /\ f.makerOwner = s.owner
  <2>1. CASE f \in p.fills
    BY <2>1 DEF Following
  <2>2. CASE f \in fills
    <3>1. /\ f.qty \in Nat \ {0} /\ f.takerOwner = m
          /\ \E s \in p.book : f.maker = s.id /\ f.makerOwner = s.owner
      BY <1>7, <2>2 DEF FillsAre
    <3>2. QED
      BY <3>1 DEF Following, SameOrder
  <2>3. QED
    BY <1>4, <2>1, <2>2
<1>10. ASSUME NEW r \in q.book, r.owner \in V
       PROVE  \E s \in book : SameOrder(s, r) /\ r.qty <= s.qty
  <2>1. PICK t \in p.book : SameOrder(t, r) /\ r.qty = t.qty - Lost(fills, t.id)
    BY <1>4, <1>6, <1>10 DEF Leaves
  <2>2. t.owner \in V
    BY <1>10, <2>1 DEF SameOrder
  <2>3. PICK s \in book : SameOrder(s, t) /\ t.qty <= s.qty
    BY <2>2 DEF Following
  <2>4. SameOrder(s, r)
    BY <2>1, <2>3 DEF SameOrder
  <2>5. r.qty <= s.qty
    <3>1. t.owner \in V /\ SameOrder(t, t)
      BY <2>2 DEF SameOrder
    <3>2. PICK n \in Nat : n = Lost(fills, t.id)
      BY <1>7
    <3>3. t.qty \in Nat /\ r.qty = t.qty - n
      BY <1>5, <2>1, <3>2 DEF Sound, Sized
    <3>4. r.qty <= t.qty
      BY <3>2, <3>3
    <3>5. s.qty \in Nat
      BY DEF Sound, Sized
    <3>6. QED
      BY <2>3, <3>2, <3>3, <3>4, <3>5
  <2>6. QED
    BY <2>4, <2>5
<1>11. ASSUME NEW s \in book, s.owner \in V, \A f \in q.fills : f.maker # s.id
       PROVE  \E r \in q.book : SameOrder(s, r) /\ r.qty = s.qty
  <2>1. PICK t \in p.book : SameOrder(s, t) /\ t.qty = s.qty
    BY <1>4, <1>11 DEF Following
  <2>2. t.owner \in V /\ t.id \notin removed /\ t.id = s.id
    BY <1>5, <1>6, <1>11, <2>1 DEF SameOrder, Sound, Named
  <2>3. Lost(fills, t.id) = 0
    <3>1. {f \in fills : f.maker = t.id} = {}
      BY <1>4, <1>11, <2>2
    <3>2. QED
      BY <3>1, QuantityOfNone DEF Lost
  <2>4. t.qty - Lost(fills, t.id) = t.qty /\ t.qty > 0
    BY <1>5, <2>3 DEF Sound, Sized
  <2>5. PICK r \in b : SameOrder(t, r) /\ r.qty = t.qty - Lost(fills, t.id)
    BY <1>6, <2>2, <2>4 DEF Leaves
  <2>6. QED
    BY <1>4, <2>1, <2>4, <2>5 DEF SameOrder
<1>r. q = [book |-> q.book, fills |-> q.fills, swept |-> q.swept]
  BY <1>1 DEF Made, FollowedBy
<1>12. QED
  BY <1>1, <1>4, <1>6, <1>8, <1>9, <1>10, <1>11, <1>r DEF Following

LEMMA FollowingCancels ==
  ASSUME NEW p, NEW book, NEW m, NEW V, Following(p, book, m, V),
         NEW id, \A s \in book : s.owner \in V => s.id # id
  PROVE  Following(Made(p, CancelOf(id)), book, m, V)
<1>1. PICK q : q = Made(p, CancelOf(id))
  OBVIOUS
<1>2. q.book = Without(p.book, {id}) /\ q.fills = p.fills
  BY <1>1 DEF Made, FollowedBy, Called, CancelOf
<1>3. Shaped(q.book) /\ q.book \subseteq p.book
  BY <1>2, WithoutIs DEF Following, Sound
<1>4. Sound(q.book) /\ Unique(q.book, V)
  BY <1>3 DEF Following, Sound, Sized, Named, Unique
<1>5. ASSUME NEW s \in book, s.owner \in V, NEW r \in p.book, SameOrder(s, r) PROVE r \in q.book
  BY <1>2, <1>5 DEF Without, SameOrder
<1>r. q = [book |-> q.book, fills |-> q.fills, swept |-> q.swept]
  BY <1>1 DEF Made, FollowedBy
<1>6. QED
  BY <1>1, <1>2, <1>3, <1>4, <1>5, <1>r DEF Following

\* The quotes of a maker: its own orders come and go, and those of V only lose.
LEMMA QuotesFollowed ==
  ASSUME NEW book, Sound(book), NEW V, Unique(book, V), NEW m, m \notin V, NEW desk,
         \A id \in {desk.bid, desk.ask} : id # None =>
           \A s \in book : s.owner \in V => s.id # id,
         NEW size \in Nat \ {0}, NEW bidPx, NEW askPx,
         NEW p, p = Played(book, QuoteCalls(m, desk, bidPx, askPx, size))
  PROVE  Following(p, book, m, V)
<1> DEFINE F(q) == Following(q, book, m, V)
           p0 == Fresh(book)
           p1 == MadeIf(p0, CrossesAsk(desk, bidPx), CancelOf(desk.ask))
           p2 == MadeIf(p1, CrossesBid(desk, askPx), CancelOf(desk.bid))
           p3 == MadeIf(p2, QuotesBid(desk), SubmitOf(BidOf(m, desk, bidPx, size)))
           p4 == MadeIf(p3, QuotesAsk(desk), SubmitOf(AskOf(m, desk, askPx, size)))
           p5 == MadeIf(p4, desk.bid # None /\ ~CrossesBid(desk, askPx), CancelOf(desk.bid))
           p6 == MadeIf(p5, desk.ask # None /\ ~CrossesAsk(desk, bidPx), CancelOf(desk.ask))
<1>1. p = p6
  <2>0. p = Dropping(Posted(Cleared(p0, desk, bidPx, askPx), m, desk, bidPx, askPx, size),
                     desk, bidPx, askPx)
    BY QuotesPlayed
  <2>1. p2 = Cleared(p0, desk, bidPx, askPx)
    BY DEF Cleared
  <2>2. p4 = Posted(p2, m, desk, bidPx, askPx, size)
    BY DEF Posted
  <2>3. p6 = Dropping(p4, desk, bidPx, askPx)
    BY DEF Dropping
  <2> HIDE DEF p2, p4, p6
  <2>4. QED
    BY <2>0, <2>1, <2>2, <2>3
<1>2. F(p0)
  BY FollowingStarts
<1>3. ASSUME NEW q, F(q), NEW id \in {desk.bid, desk.ask}, id # None
      PROVE  F(Made(q, CancelOf(id)))
  BY <1>3, FollowingCancels
<1>4. ASSUME NEW q, F(q), NEW o \in {BidOf(m, desk, bidPx, size), AskOf(m, desk, askPx, size)}
      PROVE  F(Made(q, SubmitOf(o)))
  <2>1. o.owner = m /\ o.id[1] = m /\ o.qty = size
    BY DEF BidOf, AskOf, Order, NewBid, NewAsk
  <2>2. QED
    BY <1>4, <2>1, FollowingSubmits
<1> HIDE DEF p0, F
<1>5. F(p1)
  BY <1>2, <1>3 DEF MadeIf, CrossesAsk
<1> HIDE DEF p1
<1>6. F(p2)
  BY <1>3, <1>5 DEF MadeIf, CrossesBid
<1> HIDE DEF p2
<1>7. F(p3)
  BY <1>4, <1>6 DEF MadeIf
<1> HIDE DEF p3
<1>8. F(p4)
  BY <1>4, <1>7 DEF MadeIf
<1> HIDE DEF p4
<1>9. F(p5)
  BY <1>3, <1>8 DEF MadeIf
<1> HIDE DEF p5
<1>10. F(p6)
  BY <1>3, <1>9 DEF MadeIf
<1>11. QED
  BY <1>1, <1>10 DEF F

\* What a participant gains is a total over the fills.
LEMMA GainedIsTotal ==
  ASSUME NEW who, NEW fills
  PROVE  Gained(who, fills) = Total([f \in fills |-> Gain(who, f)], fills)
BY DEF Gained, SumFunctionOnSet, FoldFunctionOnSet, Total, MapThenSumSet

-------------------------------------------------------------------------------
(* Simulation: the makers' quotes                                              *)

\* What a maker remembers has its parts, and its next ids are its own.
DeskIs(d) ==
  /\ d = [inventory |-> d.inventory, seq |-> d.seq, bid |-> d.bid, ask |-> d.ask,
          bidPx |-> d.bidPx, askPx |-> d.askPx]
  /\ d.seq \in Nat /\ d.bidPx \in Int /\ d.askPx \in Int

SimInv ==
  /\ Sound(floor)
  /\ DOMAIN desks = Makers /\ net \in [Makers -> Int]
  /\ \A m \in Makers :
       /\ DeskIs(desks[m]) /\ OwnOrders(floor, m, desks[m])
       /\ desks[m].inventory = net[m] \/ m \in unseen
       /\ m \notin metItself

Ordered(bidPx, askPx) == bidPx \in Int /\ askPx \in Int /\ bidPx < askPx

LEMMA QuotedIs ==
  ASSUME NEW m, NEW desk, DeskIs(desk), NEW bidPx, NEW askPx, PricesAre(desk, bidPx, askPx),
         NEW quoted, quoted = Quoted(m, desk, bidPx, askPx)
  PROVE  /\ DeskIs(quoted) /\ quoted.inventory = desk.inventory
         /\ quoted.bid = IF QuotesBid(desk) THEN NewBid(m, desk) ELSE None
         /\ quoted.ask = IF QuotesAsk(desk) THEN NewAsk(m, desk) ELSE None
         /\ quoted.bidPx = bidPx /\ quoted.askPx = askPx
         /\ \E i, j \in Nat : NewBid(m, desk) = <<m, i>> /\ NewAsk(m, desk) = <<m, j>>
<1> DEFINE new == {b \in {1, 2} : IF b = 1 THEN QuotesBid(desk) ELSE QuotesAsk(desk)}
<1>1. Cardinality(new) \in Nat
  <2>1. IsFiniteSet(1..2)
    <3>1. 1 \in Int /\ 2 \in Int
      OBVIOUS
    <3>2. QED
      BY <3>1, FS_Interval
  <2>2. new \subseteq 1..2
    OBVIOUS
  <2> HIDE DEF new
  <2>3. QED
    BY <2>1, <2>2, FS_Subset, FS_CardinalityType
<1>2. quoted.seq = desk.seq + Cardinality(new)
  BY DEF Quoted
<1> HIDE DEF new
<1>3. quoted.seq \in Nat
  BY <1>1, <1>2 DEF DeskIs
<1>4. DeskIs(quoted)
  <2>1. quoted.bidPx = bidPx /\ quoted.askPx = askPx
    BY DEF Quoted
  <2>2. PICK a, b, c : quoted = [inventory |-> desk.inventory, seq |-> a, bid |-> b, ask |-> c,
                                 bidPx |-> bidPx, askPx |-> askPx]
    BY DEF Quoted
  <2>3. QED
    BY <1>3, <2>1, <2>2 DEF DeskIs, PricesAre
<1>5. \E i, j \in Nat : NewBid(m, desk) = <<m, i>> /\ NewAsk(m, desk) = <<m, j>>
  <2>1. PICK k \in {1, 2} : NewAsk(m, desk) = <<m, desk.seq + k>>
    BY DEF NewAsk
  <2>2. NewBid(m, desk) = <<m, desk.seq + 1>> /\ desk.seq + 1 \in Nat /\ desk.seq + k \in Nat
    BY DEF NewBid, DeskIs
  <2>3. QED
    BY <2>1, <2>2
<1>6. QED
  BY <1>4, <1>5 DEF Quoted

\* Who has no side in any of the fills gains nothing from them.
LEMMA GainedNothing ==
  ASSUME NEW fills, IsFiniteSet(fills), NEW who,
         \A f \in fills : f.takerOwner # who /\ f.makerOwner # who
  PROVE  Gained(who, fills) = 0
<1> DEFINE g == [f \in fills |-> Gain(who, f)]
<1>1. Gained(who, fills) = Total(g, fills)
  BY DEF Gained, SumFunctionOnSet, FoldFunctionOnSet, Total, MapThenSumSet
<1>2. \A f \in fills : g[f] = 0
  BY DEF Gain
<1> HIDE DEF g
<1>3. QED
  BY <1>1, <1>2, TotalZero

LEMMA GainedType ==
  ASSUME NEW fills, IsFiniteSet(fills), NEW who, \A f \in fills : f.qty \in Nat \ {0}
  PROVE  Gained(who, fills) \in Int
<1> DEFINE g == [f \in fills |-> Gain(who, f)]
<1>1. Gained(who, fills) = Total(g, fills)
  BY DEF Gained, SumFunctionOnSet, FoldFunctionOnSet, Total, MapThenSumSet
<1>2. \A f \in fills : g[f] \in Int
  BY DEF Gain, Signed
<1> HIDE DEF g
<1>3. QED
  BY <1>1, <1>2, TotalType

LEMMA SimInitial == ASSUME SimInit PROVE SimInv
<1>1. \A m \in Makers : desks[m] = NewMaker /\ net[m] = 0
  BY DEF SimInit
<1>2. DeskIs(NewMaker) /\ NewMaker.inventory = 0
  BY DEF DeskIs, NewMaker
<1>3. Sound(floor) /\ \A m \in Makers : OwnOrders(floor, m, desks[m])
  BY FS_EmptySet DEF SimInit, Sound, Shaped, Sized, Named, OwnOrders
<1>4. QED
  BY <1>1, <1>2, <1>3 DEF SimInit, SimInv

\* The orders of another maker's that are left are quotes it remembers.
LEMMA OrdersStayOwn ==
  ASSUME NEW book, NEW b, NEW m, NEW d, OwnOrders(book, m, d),
         \A r \in b : r.owner = m => \E s \in book : SameOrder(s, r),
         NEW e, e.bid = d.bid, e.ask = d.ask, e.bidPx = d.bidPx, e.askPx = d.askPx
  PROVE  OwnOrders(b, m, e)
BY DEF OwnOrders, SameOrder

LEMMA RefreshKeepsQuotes ==
  ASSUME SimulationAssumption, SimInv,
         NEW m \in Makers, NEW bidPx, NEW askPx, Ordered(bidPx, askPx),
         RefreshQuotes(m, bidPx, askPx)
  PROVE  SimInv'
<1> DEFINE old == desks[m]
<1>1. PICK p : p = Played(floor, QuoteCalls(m, old, bidPx, askPx, Size))
  OBVIOUS
<1>2. PICK quoted : quoted = Quoted(m, old, bidPx, askPx)
  OBVIOUS
<1>3. /\ floor' = p.book /\ desks' = [desks EXCEPT ![m] = quoted]
      /\ net' = [x \in Makers |-> net[x] + Gained(x, p.fills)]
      /\ unseen' = unseen \cup (Parties(p.fills) \cap Makers)
      /\ metItself' = metItself \cup {id[1] : id \in p.swept}
  BY <1>1, <1>2 DEF RefreshQuotes
<1>4. /\ Sound(floor) /\ OwnOrders(floor, m, old) /\ DeskIs(old) /\ DOMAIN desks = Makers
      /\ PricesAre(old, bidPx, askPx) /\ old.seq \in Nat
  BY DEF SimInv, DeskIs, PricesAre, Ordered
<1> HIDE DEF old
<1>5. Renewing(p, floor, NewQuotes(old), m, old, bidPx, askPx)
  <2>1. /\ Shaped(floor) /\ OwnOrders(floor, m, old) /\ PricesAre(old, bidPx, askPx)
        /\ p = Played(floor, QuoteCalls(m, old, bidPx, askPx, Size))
    BY <1>1, <1>4 DEF Sound
  <2>2. QED
    BY <2>1, QuotesRenewed
<1>f. Following(p, floor, m, {})
  <2>1. Unique(floor, {}) /\ m \notin {} /\ Size \in Nat \ {0}
    BY DEF Unique, SimulationAssumption
  <2>2. \A id \in {old.bid, old.ask} : id # None => \A s \in floor : s.owner \in {} => s.id # id
    OBVIOUS
  <2>3. Sound(floor) /\ p = Played(floor, QuoteCalls(m, old, bidPx, askPx, Size))
    BY <1>1, <1>4
  <2>4. QED
    BY <2>1, <2>2, <2>3, QuotesFollowed
<1>6. /\ DeskIs(quoted) /\ quoted.inventory = old.inventory
      /\ quoted.bid = IF QuotesBid(old) THEN NewBid(m, old) ELSE None
      /\ quoted.ask = IF QuotesAsk(old) THEN NewAsk(m, old) ELSE None
      /\ quoted.bidPx = bidPx /\ quoted.askPx = askPx
      /\ \E i, j \in Nat : NewBid(m, old) = <<m, i>> /\ NewAsk(m, old) = <<m, j>>
  <2>1. DeskIs(old) /\ PricesAre(old, bidPx, askPx) /\ quoted = Quoted(m, old, bidPx, askPx)
    BY <1>2, <1>4
  <2>2. QED
    BY <2>1, QuotedIs
<1>7. NewBid(m, old) # None /\ NewAsk(m, old) # None
  BY <1>6 DEF SimulationAssumption
<1>8. OwnOrders(floor', m, quoted)
  <2>1. \A r \in floor' : r.owner = m => Known(r, NewQuotes(old), m, old, bidPx, askPx)
    BY <1>3, <1>5 DEF Renewing
  <2>2. QED
    BY <1>6, <1>7, <2>1 DEF OwnOrders, Known, NewQuotes
<1>9. ASSUME NEW x \in Makers
      PROVE  /\ DeskIs(desks'[x]) /\ OwnOrders(floor', x, desks'[x])
             /\ desks'[x].inventory = desks[x].inventory
  <2>1. CASE x = m
    BY <1>3, <1>4, <1>6, <1>8, <2>1 DEF old
  <2>2. CASE x # m
    <3>1. desks'[x] = desks[x]
      BY <1>3, <2>2
    <3>2. \A r \in floor' : r.owner = x => \E s \in floor : SameOrder(s, r)
      BY <1>3, <1>5, <2>2 DEF Renewing
    <3>3. OwnOrders(floor', x, desks'[x])
      BY <3>1, <3>2, OrdersStayOwn DEF SimInv
    <3>4. QED
      BY <3>1, <3>3 DEF SimInv
  <2>3. QED
    BY <2>1, <2>2
<1>10. ASSUME NEW x \in Makers, x \notin unseen' PROVE desks'[x].inventory = net'[x]
  <2>1. x \notin unseen /\ \A f \in p.fills : f.takerOwner # x /\ f.makerOwner # x
    BY <1>3, <1>10 DEF Parties
  <2>2. Gained(x, p.fills) = 0
    BY <1>5, <2>1, GainedNothing DEF Renewing
  <2>3. desks[x].inventory = net[x] /\ net[x] \in Int
    BY <2>1 DEF SimInv
  <2>4. QED
    BY <1>3, <1>9, <2>2, <2>3
<1>11. net' \in [Makers -> Int]
  <2>1. \A x \in Makers : Gained(x, p.fills) \in Int
    BY <1>f, GainedType DEF Following
  <2>2. QED
    BY <1>3, <2>1 DEF SimInv
<1>12. Sound(floor') /\ metItself' = metItself /\ DOMAIN desks' = Makers
  BY <1>3, <1>4, <1>5, <1>f DEF Renewing, Following
<1>13. QED
  BY <1>9, <1>10, <1>11, <1>12 DEF SimInv

LEMMA ActKeepsQuotes ==
  ASSUME SimulationAssumption, SimInv, NEW order \in TraderOrders, Act(order)
  PROVE  SimInv'
<1> DEFINE o == Order(<<order.owner, turns + 1>>, order.owner, order.side, order.qty, order.px,
                      order.rests)
<1>1. o.owner \notin Makers /\ o.id[1] = o.owner /\ o.qty \in Nat \ {0}
  BY DEF Order, SimulationAssumption
<1>2. PICK done : done = Submitted(floor, o)
  OBVIOUS
<1>3. /\ floor' = done.book
      /\ desks' = [m \in Makers |-> [desks[m] EXCEPT !.inventory = @ + Booked(done.fills, m)]]
      /\ net' = [m \in Makers |-> net[m] + Gained(m, done.fills)]
      /\ UNCHANGED <<unseen, metItself>>
  BY <1>2 DEF Act
<1> HIDE DEF o
<1>a. Sound(floor) /\ Unique(floor, {}) /\ \A r \in floor : r.owner \in {} => r.id # o.id
  BY DEF SimInv, Unique
<1>4. Sound(floor') /\ \A r \in floor' : r.owner \in Makers => \E s \in floor : SameOrder(s, r)
  <2>1. Sound(done.book)
    BY <1>1, <1>2, <1>a, BookOfSubmit
  <2>2. \A r \in done.book : (\E s \in floor : Remains(floor, o, s, r)) \/ Rests(floor, o, r)
    BY <1>2, <1>a, SubmittedBook DEF Sound
  <2>3. QED
    BY <1>1, <1>3, <2>1, <2>2 DEF Remains, Rests
<1>b. \A m \in Makers : Gained(m, done.fills) \in Int
  <2>1. FillsAre(done.fills, floor, o)
    BY <1>1, <1>2, <1>a, FillsOfSubmit
  <2>2. QED
    BY <2>1, GainedType DEF FillsAre
<1>5. ASSUME NEW m \in Makers
      PROVE  /\ DeskIs(desks'[m]) /\ OwnOrders(floor', m, desks'[m])
             /\ desks'[m].inventory = desks[m].inventory + Gained(m, done.fills)
  <2>1. PICK d : d = desks[m]
    OBVIOUS
  <2>2. DeskIs(d) /\ OwnOrders(floor, m, d)
    BY <2>1 DEF SimInv
  <2>3. PICK now : now = d.inventory + Gained(m, done.fills)
    OBVIOUS
  <2>4. desks'[m] = [inventory |-> now, seq |-> d.seq, bid |-> d.bid, ask |-> d.ask,
                     bidPx |-> d.bidPx, askPx |-> d.askPx]
    BY <1>3, <2>1, <2>2, <2>3 DEF DeskIs, Booked
  <2>5. DeskIs(desks'[m])
    BY <2>2, <2>4 DEF DeskIs
  <2>6. OwnOrders(floor', m, desks'[m])
    BY <1>4, <2>2, <2>4, OrdersStayOwn
  <2>7. QED
    BY <2>1, <2>3, <2>4, <2>5, <2>6
<1>6. DOMAIN desks' = Makers
  BY <1>3
<1>7. net' \in [Makers -> Int]
  BY <1>3, <1>b DEF SimInv
<1>8. ASSUME NEW m \in Makers
      PROVE  desks'[m].inventory = net'[m] \/ m \in unseen'
  <2>1. desks[m].inventory = net[m] \/ m \in unseen
    BY DEF SimInv
  <2>2. net'[m] = net[m] + Gained(m, done.fills) /\ unseen' = unseen
    BY <1>3
  <2>3. QED
    BY <1>5, <2>1, <2>2
<1>9. \A m \in Makers : m \notin metItself'
  BY <1>3 DEF SimInv
<1>10. QED
  BY <1>4, <1>5, <1>6, <1>7, <1>8, <1>9 DEF SimInv

LEMMA SimStep ==
  ASSUME SimulationAssumption, SimInv, [SimNext]_simVars
  PROVE  SimInv'
<1>1. ASSUME NEW m \in Makers, NEW q \in Quotable, RefreshQuotes(m, q[1], q[2]) PROVE SimInv'
  BY <1>1, RefreshKeepsQuotes DEF SimulationAssumption, Ordered
<1>2. ASSUME NEW order \in TraderOrders, Act(order) PROVE SimInv'
  BY <1>2, ActKeepsQuotes
<1>3. CASE NextStep
  BY <1>3 DEF NextStep, SimInv
<1>4. CASE UNCHANGED simVars
  BY <1>4 DEF simVars, SimInv
<1>5. QED
  BY <1>1, <1>2, <1>3, <1>4 DEF SimNext

\* A maker's orders in the book are its last two quotes, it never meets itself, and
\* its inventory is what it traded unless a fill of new quotes concerned it.
THEOREM QuotesAreOwn == SimSpec => []MakersOwnTheirQuotes
<1>1. SimInv => MakersOwnTheirQuotes
  BY DEF SimInv, MakersOwnTheirQuotes, OwnOrders, Resting
<1>2. SimInit => SimInv
  BY SimInitial
<1>3. SimInv /\ [SimNext]_simVars => SimInv'
  BY SimStep, SimulationAssumption
<1>4. QED
  BY <1>1, <1>2, <1>3, PTL DEF SimSpec

\* Fills of others' do not count.
LEMMA GainedFrom ==
  ASSUME NEW who, NEW A, NEW B, IsFiniteSet(A), IsFiniteSet(B),
         \A f \in A \cup B : f.qty \in Nat \ {0},
         \A f \in A : f.takerOwner # who /\ f.makerOwner # who
  PROVE  Gained(who, A \cup B) = Gained(who, B)
<1> DEFINE all == A \cup B
           g == [f \in all |-> Gain(who, f)]
           h == [f \in B |-> Gain(who, f)]
<1>1. Gained(who, all) = Total(g, all) /\ Gained(who, B) = Total(h, B)
  BY GainedIsTotal
<1>2. /\ \A f \in all : g[f] \in Int
      /\ \A f \in all \ B : g[f] = 0
      /\ \A f \in B : g[f] = h[f]
  BY DEF Gain, Signed
<1>3. IsFiniteSet(all) /\ B \in SUBSET all
  BY FS_Union
<1> HIDE DEF all, g, h
<1>4. Total(g, all) = Total(g, B) /\ Total(g, B) = Total(h, B)
  BY <1>2, <1>3, TotalDropsZeros, TotalSame
<1>5. QED
  BY <1>1, <1>4 DEF all

-------------------------------------------------------------------------------
(* Demo: a ledger and the book                                                 *)

\* A ledger lists positive amounts, under ids of its visitor.
LedgerIs(v, n, h) ==
  /\ v = [here |-> v.here, inventory |-> v.inventory, open |-> v.open] /\ v.here \in BOOLEAN
  /\ v.open = [id \in DOMAIN v.open |-> v.open[id]]
  /\ \A id \in DOMAIN v.open : v.open[id] \in Nat \ {0} /\ \E i \in 1..n : id = <<h, i>>
  /\ ~v.here => v = Absent

\* What it lists rests in the book, but for the ids in gone.
LedgerFits(open, book, h, gone) ==
  /\ \A r \in book : r.owner = h => r.id \in DOMAIN open /\ open[r.id] >= r.qty
  /\ \A id \in DOMAIN open : id \notin gone =>
       \E r \in book : r.owner = h /\ r.id = id /\ r.qty = open[id]

\* The orders of V have the ids that were given to them.
Numbered(book, n, V) == \A r \in book : r.owner \in V => \E i \in 1..n : r.id = <<r.owner, i>>

DemoInv ==
  /\ Sound(venue) /\ Unique(venue, Visitors) /\ orders \in Nat
  /\ Numbered(venue, orders, Visitors)
  /\ \A id \in {maker.bid, maker.ask} : id # None => id[1] = TheMaker
  /\ DOMAIN visitor = Visitors /\ DOMAIN traded = Visitors
  /\ \A h \in Visitors :
       /\ LedgerIs(visitor[h], orders, h)
       /\ LedgerFits(visitor[h].open, venue, h, dropped \cup swept)
       /\ visitor[h].inventory = traded[h] \/ Dropped(h)
       /\ ~visitor[h].here => traded[h] = 0

Counted(open) == \A id \in DOMAIN open : open[id] \in Nat \ {0}

LEMMA LessIs ==
  ASSUME NEW open, Counted(open), NEW fills, \A id : Lost(fills, id) \in Nat,
         NEW less, less = Less(open, fills)
  PROVE  /\ Counted(less) /\ DOMAIN less \subseteq DOMAIN open
         /\ less = [id \in DOMAIN less |-> less[id]]
         /\ \A id \in DOMAIN less : less[id] = open[id] - Lost(fills, id)
         /\ \A id \in DOMAIN open : open[id] - Lost(fills, id) > 0 => id \in DOMAIN less
<1>1. /\ DOMAIN less = {i \in DOMAIN open : LeftOpen(open, fills, i) > 0}
      /\ less = [id \in DOMAIN less |-> less[id]]
      /\ \A id \in DOMAIN less : less[id] = LeftOpen(open, fills, id)
  BY DEF Less
<1>3. \A id : LeftOpen(open, fills, id) = open[id] - Lost(fills, id)
  BY DEF LeftOpen, Lost
<1>2. \A id \in DOMAIN open : LeftOpen(open, fills, id) \in Int
  BY <1>3 DEF Counted
<1>4. QED
  BY <1>1, <1>2, <1>3 DEF Counted

\* The quotes of the maker take from a visitor only what their fills name.
LEMMA QuotesMatch ==
  ASSUME NEW open, Counted(open), NEW book, Sound(book), NEW h, NEW gone,
         LedgerFits(open, book, h, gone),
         NEW p, NEW m, NEW V, h \in V, Following(p, book, m, V)
  PROVE  LedgerFits(open, p.book, h, gone \cup {f.maker : f \in p.fills})
<1>1. ASSUME NEW r \in p.book, r.owner = h PROVE r.id \in DOMAIN open /\ open[r.id] >= r.qty
  <2>1. PICK s \in book : SameOrder(s, r) /\ r.qty <= s.qty
    BY <1>1 DEF Following
  <2>2. s.id \in DOMAIN open /\ open[s.id] >= s.qty /\ s.id = r.id
    BY <1>1, <2>1 DEF SameOrder, LedgerFits
  <2>3. open[s.id] \in Nat /\ s.qty \in Nat /\ r.qty \in Nat
    BY <2>2 DEF Counted, Sound, Sized, Following
  <2>4. QED
    BY <2>1, <2>2, <2>3
<1>2. ASSUME NEW id \in DOMAIN open, id \notin gone, \A f \in p.fills : f.maker # id
      PROVE  \E r \in p.book : r.owner = h /\ r.id = id /\ r.qty = open[id]
  <2>1. PICK s \in book : s.owner = h /\ s.id = id /\ s.qty = open[id]
    BY <1>2 DEF LedgerFits
  <2>2. PICK r \in p.book : SameOrder(s, r) /\ r.qty = s.qty
    BY <1>2, <2>1 DEF Following
  <2>3. QED
    BY <2>1, <2>2 DEF SameOrder
<1>3. QED
  BY <1>1, <1>2 DEF LedgerFits

\* The fills of a submit take from both alike, and an order that comes to rest is new.
LEMMA SubmitMatches ==
  ASSUME NEW open, Counted(open), NEW book, Sound(book), NEW h, NEW gone,
         LedgerFits(open, book, h, gone), NEW b, Sound(b), NEW V, h \in V,
         NEW o, NEW fills, NEW removed, Leaves(b, book, o, fills, removed, V),
         \A id : Lost(fills, id) \in Nat, NEW less, less = Less(open, fills)
  PROVE  /\ \A r \in b : r.owner = h =>
              \/ r.id \in DOMAIN less /\ less[r.id] >= r.qty
              \/ /\ o.rests /\ r.id = o.id /\ o.owner = h
                 /\ r.qty = o.qty - Quantity(fills)
         /\ \A id \in DOMAIN less : id \notin gone \cup removed =>
              \E r \in b : r.owner = h /\ r.id = id /\ r.qty = less[id]
<1>1. /\ Counted(less) /\ DOMAIN less \subseteq DOMAIN open
      /\ \A id \in DOMAIN less : less[id] = open[id] - Lost(fills, id)
      /\ \A id \in DOMAIN open : open[id] - Lost(fills, id) > 0 => id \in DOMAIN less
  BY LessIs
<1>2. ASSUME NEW r \in b, r.owner = h, NEW s \in book, SameOrder(s, r),
             r.qty = s.qty - Lost(fills, s.id)
      PROVE  r.id \in DOMAIN less /\ less[r.id] >= r.qty
  <2>1. s.id = r.id /\ r.id \in DOMAIN open /\ open[r.id] >= s.qty
    BY <1>2 DEF SameOrder, LedgerFits
  <2>2. PICK n \in Nat : n = Lost(fills, r.id)
    OBVIOUS
  <2>3. open[r.id] \in Nat /\ s.qty \in Nat /\ r.qty \in Nat /\ r.qty > 0
    BY <1>2, <2>1 DEF Counted, Sound, Sized
  <2>4. r.qty = s.qty - n
    BY <1>2, <2>1, <2>2
  <2>5. open[r.id] - n > 0 /\ open[r.id] - n >= r.qty
    BY <2>1, <2>3, <2>4
  <2>6. QED
    BY <1>1, <2>1, <2>2, <2>5
<1>3. ASSUME NEW id \in DOMAIN less, id \notin gone \cup removed
      PROVE  \E r \in b : r.owner = h /\ r.id = id /\ r.qty = less[id]
  <2>1. PICK s \in book : s.owner = h /\ s.id = id /\ s.qty = open[id]
    BY <1>1, <1>3 DEF LedgerFits
  <2>2. s.qty - Lost(fills, s.id) = less[id] /\ less[id] > 0
    BY <1>1, <2>1 DEF Counted
  <2>3. PICK r \in b : SameOrder(s, r) /\ r.qty = s.qty - Lost(fills, s.id)
    BY <1>3, <2>1, <2>2 DEF Leaves
  <2>4. QED
    BY <2>1, <2>2, <2>3 DEF SameOrder
<1>4. QED
  BY <1>2, <1>3 DEF Leaves

\* _route, for one visitor.
RoutedTo(v, h, fills) ==
  IF ~v.here THEN v ELSE [v EXCEPT !.inventory = @ + Gained(h, fills), !.open = Less(@, fills)]

LEMMA RoutedIs ==
  ASSUME NEW v, NEW n \in Nat, NEW h, LedgerIs(v, n, h), NEW k \in Nat, n <= k,
         NEW fills, \A id : Lost(fills, id) \in Nat, NEW w, w = RoutedTo(v, h, fills)
  PROVE  /\ LedgerIs(w, k, h) /\ w.here = v.here /\ w.open = Less(v.open, fills)
         /\ w.inventory = IF v.here THEN v.inventory + Gained(h, fills) ELSE v.inventory
<1>1. PICK less : less = Less(v.open, fills)
  OBVIOUS
<1>2. Counted(v.open)
  BY DEF LedgerIs, Counted
<1>3. /\ Counted(less) /\ DOMAIN less \subseteq DOMAIN v.open
      /\ less = [id \in DOMAIN less |-> less[id]]
  BY <1>1, <1>2, LessIs
<1>4. CASE v.here
  <2>1. PICK inventory : inventory = v.inventory + Gained(h, fills)
    OBVIOUS
  <2>2. w = [here |-> v.here, inventory |-> inventory, open |-> less]
    BY <1>1, <1>4, <2>1 DEF LedgerIs, RoutedTo
  <2>3. \A id \in DOMAIN less : \E i \in 1..k : id = <<h, i>>
    <3>1. \A i \in 1..n : i \in 1..k
      OBVIOUS
    <3>2. QED
      BY <1>3, <3>1 DEF LedgerIs
  <2>4. LedgerIs(w, k, h)
    BY <1>3, <1>4, <2>2, <2>3 DEF LedgerIs, Counted
  <2>5. QED
    BY <1>1, <1>4, <2>1, <2>2, <2>4
<1>5. CASE ~v.here
  <2>1. w = v /\ v = Absent
    BY <1>5 DEF RoutedTo, LedgerIs
  <2>2. v.open = NoneOpen /\ DOMAIN v.open = {}
    BY <2>1 DEF Absent, NoneOpen
  <2>3. Less(v.open, fills) = v.open
    BY <2>2 DEF Less, NoneOpen
  <2>4. LedgerIs(w, k, h)
    BY <1>5, <2>1, <2>2 DEF LedgerIs
  <2>5. QED
    BY <1>5, <2>1, <2>3, <2>4
<1>6. QED
  BY <1>4, <1>5

LEMMA NothingRouted ==
  ASSUME NEW open, Counted(open), open = [id \in DOMAIN open |-> open[id]]
  PROVE  Less(open, {}) = open
<1>1. \A id : Lost({}, id) = 0
  <2>1. \A id : {f \in {} : f.maker = id} = {}
    OBVIOUS
  <2>2. QED
    BY <2>1, QuantityOfNone DEF Lost
<1>2. PICK less : less = Less(open, {})
  OBVIOUS
<1>3. /\ DOMAIN less \subseteq DOMAIN open
      /\ less = [id \in DOMAIN less |-> less[id]]
      /\ \A id \in DOMAIN less : less[id] = open[id] - Lost({}, id)
      /\ \A id \in DOMAIN open : open[id] - Lost({}, id) > 0 => id \in DOMAIN less
  BY <1>1, <1>2, LessIs
<1>4. DOMAIN less = DOMAIN open
  BY <1>1, <1>3 DEF Counted
<1>5. \A id \in DOMAIN less : less[id] = open[id]
  BY <1>1, <1>3, <1>4 DEF Counted
<1>6. QED
  BY <1>2, <1>3, <1>4, <1>5

\* A submit at a book whose ids go up to n.
SubmitIs(done, book, o, n, V) ==
  /\ Sound(done.book) /\ Unique(done.book, V) /\ Numbered(done.book, n + 1, V)
  /\ Leaves(done.book, book, o, done.fills, done.swept, V)
  /\ FillsAre(done.fills, book, o) /\ Quantity(done.fills) \in Nat
  /\ \A id : Lost(done.fills, id) \in Nat
  /\ o.rests /\ o.qty - Quantity(done.fills) > 0 =>
       \E r \in done.book : /\ r.id = o.id /\ r.owner = o.owner
                            /\ r.qty = o.qty - Quantity(done.fills)

LEMMA OneSubmit ==
  ASSUME NEW V, NEW book, Sound(book), Unique(book, V), NEW n, n \in Nat, Numbered(book, n, V),
         NEW o, o.qty \in Nat \ {0}, o.id = <<o.owner, n + 1>>,
         NEW done, done = Submitted(book, o)
  PROVE  SubmitIs(done, book, o, n, V)
<1>1. o.id[1] = o.owner /\ \A r \in book : r.owner \in V => r.id # o.id
  <2>1. \A i \in 1..n : <<o.owner, i>> # <<o.owner, n + 1>>
    OBVIOUS
  <2>2. QED
    BY <2>1 DEF Numbered
<1>2. /\ Sound(done.book) /\ Unique(done.book, V)
      /\ Leaves(done.book, book, o, done.fills, done.swept, V)
      /\ o.rests /\ o.qty - Quantity(done.fills) > 0 =>
           \E r \in done.book : /\ r.id = o.id /\ r.owner = o.owner
                                /\ r.qty = o.qty - Quantity(done.fills)
  BY <1>1, BookOfSubmit
<1>3. /\ FillsAre(done.fills, book, o) /\ Quantity(done.fills) \in Nat
      /\ \A id : Lost(done.fills, id) \in Nat
  BY FillsOfSubmit
<1>4. ASSUME NEW r \in done.book, r.owner \in V PROVE \E i \in 1..(n + 1) : r.id = <<r.owner, i>>
  <2>1. CASE r.id = o.id /\ r.owner = o.owner
    <3>1. n + 1 \in 1..(n + 1)
      OBVIOUS
    <3>2. QED
      BY <2>1, <3>1
  <2>2. CASE \E s \in book : SameOrder(s, r)
    <3>1. PICK i \in 1..n : r.id = <<r.owner, i>>
      BY <1>4, <2>2 DEF SameOrder, Numbered
    <3>2. i \in 1..(n + 1)
      OBVIOUS
    <3>3. QED
      BY <3>1, <3>2
  <2>3. QED
    BY <1>2, <1>4, <2>1, <2>2 DEF Leaves
<1>5. QED
  BY <1>2, <1>3, <1>4 DEF SubmitIs, Numbered

LEMMA DemoInitial == ASSUME DemoInit PROVE DemoInv
<1>1. Sound(venue) /\ Unique(venue, Visitors)
  BY FS_EmptySet DEF DemoInit, Sound, Shaped, Sized, Named, Unique
<1>3. /\ DOMAIN NoneOpen = {} /\ NoneOpen = [id \in DOMAIN NoneOpen |-> NoneOpen[id]]
      /\ Absent.here = FALSE /\ Absent.open = NoneOpen /\ Absent.inventory = 0
      /\ Absent = [here |-> FALSE, inventory |-> 0, open |-> NoneOpen]
  BY DEF NoneOpen, Absent
<1>4. \A h : LedgerIs(Absent, orders, h)
  BY <1>3 DEF LedgerIs
<1>5. \A h \in Visitors : LedgerFits(Absent.open, venue, h, dropped \cup swept)
  BY <1>3 DEF LedgerFits, DemoInit
<1>6. QED
  BY <1>1, <1>3, <1>4, <1>5 DEF DemoInit, DemoInv, NewMaker, Numbered

LEMMA StepKeepsLedgers ==
  ASSUME DemoAssumption, DemoInv, NEW bidPx, NEW askPx, NEW crowd \in CrowdOrders \cup {None},
         StepTo(bidPx, askPx, crowd), orders' = orders + 1
  PROVE  DemoInv'
<1>1. PICK posted : posted = Played(venue, QuoteCalls(TheMaker, maker, bidPx, askPx, QuoteSize))
  OBVIOUS
<1>2. PICK quoted : quoted = Quoted(TheMaker, maker, bidPx, askPx)
  OBVIOUS
<1> DEFINE o == Order(<<crowd.owner, orders + 1>>, crowd.owner, crowd.side, crowd.qty, crowd.px,
                      crowd.rests)
<1>3. PICK taken : taken = IF crowd = None THEN [posted EXCEPT !.fills = {}, !.swept = {}]
                           ELSE Submitted(posted.book, o)
  OBVIOUS
<1>4. /\ venue' = taken.book
      /\ maker' = [quoted EXCEPT !.inventory = @ + Gained(TheMaker, taken.fills)]
      /\ visitor' = [h \in Visitors |-> RoutedTo(visitor[h], h, taken.fills)]
      /\ traded' = Traded(posted.fills \cup taken.fills)
      /\ dropped' = dropped \cup {f.maker : f \in posted.fills}
      /\ swept' = swept \cup taken.swept
  <2>1. Routed(taken.fills) = [h \in Visitors |-> RoutedTo(visitor[h], h, taken.fills)]
    BY DEF Routed, RoutedTo
  <2>2. visitor' = Routed(taken.fills)
    BY <1>1, <1>2, <1>3 DEF StepTo
  <2>3. QED
    BY <1>1, <1>2, <1>3, <2>1, <2>2 DEF StepTo
<1>5. TheMaker \in Makers /\ TheMaker \notin Visitors
  BY DEF TheMaker, DemoAssumption
<1>6. Following(posted, venue, TheMaker, Visitors)
  <2>1. Sound(venue) /\ Unique(venue, Visitors)
    BY DEF DemoInv
  <2>2. \A id \in {maker.bid, maker.ask} : id # None =>
          \A s \in venue : s.owner \in Visitors => s.id # id
    BY <1>5 DEF DemoInv, Sound, Named
  <2>3. QuoteSize \in Nat \ {0}
    BY DEF DemoAssumption
  <2>4. QED
    BY <1>1, <1>5, <2>1, <2>2, <2>3, QuotesFollowed
<1>7. /\ posted = [book |-> posted.book, fills |-> posted.fills, swept |-> posted.swept]
      /\ Sound(posted.book) /\ Unique(posted.book, Visitors) /\ IsFiniteSet(posted.fills)
      /\ \A f \in posted.fills : f.qty \in Nat \ {0} /\ f.takerOwner = TheMaker
  BY <1>6 DEF Following
<1>8. Numbered(posted.book, orders, Visitors)
  BY <1>6 DEF Following, SameOrder, DemoInv, Numbered
<1>9. \A id \in {maker'.bid, maker'.ask} : id # None => id[1] = TheMaker
  <2>1. /\ quoted.bid = IF QuotesBid(maker) THEN NewBid(TheMaker, maker) ELSE None
        /\ quoted.ask = IF QuotesAsk(maker) THEN NewAsk(TheMaker, maker) ELSE None
        /\ DOMAIN quoted = {"inventory", "seq", "bid", "ask", "bidPx", "askPx"}
    BY <1>2 DEF Quoted
  <2>2. maker'.bid = quoted.bid /\ maker'.ask = quoted.ask
    BY <1>4, <2>1
  <2>3. NewBid(TheMaker, maker)[1] = TheMaker /\ NewAsk(TheMaker, maker)[1] = TheMaker
    BY DEF NewBid, NewAsk
  <2>4. QED
    BY <2>1, <2>2, <2>3
<1>10. PICK gone : gone = dropped \cup swept \cup {f.maker : f \in posted.fills}
  OBVIOUS
<1>11. ASSUME NEW h \in Visitors
       PROVE  /\ Counted(visitor[h].open) /\ LedgerFits(visitor[h].open, posted.book, h, gone)
  <2>1. Counted(visitor[h].open)
    BY DEF DemoInv, LedgerIs, Counted
  <2>2. LedgerFits(visitor[h].open, venue, h, dropped \cup swept) /\ Sound(venue)
    BY DEF DemoInv
  <2>3. QED
    BY <1>6, <1>10, <2>1, <2>2, QuotesMatch
<1>12. /\ Sound(venue') /\ Unique(venue', Visitors)
       /\ Numbered(venue', orders + 1, Visitors)
       /\ IsFiniteSet(taken.fills) /\ \A f \in taken.fills : f.qty \in Nat \ {0}
       /\ \A id : Lost(taken.fills, id) \in Nat
       /\ \A h \in Visitors : LedgerFits(Less(visitor[h].open, taken.fills), venue', h, gone \cup taken.swept)
  <2>1. CASE crowd = None
    <3>1. taken.book = posted.book /\ taken.fills = {} /\ taken.swept = {}
      BY <1>3, <1>7, <2>1
    <3>2. \A id : Lost({}, id) \in Nat
      <4>1. \A id : {f \in {} : f.maker = id} = {}
        OBVIOUS
      <4>2. QED
        BY <4>1, QuantityOfNone DEF Lost
    <3>3. \A h \in Visitors : Less(visitor[h].open, {}) = visitor[h].open
      BY <1>11, NothingRouted DEF DemoInv, LedgerIs
    <3>4. Numbered(posted.book, orders + 1, Visitors)
      <4>1. \A i \in 1..orders : i \in 1..(orders + 1)
        BY DEF DemoInv
      <4>2. QED
        BY <1>8, <4>1 DEF Numbered
    <3>5. IsFiniteSet({})
      BY FS_EmptySet
    <3>6. gone \cup {} = gone
      OBVIOUS
    <3>7. QED
      BY <1>4, <1>7, <1>11, <3>1, <3>2, <3>3, <3>4, <3>5, <3>6
  <2>2. CASE crowd # None
    <3>1. /\ o.qty \in Nat \ {0} /\ o.owner \notin Visitors /\ o.id = <<o.owner, orders + 1>>
          /\ orders \in Nat
      BY <2>2 DEF Order, DemoAssumption, DemoInv
    <3> HIDE DEF o
    <3>2. taken = Submitted(posted.book, o)
      BY <1>3, <2>2
    <3>3. SubmitIs(taken, posted.book, o, orders, Visitors)
      BY <1>7, <1>8, <3>1, <3>2, OneSubmit
    <3>4. ASSUME NEW h \in Visitors
          PROVE  LedgerFits(Less(visitor[h].open, taken.fills), taken.book, h, gone \cup taken.swept)
      <4>1. PICK less : less = Less(visitor[h].open, taken.fills)
        OBVIOUS
      <4>2. /\ \A r \in taken.book : r.owner = h =>
                 \/ r.id \in DOMAIN less /\ less[r.id] >= r.qty
                 \/ /\ o.rests /\ r.id = o.id /\ o.owner = h
                    /\ r.qty = o.qty - Quantity(taken.fills)
            /\ \A id \in DOMAIN less : id \notin gone \cup taken.swept =>
                 \E r \in taken.book : r.owner = h /\ r.id = id /\ r.qty = less[id]
        BY <1>7, <1>11, <3>3, <4>1, SubmitMatches DEF SubmitIs
      <4>3. QED
        BY <3>1, <4>1, <4>2 DEF LedgerFits
    <3>5. QED
      BY <1>4, <3>3, <3>4 DEF FillsAre, SubmitIs
  <2>3. QED
    BY <2>1, <2>2
<1>13. ASSUME NEW h \in Visitors
       PROVE  /\ LedgerIs(visitor'[h], orders + 1, h)
              /\ LedgerFits(visitor'[h].open, venue', h, dropped' \cup swept')
              /\ visitor'[h].inventory = traded'[h] \/ \E id \in dropped' : id[1] = h
              /\ ~visitor'[h].here => traded'[h] = 0
  <2>1. PICK v : v = visitor[h]
    OBVIOUS
  <2>2. visitor'[h] = RoutedTo(v, h, taken.fills)
    BY <1>4, <2>1
  <2>3. LedgerIs(v, orders, h) /\ orders \in Nat /\ orders + 1 \in Nat /\ orders <= orders + 1
    BY <2>1 DEF DemoInv
  <2>4. /\ LedgerIs(visitor'[h], orders + 1, h) /\ visitor'[h].here = v.here
        /\ visitor'[h].open = Less(v.open, taken.fills)
        /\ visitor'[h].inventory = IF v.here THEN v.inventory + Gained(h, taken.fills)
                                   ELSE v.inventory
    BY <1>12, <2>2, <2>3, RoutedIs
  <2>5. LedgerFits(visitor'[h].open, venue', h, dropped' \cup swept')
    <3>1. dropped' \cup swept' = gone \cup taken.swept
      BY <1>4, <1>10
    <3>2. QED
      BY <1>12, <2>1, <2>4, <3>1
  <2>6. traded'[h] = IF v.here THEN traded[h] + Gained(h, posted.fills \cup taken.fills) ELSE 0
    BY <1>4, <2>1 DEF Traded
  <2>7. CASE \E id \in dropped' : id[1] = h
    BY <2>4, <2>5, <2>6, <2>7
  <2>8. CASE ~ \E id \in dropped' : id[1] = h
    <3>1. \A f \in posted.fills : f.takerOwner # h /\ f.makerOwner # h
      <4>1. ASSUME NEW f \in posted.fills, f.makerOwner = h PROVE FALSE
        <5>1. PICK s \in venue : f.maker = s.id /\ s.owner = h
          BY <1>6, <4>1 DEF Following
        <5>2. s.id[1] = h
          BY <5>1 DEF DemoInv, Sound, Named
        <5>3. f.maker \in dropped'
          BY <1>4
        <5>4. QED
          BY <2>8, <5>1, <5>2, <5>3
      <4>2. QED
        BY <1>5, <1>7, <4>1
    <3>2. Gained(h, posted.fills \cup taken.fills) = Gained(h, taken.fills)
      BY <1>7, <1>12, <3>1, GainedFrom
    <3>3. ~Dropped(h)
      BY <1>4, <2>8 DEF Dropped
    <3>4. v.inventory = traded[h] /\ (~v.here => v = Absent /\ traded[h] = 0)
      BY <2>1, <3>3 DEF DemoInv, LedgerIs
    <3>5. QED
      BY <2>4, <2>5, <2>6, <3>2, <3>4 DEF Absent
  <2>9. QED
    BY <2>7, <2>8
<1>14. DOMAIN visitor' = Visitors /\ DOMAIN traded' = Visitors /\ orders' \in Nat
  BY <1>4 DEF Traded, DemoInv
<1>15. QED
  BY <1>9, <1>12, <1>13, <1>14 DEF DemoInv, Dropped

\* What is left of a limit order joins the ledger.
SomeoneJoined(open, id, left) == [i \in DOMAIN open \cup {id} |-> IF i = id THEN left ELSE open[i]]

LEMMA HumanOrderKeepsLedgers ==
  ASSUME DemoAssumption, DemoInv, NEW h \in Visitors, NEW request \in VisitorOrders,
         SubmitHumanOrder(h, request)
  PROVE  DemoInv'
<1> DEFINE o == Order(<<h, orders + 1>>, h, request.side, request.qty, request.px, request.rests)
<1>1. PICK result : result = Submitted(venue, o)
  OBVIOUS
<1>2. PICK left : left = request.qty - Quantity(result.fills)
  OBVIOUS
<1>3. PICK routed : routed = [g \in Visitors |-> RoutedTo(visitor[g], g, result.fills)]
  OBVIOUS
<1>4. /\ visitor[h].here
      /\ venue' = result.book
      /\ maker' = [maker EXCEPT !.inventory = @ + Gained(TheMaker, result.fills)]
      /\ visitor' = IF request.rests /\ left > 0
                    THEN [routed EXCEPT ![h].open = SomeoneJoined(@, <<h, orders + 1>>, left)]
                    ELSE routed
      /\ orders' = orders + 1
      /\ traded' = Traded(result.fills)
      /\ swept' = swept \cup result.swept
      /\ dropped' = dropped
  <2>1. Routed(result.fills) = routed
    BY <1>3 DEF Routed, RoutedTo
  <2>2. QED
    BY <1>1, <1>2, <2>1 DEF SubmitHumanOrder, SomeoneJoined
<1>5. /\ o.qty = request.qty /\ o.qty \in Nat \ {0} /\ o.owner = h /\ o.rests = request.rests
      /\ o.id = <<h, orders + 1>> /\ orders \in Nat
  BY DEF Order, DemoAssumption, DemoInv
<1> HIDE DEF o
<1>6. SubmitIs(result, venue, o, orders, Visitors)
  <2>1. Sound(venue) /\ Unique(venue, Visitors) /\ Numbered(venue, orders, Visitors)
    BY DEF DemoInv
  <2>2. o.id = <<o.owner, orders + 1>>
    BY <1>5
  <2>3. QED
    BY <1>1, <1>5, <2>1, <2>2, OneSubmit
<1>7. /\ Sound(venue') /\ Unique(venue', Visitors) /\ Numbered(venue', orders', Visitors)
      /\ IsFiniteSet(result.fills) /\ left \in Int
      /\ \A id : Lost(result.fills, id) \in Nat
  BY <1>2, <1>4, <1>5, <1>6 DEF SubmitIs, FillsAre
<1>8. \A id \in {maker'.bid, maker'.ask} : id # None => id[1] = TheMaker
  <2>1. maker'.bid = maker.bid /\ maker'.ask = maker.ask
    BY <1>4
  <2>2. QED
    BY <2>1 DEF DemoInv
<1>9. ASSUME NEW g \in Visitors
      PROVE  /\ LedgerIs(visitor'[g], orders + 1, g)
             /\ LedgerFits(visitor'[g].open, venue', g, dropped' \cup swept')
             /\ visitor'[g].inventory = traded'[g] \/ Dropped(g)
             /\ ~visitor'[g].here => traded'[g] = 0
  <2>1. PICK v : v = visitor[g]
    OBVIOUS
  <2>2. LedgerIs(v, orders, g) /\ orders \in Nat /\ orders + 1 \in Nat /\ orders <= orders + 1
    BY <2>1 DEF DemoInv
  <2>3. PICK w : w = RoutedTo(v, g, result.fills)
    OBVIOUS
  <2>4. PICK less : less = Less(v.open, result.fills)
    OBVIOUS
  <2>5. /\ LedgerIs(w, orders + 1, g) /\ w.here = v.here /\ w.open = less
        /\ w.inventory = IF v.here THEN v.inventory + Gained(g, result.fills) ELSE v.inventory
    BY <1>7, <2>2, <2>3, <2>4, RoutedIs
  <2>6. PICK gone : gone = dropped \cup swept
    OBVIOUS
  <2>7. Counted(v.open) /\ LedgerFits(v.open, venue, g, gone) /\ Sound(venue)
    BY <2>1, <2>6 DEF DemoInv, LedgerIs, Counted
  <2>8. /\ \A r \in result.book : r.owner = g =>
             \/ r.id \in DOMAIN less /\ less[r.id] >= r.qty
             \/ /\ o.rests /\ r.id = o.id /\ o.owner = g
                /\ r.qty = o.qty - Quantity(result.fills)
        /\ \A id \in DOMAIN less : id \notin gone \cup result.swept =>
             \E r \in result.book : r.owner = g /\ r.id = id /\ r.qty = less[id]
    BY <1>6, <2>4, <2>7, SubmitMatches DEF SubmitIs
  <2>9. dropped' \cup swept' = gone \cup result.swept
    BY <1>4, <2>6
  <2>10. traded'[g] = IF v.here THEN traded[g] + Gained(g, result.fills) ELSE 0
    BY <1>4, <2>1 DEF Traded
  <2>11. (v.inventory = traded[g] \/ Dropped(g)) /\ (~v.here => traded[g] = 0 /\ v = Absent)
    BY <2>1 DEF DemoInv, LedgerIs
  <2>12. (w.inventory = traded'[g] \/ Dropped(g)) /\ (~w.here => traded'[g] = 0)
    BY <2>5, <2>10, <2>11 DEF Absent
  <2>13. CASE g # h \/ ~(request.rests /\ left > 0)
    <3>1. visitor'[g] = w
      BY <1>3, <1>4, <2>1, <2>3, <2>13
    <3>2. \A r \in result.book : r.owner = g => r.id \in DOMAIN less /\ less[r.id] >= r.qty
      <4>1. ASSUME NEW r \in result.book, o.rests, o.owner = g,
                   r.qty = o.qty - Quantity(result.fills)
            PROVE  FALSE
        <5>1. r.qty > 0
          BY <1>6 DEF SubmitIs, Sound, Sized
        <5>2. QED
          BY <1>2, <1>5, <2>13, <4>1, <5>1
      <4>2. QED
        BY <2>8, <4>1
    <3>3. LedgerFits(less, result.book, g, gone \cup result.swept)
      BY <2>8, <3>2 DEF LedgerFits
    <3>4. QED
      BY <1>4, <2>5, <2>9, <2>12, <3>1, <3>3
  <2>14. CASE g = h /\ request.rests /\ left > 0
    <3>1. PICK new : new = SomeoneJoined(less, <<h, orders + 1>>, left)
      OBVIOUS
    <3>2. /\ w = [here |-> w.here, inventory |-> w.inventory, open |-> w.open]
          /\ visitor'[h] = [w EXCEPT !.open = SomeoneJoined(@, <<h, orders + 1>>, left)]
      <4>1. routed[h] = w /\ DOMAIN routed = Visitors
        BY <1>3, <2>1, <2>3, <2>14
      <4>2. visitor'[h] = [routed[h] EXCEPT !.open = SomeoneJoined(@, <<h, orders + 1>>, left)]
        BY <1>4, <2>14, <4>1
      <4>3. QED
        BY <2>5, <4>1, <4>2 DEF LedgerIs
    <3>3. visitor'[g] = [here |-> w.here, inventory |-> w.inventory, open |-> new]
      BY <2>5, <2>14, <3>1, <3>2
    <3>4. /\ DOMAIN new = DOMAIN less \cup {<<h, orders + 1>>}
          /\ new = [i \in DOMAIN new |-> new[i]]
          /\ new[<<h, orders + 1>>] = left
          /\ \A i \in DOMAIN less : i # <<h, orders + 1>> => new[i] = less[i]
      BY <3>1 DEF SomeoneJoined
    <3>5. \A i \in DOMAIN less : i # <<h, orders + 1>>
      <4>1. DOMAIN less \subseteq DOMAIN v.open
        BY <1>7, <2>4, <2>7, LessIs
      <4>2. \A i \in 1..orders : <<g, i>> # <<h, orders + 1>>
        BY <2>2
      <4>3. QED
        BY <2>2, <4>1, <4>2 DEF LedgerIs
    <3>6. LedgerIs(visitor'[g], orders + 1, g)
      <4>1. orders + 1 \in 1..(orders + 1)
        BY <2>2
      <4>2. w.here = TRUE
        BY <1>4, <2>1, <2>2, <2>5, <2>14 DEF LedgerIs
      <4>3. \A i \in DOMAIN less : less[i] \in Nat \ {0} /\ \E k \in 1..(orders + 1) : i = <<g, k>>
        BY <2>5 DEF LedgerIs
      <4>4. \A i \in DOMAIN new : new[i] \in Nat \ {0} /\ \E k \in 1..(orders + 1) : i = <<g, k>>
        BY <1>7, <2>14, <3>4, <3>5, <4>1, <4>3
      <4>5. PICK u : u = visitor'[g]
        OBVIOUS
      <4>6. /\ u = [here |-> u.here, inventory |-> u.inventory, open |-> u.open]
            /\ u.here = TRUE /\ u.open = new
        BY <3>3, <4>2, <4>5
      <4>7. LedgerIs(u, orders + 1, g)
        BY <3>4, <4>4, <4>6 DEF LedgerIs
      <4>8. QED
        BY <4>5, <4>7
    <3>7. LedgerFits(new, result.book, g, gone \cup result.swept)
      <4>1. ASSUME NEW r \in result.book, r.owner = g
            PROVE  r.id \in DOMAIN new /\ new[r.id] >= r.qty
        <5>1. CASE r.id \in DOMAIN less /\ less[r.id] >= r.qty
          BY <3>4, <3>5, <5>1
        <5>2. CASE r.id = o.id /\ r.qty = o.qty - Quantity(result.fills)
          BY <1>2, <1>5, <1>7, <3>4, <5>2
        <5>3. QED
          BY <2>8, <4>1, <5>1, <5>2
      <4>2. \E r \in result.book : r.owner = g /\ r.id = <<h, orders + 1>> /\ r.qty = left
        BY <1>2, <1>5, <1>6, <2>14 DEF SubmitIs
      <4>3. ASSUME NEW i \in DOMAIN new, i \notin gone \cup result.swept
            PROVE  \E r \in result.book : r.owner = g /\ r.id = i /\ r.qty = new[i]
        BY <2>8, <3>4, <3>5, <4>2, <4>3
      <4>4. QED
        BY <4>1, <4>3 DEF LedgerFits
    <3>8. visitor'[g].here = w.here /\ visitor'[g].inventory = w.inventory /\ visitor'[g].open = new
      BY <3>3
    <3>9. QED
      BY <1>4, <2>9, <2>12, <3>6, <3>7, <3>8
  <2>15. QED
    BY <2>13, <2>14
<1>10. DOMAIN visitor' = Visitors /\ DOMAIN traded' = Visitors
  BY <1>3, <1>4 DEF Traded
<1>11. \A g \in Visitors : Dropped(g) <=> \E id \in dropped' : id[1] = g
  BY <1>4 DEF Dropped
<1>12. orders' \in Nat
  BY <1>4, <1>5
<1>13. ASSUME NEW g \in Visitors
       PROVE  /\ LedgerIs(visitor'[g], orders', g)
              /\ visitor'[g].inventory = traded'[g] \/ \E id \in dropped' : id[1] = g
  BY <1>4, <1>9, <1>11
<1>14. QED
  BY <1>7, <1>8, <1>9, <1>10, <1>12, <1>13 DEF DemoInv, Dropped

\* Orders that are taken away are taken from both.
LEMMA WithoutKeeps ==
  ASSUME NEW book, Sound(book), NEW V, Unique(book, V), NEW n, Numbered(book, n, V),
         NEW ids, NEW b, b = Without(book, ids)
  PROVE  /\ Sound(b) /\ Unique(b, V) /\ Numbered(b, n, V)
         /\ \A r : r \in b <=> r \in book /\ r.id \notin ids
<1>1. /\ Shaped(b) /\ b \subseteq book
      /\ \A r : r \in b <=> r \in book /\ r.id \notin ids
  BY WithoutIs DEF Without, Sound
<1>2. QED
  BY <1>1 DEF Sound, Sized, Named, Unique, Numbered

LEMMA CancelKeepsLedgers ==
  ASSUME DemoInv, NEW h \in Visitors, NEW id, CancelHumanOrder(h, id)
  PROVE  DemoInv'
<1>1. PICK v : v = visitor[h]
  OBVIOUS
<1>2. LedgerIs(v, orders, h) /\ LedgerFits(v.open, venue, h, dropped \cup swept)
  BY <1>1 DEF DemoInv
<1>3. PICK open : open = [i \in DOMAIN v.open \ {id} |-> v.open[i]]
  OBVIOUS
<1>4. /\ v.here /\ id \in DOMAIN v.open
      /\ venue' = Without(venue, {id})
      /\ visitor' = [visitor EXCEPT ![h].open = open]
      /\ UNCHANGED <<maker, orders, traded, dropped, swept>>
  BY <1>1, <1>3 DEF CancelHumanOrder
<1>5. /\ Sound(venue') /\ Unique(venue', Visitors) /\ Numbered(venue', orders, Visitors)
      /\ \A r : r \in venue' <=> r \in venue /\ r.id # id
  <2>1. Sound(venue) /\ Unique(venue, Visitors) /\ Numbered(venue, orders, Visitors)
    BY DEF DemoInv
  <2>2. /\ Sound(venue') /\ Unique(venue', Visitors) /\ Numbered(venue', orders, Visitors)
        /\ \A r : r \in venue' <=> r \in venue /\ r.id \notin {id}
    BY <1>4, <2>1, WithoutKeeps
  <2>3. QED
    BY <2>2
<1>6. visitor'[h] = [here |-> v.here, inventory |-> v.inventory, open |-> open]
  BY <1>1, <1>2, <1>4 DEF LedgerIs, DemoInv
<1>7. LedgerIs(visitor'[h], orders, h)
  <2>1. /\ DOMAIN open = DOMAIN v.open \ {id} /\ open = [i \in DOMAIN open |-> open[i]]
        /\ \A i \in DOMAIN open : open[i] = v.open[i]
    BY <1>3
  <2>2. PICK u : u = visitor'[h]
    OBVIOUS
  <2>3. /\ u = [here |-> u.here, inventory |-> u.inventory, open |-> u.open]
        /\ u.here = v.here /\ u.open = open
    BY <1>6, <2>2
  <2>4. v.here = TRUE
    BY <1>2, <1>4 DEF LedgerIs
  <2>5. LedgerIs(u, orders, h)
    BY <1>2, <2>1, <2>3, <2>4 DEF LedgerIs
  <2>6. QED
    BY <2>2, <2>5
<1>8. LedgerFits(open, venue', h, dropped \cup swept)
  <2>1. /\ DOMAIN open = DOMAIN v.open \ {id}
        /\ \A i \in DOMAIN open : open[i] = v.open[i]
    BY <1>3
  <2>2. QED
    BY <1>2, <1>5, <2>1 DEF LedgerFits
<1>9. ASSUME NEW g \in Visitors
      PROVE  /\ LedgerIs(visitor'[g], orders, g)
             /\ LedgerFits(visitor'[g].open, venue', g, dropped \cup swept)
             /\ visitor'[g].inventory = visitor[g].inventory
             /\ visitor'[g].here = visitor[g].here
  <2>1. CASE g = h
    BY <1>1, <1>6, <1>7, <1>8, <2>1
  <2>2. CASE g # h
    <3>1. visitor'[g] = visitor[g]
      BY <1>4, <2>2 DEF DemoInv
    <3>2. id[1] = h
      BY <1>2, <1>4 DEF LedgerIs
    <3>3. \A r \in venue : r.owner = g => r.id # id
      BY <2>2, <3>2 DEF DemoInv, Sound, Named
    <3>4. LedgerFits(visitor[g].open, venue, g, dropped \cup swept) /\ LedgerIs(visitor[g], orders, g)
      BY DEF DemoInv
    <3>5. QED
      BY <1>5, <3>1, <3>3, <3>4 DEF LedgerFits
  <2>3. QED
    BY <2>1, <2>2
<1>10. QED
  BY <1>4, <1>5, <1>9 DEF DemoInv, Dropped

LEMMA UnregisterKeepsLedgers ==
  ASSUME DemoInv, NEW h \in Visitors, Unregister(h)
  PROVE  DemoInv'
<1>1. PICK ids : ids = DOMAIN visitor[h].open
  OBVIOUS
<1>2. /\ venue' = Without(venue, ids)
      /\ visitor' = [visitor EXCEPT ![h] = Absent] /\ traded' = [traded EXCEPT ![h] = 0]
      /\ UNCHANGED <<maker, orders, dropped, swept>>
  BY <1>1 DEF Unregister
<1>3. /\ Sound(venue') /\ Unique(venue', Visitors) /\ Numbered(venue', orders, Visitors)
      /\ \A r : r \in venue' <=> r \in venue /\ r.id \notin ids
  <2>1. Sound(venue) /\ Unique(venue, Visitors) /\ Numbered(venue, orders, Visitors)
    BY DEF DemoInv
  <2>2. QED
    BY <1>2, <2>1, WithoutKeeps
<1>4. ASSUME NEW g \in Visitors
      PROVE  /\ LedgerIs(visitor'[g], orders, g)
             /\ LedgerFits(visitor'[g].open, venue', g, dropped \cup swept)
             /\ visitor'[g].inventory = traded'[g] \/ Dropped(g)
             /\ ~visitor'[g].here => traded'[g] = 0
  <2>1. CASE g = h
    <3>1. visitor'[g] = Absent /\ traded'[g] = 0
      BY <1>2, <2>1 DEF DemoInv
    <3>2. DOMAIN NoneOpen = {} /\ NoneOpen = [i \in DOMAIN NoneOpen |-> NoneOpen[i]]
      BY DEF NoneOpen
    <3>3. /\ Absent.here = FALSE /\ Absent.open = NoneOpen /\ Absent.inventory = 0
          /\ Absent = [here |-> Absent.here, inventory |-> Absent.inventory, open |-> Absent.open]
      BY DEF Absent
    <3>4. LedgerIs(Absent, orders, g)
      BY <3>2, <3>3 DEF LedgerIs
    <3>5. \A r \in venue' : r.owner # h
      BY <1>1, <1>3 DEF DemoInv, LedgerFits
    <3>6. LedgerFits(NoneOpen, venue', g, dropped \cup swept)
      BY <2>1, <3>2, <3>5 DEF LedgerFits
    <3>7. QED
      BY <3>1, <3>3, <3>4, <3>6
  <2>2. CASE g # h
    <3>1. visitor'[g] = visitor[g] /\ traded'[g] = traded[g]
      BY <1>2, <2>2 DEF DemoInv
    <3>2. ASSUME NEW id \in ids PROVE id[1] = h
      <4>1. PICK i \in 1..orders : id = <<h, i>>
        BY <1>1 DEF DemoInv, LedgerIs
      <4>2. QED
        BY <4>1
    <3>3. \A r \in venue : r.owner = g => r.id \notin ids
      BY <2>2, <3>2 DEF DemoInv, Sound, Named
    <3>4. /\ LedgerFits(visitor[g].open, venue, g, dropped \cup swept) /\ LedgerIs(visitor[g], orders, g)
          /\ visitor[g].inventory = traded[g] \/ Dropped(g)
          /\ ~visitor[g].here => traded[g] = 0
      BY DEF DemoInv
    <3>5. QED
      BY <1>3, <3>1, <3>3, <3>4 DEF LedgerFits
  <2>3. QED
    BY <2>1, <2>2
<1>5. QED
  BY <1>2, <1>3, <1>4 DEF DemoInv, Dropped

LEMMA RegisterKeepsLedgers ==
  ASSUME DemoInv, NEW h \in Visitors, Register(h)
  PROVE  DemoInv'
<1>1. PICK v : v = [Absent EXCEPT !.here = TRUE]
  OBVIOUS
<1>2. /\ ~visitor[h].here /\ visitor' = [visitor EXCEPT ![h] = v]
      /\ UNCHANGED <<venue, maker, orders, traded, dropped, swept>>
  BY <1>1 DEF Register
<1>a. /\ v.here = TRUE /\ v.inventory = 0 /\ v.open = NoneOpen
      /\ v = [here |-> v.here, inventory |-> v.inventory, open |-> v.open]
  BY <1>1 DEF Absent
<1>3. visitor[h] = Absent /\ traded[h] = 0 /\ Absent.open = NoneOpen
  BY <1>2 DEF DemoInv, LedgerIs, Absent
<1>4. DOMAIN NoneOpen = {} /\ NoneOpen = [i \in DOMAIN NoneOpen |-> NoneOpen[i]]
  BY DEF NoneOpen
<1>5. LedgerIs(v, orders, h)
  BY <1>a, <1>4 DEF LedgerIs
<1>6. LedgerFits(v.open, venue, h, dropped \cup swept)
  <2>1. LedgerFits(Absent.open, venue, h, dropped \cup swept)
    BY <1>3 DEF DemoInv
  <2>2. QED
    BY <1>a, <1>3, <2>1
<1>7. \A g \in Visitors : visitor'[g] = IF g = h THEN v ELSE visitor[g]
  BY <1>2 DEF DemoInv
<1>8. v.here /\ v.inventory = 0
  BY <1>a
<1>9. QED
  BY <1>2, <1>3, <1>5, <1>6, <1>7, <1>8 DEF DemoInv, Dropped

LEMMA DemoKeeps ==
  ASSUME DemoAssumption, DemoInv, [DemoNext]_demoVars
  PROVE  DemoInv'
<1>1. CASE Step
  BY <1>1, StepKeepsLedgers DEF Step
<1>2. ASSUME NEW h \in Visitors, Register(h) PROVE DemoInv'
  BY <1>2, RegisterKeepsLedgers
<1>3. ASSUME NEW h \in Visitors, Unregister(h) PROVE DemoInv'
  BY <1>3, UnregisterKeepsLedgers
<1>4. ASSUME NEW h \in Visitors, NEW request \in VisitorOrders, SubmitHumanOrder(h, request)
      PROVE  DemoInv'
  BY <1>4, HumanOrderKeepsLedgers
<1>5. ASSUME NEW h \in Visitors, NEW id, CancelHumanOrder(h, id) PROVE DemoInv'
  BY <1>5, CancelKeepsLedgers
<1>6. CASE UNCHANGED demoVars
  BY <1>6 DEF demoVars, DemoInv, Dropped
<1>7. QED
  BY <1>1, <1>2, <1>3, <1>4, <1>5, <1>6 DEF DemoNext

\* A visitor's ledger covers all that rests for it in the book, and agrees with it
\* and with the visitor's fills unless the step dropped a fill or self-trade
\* prevention took an order away.
THEOREM LedgersFollowTheBook == DemoSpec => []LedgerIsTheBook
<1>1. DemoInv => LedgerIsTheBook
  BY DEF DemoInv, LedgerIsTheBook, LedgerFits, Resting
<1>2. DemoInit => DemoInv
  BY DemoInitial
<1>3. DemoInv /\ [DemoNext]_demoVars => DemoInv'
  BY DemoKeeps, DemoAssumption
<1>4. QED
  BY <1>1, <1>2, <1>3, PTL DEF DemoSpec

-------------------------------------------------------------------------------
(* Market: the fills of an answer, in their order                              *)

\* The ranks of the members of an ordered set are the numbers up to its size.
Orders(R, S) ==
  /\ \A r \in S : <<r, r>> \notin R
  /\ \A r, s, t \in S : <<r, s>> \in R /\ <<s, t>> \in R => <<r, t>> \in R
  /\ \A r, s \in S : r # s => <<r, s>> \in R \/ <<s, r>> \in R
LEMMA RanksAreAll ==
  ASSUME NEW S, IsFiniteSet(S), NEW R, Orders(R, S), NEW f,
         f = [r \in S |-> 1 + Cardinality({s \in S : <<s, r>> \in R})]
  PROVE  /\ \A r, s \in S : f[r] = f[s] => r = s
         /\ \A n \in 1..Cardinality(S) : \E r \in S : f[r] = n
<1> DEFINE below(r) == {s \in S : <<s, r>> \in R}
           n == Cardinality(S)
           T == 1..n
<1>1. n \in Nat
  BY FS_CardinalityType
<1>2. ASSUME NEW r \in S
      PROVE  IsFiniteSet(below(r)) /\ Cardinality(below(r)) \in Nat /\ Cardinality(below(r)) < n
  <2>1. below(r) \subseteq S /\ below(r) # S
    BY DEF Orders
  <2> HIDE DEF below
  <2>2. IsFiniteSet(below(r)) /\ Cardinality(below(r)) <= n /\ Cardinality(below(r)) # n
    BY <2>1, FS_Subset
  <2>3. Cardinality(below(r)) \in Nat
    BY <2>2, FS_CardinalityType
  <2>4. QED
    BY <1>1, <2>2, <2>3
<1>3. ASSUME NEW r \in S, NEW t \in S, <<r, t>> \in R
      PROVE  Cardinality(below(r)) < Cardinality(below(t))
  <2>1. below(r) \subseteq below(t) /\ r \in below(t) /\ r \notin below(r)
    BY <1>3 DEF Orders
  <2>2. IsFiniteSet(below(t)) /\ Cardinality(below(t)) \in Nat /\ Cardinality(below(r)) \in Nat
    BY <1>2
  <2> HIDE DEF below
  <2>3. Cardinality(below(r)) <= Cardinality(below(t)) /\ Cardinality(below(r)) # Cardinality(below(t))
    BY <2>1, <2>2, FS_Subset
  <2>4. QED
    BY <2>2, <2>3
<1>4. \A r \in S : f[r] = 1 + Cardinality(below(r)) /\ DOMAIN f = S
  OBVIOUS
<1>5. f \in [S -> T]
  <2> HIDE DEF below, n
  <2>1. \A r \in S : f[r] \in T
    BY <1>1, <1>2, <1>4
  <2>2. QED
    BY <2>1
<1>6. \A r, s \in S : f[r] = f[s] => r = s
  <2>1. SUFFICES ASSUME NEW r \in S, NEW s \in S, r # s PROVE f[r] # f[s]
    OBVIOUS
  <2>2. <<r, s>> \in R \/ <<s, r>> \in R
    BY <2>1 DEF Orders
  <2> HIDE DEF below
  <2>3. QED
    BY <1>2, <1>3, <1>4, <2>2
<1>7. f \in Injection(S, T)
  BY <1>4, <1>5, <1>6 DEF Injection, IsInjective
<1>8. IsFiniteSet(T) /\ Cardinality(T) = n
  <2>1. 1 \in Int /\ n \in Int
    BY <1>1
  <2> HIDE DEF n
  <2>2. IsFiniteSet(T) /\ Cardinality(T) = IF 1 > n THEN 0 ELSE n - 1 + 1
    BY <2>1, FS_Interval
  <2>3. QED
    BY <1>1, <2>2
<1> HIDE DEF T
<1>9. f \in Surjection(S, T)
  BY <1>7, <1>8, FS_Injection
<1>10. QED
  BY <1>6, <1>9 DEF Surjection, T

\* Everybody's place in the book is known.
Queued(book) ==
  /\ \A r \in book : r.side \in {"buy", "sell"} /\ r.px \in Int /\ r.at \in Nat
  /\ \A r, s \in book : r.side = s.side /\ r.px = s.px /\ r.at = s.at => r = s

LEMMA HitInOrder ==
  ASSUME NEW book, Queued(book), NEW o, o.side \in {"buy", "sell"},
         NEW R, R = {p \in Hit(book, o) \X Hit(book, o) : Before(p[1], p[2])}
  PROVE  Orders(R, Hit(book, o))
<1> DEFINE S == Hit(book, o)
<1>1. PICK side \in {"buy", "sell"} : \A r \in S : r.side = side
  <2>1. \A r \in S : r \in book /\ r.side # o.side
    BY ReachedAre DEF Met
  <2>2. QED
    BY <2>1 DEF Queued
<1>2. \A r \in S : r \in book /\ r.px \in Int /\ r.at \in Nat
  BY ReachedAre DEF Queued
<1>3. \A r, s \in S : <<r, s>> \in R <=> Before(r, s)
  OBVIOUS
<1> HIDE DEF S
<1>4. \A r, s \in S : Before(r, s) <=>
        (IF side = "buy" THEN r.px > s.px ELSE r.px < s.px) \/ (r.px = s.px /\ r.at < s.at)
  BY <1>1 DEF Before, Better
<1>5. \A r \in S : ~Before(r, r)
  BY <1>2, <1>4
<1>6. ASSUME NEW r \in S, NEW s \in S, NEW t \in S, Before(r, s), Before(s, t) PROVE Before(r, t)
  BY <1>2, <1>4, <1>6
<1>7. ASSUME NEW r \in S, NEW s \in S, r # s PROVE Before(r, s) \/ Before(s, r)
  <2>1. r.px # s.px \/ r.at # s.at
    BY <1>1, <1>2, <1>7 DEF Queued
  <2>2. QED
    BY <1>2, <1>4, <2>1
<1>8. QED
  BY <1>3, <1>5, <1>6, <1>7 DEF Orders, S

\* An answer lists every fill, each at its place.
Lists(list, fills) ==
  \E n \in Nat : list = [i \in 1..n |-> list[i]] /\ \A i \in 1..n : list[i] \in fills
LEMMA ListedAreFills ==
  ASSUME NEW book, Shaped(book), Queued(book), NEW o, o.side \in {"buy", "sell"},
         NEW list, list = Listed(Submitted(book, o).fills)
  PROVE  Lists(list, Submitted(book, o).fills)
<1> DEFINE S == Hit(book, o)
           R == {p \in S \X S : Before(p[1], p[2])}
           rank == [r \in S |-> 1 + Cardinality({s \in S : <<s, r>> \in R})]
           fill(r) ==
             [nth |-> 1 + Cardinality({s \in S : Before(s, r)}),
              maker |-> r.id, makerOwner |-> r.owner, taker |-> o.id, takerOwner |-> o.owner,
              side |-> o.side, qty |-> Taken(book, o, r)]
           fills == Submitted(book, o).fills
           n == Cardinality(fills)
<1>1. fills = {fill(r) : r \in S}
  BY DEF Submitted, Outcome, FillsOf
<1>2. IsFiniteSet(S)
  BY FS_Subset DEF Hit, Reached, Met, Shaped
<1>3. \A r \in S : fill(r).nth = rank[r]
  <2>1. \A r \in S : {s \in S : <<s, r>> \in R} = {s \in S : Before(s, r)}
    OBVIOUS
  <2>2. QED
    BY <2>1
<1>4. /\ \A r, s \in S : rank[r] = rank[s] => r = s
      /\ \A i \in 1..Cardinality(S) : \E r \in S : rank[r] = i
  <2>1. Orders(R, S)
    BY HitInOrder
  <2>a. rank = [r \in S |-> 1 + Cardinality({s \in S : <<s, r>> \in R})]
    OBVIOUS
  <2> HIDE DEF S, R, rank
  <2>2. QED
    BY <1>2, <2>1, <2>a, RanksAreAll
<1> HIDE DEF rank, fill, fills, S, R
<1>5. Cardinality(fills) = Cardinality(S)
  <2> DEFINE g == [r \in S |-> fill(r)]
  <2>1. g \in Surjection(S, fills) /\ g \in Injection(S, fills)
    BY <1>1, <1>3, <1>4 DEF Surjection, Injection, IsInjective
  <2> HIDE DEF g
  <2>2. QED
    BY <1>2, <2>1, FS_Surjection
<1>6. \A i \in 1..n : (CHOOSE f \in fills : f.nth = i) \in fills
  <2>1. ASSUME NEW i \in 1..n PROVE \E f \in fills : f.nth = i
    BY <1>1, <1>3, <1>4, <1>5
  <2>2. QED
    BY <2>1
<1>7. n \in Nat
  BY <1>2, <1>5, FS_CardinalityType
<1>8. list = [i \in 1..n |-> CHOOSE f \in fills : f.nth = i]
  BY DEF Listed, fills
<1> HIDE DEF n
<1>9. /\ list = [i \in 1..n |-> list[i]]
      /\ \A i \in 1..n : list[i] \in fills
  BY <1>6, <1>8
<1>10. QED
  BY <1>7, <1>9 DEF fills, Lists

LEMMA QueuedAfterSubmit ==
  ASSUME NEW book, Shaped(book), Queued(book), NEW o, o.side \in {"buy", "sell"}, o.px \in Int,
         NEW b, b = Submitted(book, o).book
  PROVE  Queued(b)
<1>1. /\ Shaped(b)
      /\ \A r \in b : (\E s \in book : Remains(book, o, s, r)) \/ Rests(book, o, r)
  BY SubmittedBook
<1>2. PICK after : after = AfterTaking(book, o)
  OBVIOUS
<1>3. Shaped(after) /\ \A r \in after : \E s \in book : Remains(book, o, s, r)
  BY <1>2, AfterTakingIs
<1>4. Queued(after)
  <2>1. \A r \in after : r.side \in {"buy", "sell"} /\ r.px \in Int /\ r.at \in Nat
    BY <1>3 DEF Remains, SameOrder, Queued
  <2>2. ASSUME NEW r \in after, NEW t \in after, r.side = t.side, r.px = t.px, r.at = t.at
        PROVE  r = t
    <3>1. PICK s \in book : Remains(book, o, s, r)
      BY <1>3
    <3>2. PICK u \in book : Remains(book, o, u, t)
      BY <1>3
    <3>3. s = u
      <4>1. s.side = r.side /\ s.px = r.px /\ s.at = r.at
        BY <3>1 DEF Remains, SameOrder
      <4>2. u.side = t.side /\ u.px = t.px /\ u.at = t.at
        BY <3>2 DEF Remains, SameOrder
      <4>3. QED
        BY <2>2, <4>1, <4>2 DEF Queued
    <3>4. r.id = t.id /\ r.owner = t.owner /\ r.qty = t.qty
      BY <3>1, <3>2, <3>3 DEF Remains, SameOrder
    <3>5. QED
      BY <1>3, <2>2, <3>4 DEF Shaped
  <2>3. QED
    BY <2>1, <2>2 DEF Queued
<1>5. PICK left : left = o.qty - Quantity(FillsOf(book, o))
  OBVIOUS
<1>6. b = IF o.rests /\ left > 0 THEN Rested(after, o, left) ELSE after
  BY <1>2, <1>5 DEF Submitted, Outcome
<1>7. CASE o.rests /\ left > 0
  <2> DEFINE ats == {0} \cup {r.at : r \in Queue(after, o.side, o.px)}
  <2>1. PICK last : last = Max(ats)
    OBVIOUS
  <2>2. last \in Nat /\ \A r \in Queue(after, o.side, o.px) : r.at <= last
    <3>1. Queue(after, o.side, o.px) \subseteq after
      BY DEF Queue
    <3>2. IsFiniteSet(ats)
      <4> DEFINE Q == Queue(after, o.side, o.px)
                 f == [r \in Q |-> r.at]
                 T == {f[r] : r \in Q}
      <4>1. IsFiniteSet(Q)
        BY <1>3, <3>1, FS_Subset DEF Shaped
      <4>2. ats = T \cup {0}
        OBVIOUS
      <4> HIDE DEF Q, f
      <4>3. IsFiniteSet(T)
        BY <4>1, ValuesFinite
      <4> HIDE DEF T, ats
      <4>4. QED
        BY <4>2, <4>3, FS_AddElement
    <3>3. ats \subseteq Nat /\ 0 \in ats /\ \A r \in Queue(after, o.side, o.px) : r.at \in ats
      BY <1>4, <3>1 DEF Queued
    <3> HIDE DEF ats
    <3>a. Numbers(ats) /\ ats # {}
      BY <3>3 DEF Numbers
    <3>4. last \in ats /\ \A y \in ats : last >= y
      BY <2>1, <3>2, <3>a, MaxIsGreatest
    <3>5. QED
      BY <3>3, <3>4
  <2> HIDE DEF ats
  <2>3. PICK new : new = [id |-> o.id, owner |-> o.owner, side |-> o.side, qty |-> left,
                          px |-> o.px, at |-> 1 + last]
    OBVIOUS
  <2>4. b = after \cup {new}
    BY <1>6, <1>7, <2>1, <2>3 DEF Rested, ats
  <2>5. new.side = o.side /\ new.px = o.px /\ new.at = 1 + last
    BY <2>3
  <2>6. \A r \in after : ~(r.side = new.side /\ r.px = new.px /\ r.at = new.at)
    <3>1. SUFFICES ASSUME NEW r \in after, r.side = o.side, r.px = o.px, r.at = 1 + last PROVE FALSE
      BY <2>5
    <3>2. r \in Queue(after, o.side, o.px)
      BY <3>1 DEF Queue
    <3>3. QED
      BY <2>2, <3>1, <3>2
  <2>7. new.at \in Nat
    BY <2>2, <2>5
  <2>8. QED
    BY <1>4, <2>4, <2>5, <2>6, <2>7 DEF Queued
<1>8. CASE ~(o.rests /\ left > 0)
  BY <1>4, <1>6, <1>8
<1>9. QED
  BY <1>7, <1>8

-------------------------------------------------------------------------------
(* Market: windows                                                             *)

IsList(s) == \E S : s \in Seq(S)

LEMMA ListIs ==
  ASSUME NEW s, IsList(s)
  PROVE  /\ Len(s) \in Nat /\ DOMAIN s = 1..Len(s) /\ s \in Seq(ToSet(s))
         /\ \A x : x \in ToSet(s) <=> \E i \in 1..Len(s) : s[i] = x
<1>1. PICK S : s \in Seq(S)
  BY DEF IsList
<1>2. Len(s) \in Nat /\ DOMAIN s = 1..Len(s) /\ s \in [1..Len(s) -> S]
  BY <1>1, LenProperties
<1>3. \A x : x \in ToSet(s) <=> \E i \in 1..Len(s) : s[i] = x
  BY <1>2 DEF ToSet
<1>4. s \in [1..Len(s) -> ToSet(s)]
  BY <1>2, <1>3
<1>5. s \in Seq(ToSet(s))
  BY <1>2, <1>4, SeqDef
<1>6. QED
  BY <1>2, <1>3, <1>5

Joins(u, s, t) ==
  /\ IsList(u) /\ Len(u) = Len(s) + Len(t)
  /\ \A i \in 1..Len(s) : u[i] = s[i]
  /\ \A i \in 1..Len(t) : u[Len(s) + i] = t[i]
LEMMA JoinedLists ==
  ASSUME NEW s, NEW t, IsList(s), IsList(t)
  PROVE  Joins(s \o t, s, t)
<1> DEFINE u == s \o t
<1> DEFINE T == ToSet(s) \cup ToSet(t)
<1>1. s \in Seq(T) /\ t \in Seq(T) /\ Len(s) \in Nat /\ Len(t) \in Nat
  <2>1. s \in Seq(ToSet(s)) /\ t \in Seq(ToSet(t)) /\ ToSet(s) \subseteq T /\ ToSet(t) \subseteq T
    BY ListIs
  <2> HIDE DEF T
  <2>2. QED
    BY <2>1, SeqMonotonic, ListIs
<1> HIDE DEF T
<1>2. /\ u \in Seq(T) /\ Len(u) = Len(s) + Len(t)
      /\ \A i \in 1..(Len(s) + Len(t)) : u[i] = IF i <= Len(s) THEN s[i] ELSE t[i - Len(s)]
  BY <1>1, ConcatProperties
<1> HIDE DEF u
<1>3. \A i \in 1..Len(s) : u[i] = s[i]
  BY <1>1, <1>2
<1>4. ASSUME NEW i \in 1..Len(t) PROVE u[Len(s) + i] = t[i]
  <2>1. Len(s) + i \in 1..(Len(s) + Len(t)) /\ ~(Len(s) + i <= Len(s)) /\ Len(s) + i - Len(s) = i
    BY <1>1
  <2>2. QED
    BY <1>2, <2>1
<1>5. QED
  BY <1>2, <1>3, <1>4 DEF IsList, Joins, u

LEMMA ListOfOne ==
  ASSUME NEW x
  PROVE  /\ IsList(<<x>>) /\ Len(<<x>>) = 1 /\ <<x>>[1] = x
         /\ \A s : IsList(s) => Append(s, x) = s \o <<x>>
<1>1. <<x>> \in Seq({x})
  OBVIOUS
<1>2. ASSUME NEW s, IsList(s) PROVE Append(s, x) = s \o <<x>>
  <2>1. PICK S : s \in Seq(S)
    BY <1>2 DEF IsList
  <2>2. s \in Seq(S \cup {x}) /\ x \in S \cup {x}
    BY <2>1, SeqMonotonic
  <2>3. QED
    BY <2>2
<1>3. QED
  BY <1>1, <1>2 DEF IsList

Positive(n) == n \in Nat \ {0}

NewestPart(w, s, n) ==
  /\ IsList(w) /\ Len(w) = IF Len(s) <= n THEN Len(s) ELSE n
  /\ \A k \in 1..Len(w) : w[k] = s[Len(s) - Len(w) + k]
LEMMA NewestIs ==
  ASSUME NEW s, IsList(s), NEW n, Positive(n)
  PROVE  NewestPart(Newest(s, n), s, n)
<1>0. PICK w : w = Newest(s, n)
  OBVIOUS
<1> DEFINE T == ToSet(s)
           first == Max({1, Len(s) - n + 1})
<1>1. Len(s) \in Nat /\ (\A i \in 1..Len(s) : s[i] \in T) /\ n \in Nat \ {0}
  BY ListIs DEF Positive
<1>2. first = IF 1 >= Len(s) - n + 1 THEN 1 ELSE Len(s) - n + 1
  BY <1>1, MaxOfTwo
<1>3. w = SubSeq(s, first, Len(s))
  BY <1>0 DEF Newest
<1> HIDE DEF T, first
<1>4. first \in Int /\ Len(s) \in Int /\ first >= 1 /\ \A i \in first..Len(s) : s[i] \in T
  BY <1>1, <1>2
<1>5. /\ w \in Seq(T) /\ Len(w) = IF first <= Len(s) THEN Len(s) - first + 1 ELSE 0
      /\ \A i \in 1..(Len(s) - first + 1) : w[i] = s[first + i - 1]
  BY <1>3, <1>4, SubSeqProperties
<1>6. Len(w) = IF Len(s) <= n THEN Len(s) ELSE n
  <2>1. CASE Len(s) <= n
    <3>1. first = 1
      BY <1>1, <1>2, <2>1
    <3>2. QED
      BY <1>1, <1>5, <2>1, <3>1
  <2>2. CASE Len(s) > n
    <3>1. first = Len(s) - n + 1 /\ first <= Len(s)
      BY <1>1, <1>2, <2>2
    <3>2. Len(w) = Len(s) - first + 1
      BY <1>5, <3>1
    <3>3. QED
      BY <1>1, <2>2, <3>1, <3>2
  <2>3. QED
    BY <1>1, <2>1, <2>2
<1>7. ASSUME NEW k \in 1..Len(w) PROVE w[k] = s[Len(s) - Len(w) + k]
  <2>1. Len(w) = Len(s) - first + 1 /\ Len(w) \in Int
    BY <1>1, <1>4, <1>5, <1>6, <1>7
  <2>2. w[k] = s[first + k - 1]
    BY <1>5, <1>7, <2>1
  <2>3. first + k - 1 = Len(s) - Len(w) + k
    BY <1>1, <1>4, <2>1
  <2>4. QED
    BY <2>2, <2>3
<1>8. QED
  BY <1>0, <1>5, <1>6, <1>7 DEF IsList, NewestPart

\* A window keeps in step with the list that it is the newest part of.
Window(w, s, n, R) ==
  /\ IsList(w) /\ IsList(s) /\ Len(w) = IF Len(s) <= n THEN Len(s) ELSE n
  /\ \A k \in 1..Len(w) : <<w[k], s[Len(s) - Len(w) + k]>> \in R

LEMMA WindowMoves ==
  ASSUME NEW n, Positive(n), NEW R, NEW w, NEW s, Window(w, s, n, R),
         NEW u, NEW v, IsList(u), IsList(v), Len(u) = Len(v),
         \A k \in 1..Len(u) : <<u[k], v[k]>> \in R
  PROVE  Window(Newest(w \o u, n), s \o v, n, R)
<1>1. PICK wu : wu = w \o u
  OBVIOUS
<1>2. PICK sv : sv = s \o v
  OBVIOUS
<1>3. PICK new : new = Newest(wu, n)
  OBVIOUS
<1>0. IsList(w) /\ IsList(s)
  BY DEF Window
<1>4. /\ IsList(wu) /\ Len(wu) = Len(w) + Len(u)
      /\ \A i \in 1..Len(w) : wu[i] = w[i]
      /\ \A i \in 1..Len(u) : wu[Len(w) + i] = u[i]
  BY <1>0, <1>1, JoinedLists DEF Joins
<1>5. /\ IsList(sv) /\ Len(sv) = Len(s) + Len(v)
      /\ \A i \in 1..Len(s) : sv[i] = s[i]
      /\ \A i \in 1..Len(v) : sv[Len(s) + i] = v[i]
  BY <1>0, <1>2, JoinedLists DEF Joins
<1>6. /\ IsList(new) /\ Len(new) = IF Len(wu) <= n THEN Len(wu) ELSE n
      /\ \A k \in 1..Len(new) : new[k] = wu[Len(wu) - Len(new) + k]
  <2>1. IsList(wu)
    BY <1>4
  <2>2. NewestPart(new, wu, n)
    BY <1>3, <2>1, NewestIs
  <2>3. QED
    BY <2>2 DEF NewestPart
<1>7. PICK a \in Nat : a = Len(w)
  BY ListIs DEF Window
<1>8. PICK b \in Nat : b = Len(s)
  BY ListIs DEF Window
<1>9. PICK c \in Nat : c = Len(u) /\ c = Len(v)
  BY ListIs
<1>10. a = IF b <= n THEN b ELSE n
  BY <1>7, <1>8 DEF Window
<1>11. PICK d \in Nat : d = Len(new)
  BY <1>6, ListIs
<1>p. n \in Nat \ {0}
  BY DEF Positive
<1>12. d = IF b + c <= n THEN b + c ELSE n
  <2>1. d = IF a + c <= n THEN a + c ELSE n
    BY <1>4, <1>6, <1>7, <1>9, <1>11
  <2>2. QED
    BY <1>10, <1>p, <2>1
<1>13. ASSUME NEW k \in 1..d PROVE <<new[k], sv[b + c - d + k]>> \in R
  <2>1. new[k] = wu[a + c - d + k]
    <3>1. Len(wu) - Len(new) + k = a + c - d + k /\ k \in 1..Len(new)
      BY <1>4, <1>7, <1>9, <1>11
    <3>2. QED
      BY <1>6, <3>1
  <2>2. CASE a + c - d + k <= a
    <3>1. PICK j \in 1..a : j = a + c - d + k
      <4>1. d <= a + c
        BY <1>10, <1>12, <1>p
      <4>2. QED
        BY <2>2, <4>1
    <3>2. new[k] = w[j]
      BY <1>4, <1>7, <2>1, <3>1
    <3>3. b - a + j \in 1..b /\ b - a + j = b + c - d + k
      <4>1. b - a + j = b + c - d + k
        BY <3>1
      <4>2. a <= b
        BY <1>10, <1>p
      <4>3. QED
        BY <3>1, <4>1, <4>2
    <3>4. sv[b + c - d + k] = s[b - a + j]
      BY <1>5, <1>8, <3>3
    <3>5. <<w[j], s[b - a + j]>> \in R
      BY <1>7, <1>8, <3>1 DEF Window
    <3>6. QED
      BY <3>2, <3>4, <3>5
  <2>3. CASE ~(a + c - d + k <= a)
    <3>1. PICK j \in 1..c : j = c - d + k
      BY <2>3
    <3>2. a + c - d + k = a + j /\ b + c - d + k = b + j
      BY <3>1
    <3>3. new[k] = u[j]
      BY <1>4, <1>7, <1>9, <2>1, <3>1, <3>2
    <3>4. sv[b + c - d + k] = v[j]
      BY <1>5, <1>8, <1>9, <3>1, <3>2
    <3>5. QED
      BY <1>9, <3>1, <3>3, <3>4
  <2>4. QED
    BY <2>2, <2>3
<1>14. Window(new, sv, n, R)
  <2>1. Len(sv) = b + c
    BY <1>5, <1>8, <1>9
  <2>2. Len(new) = IF Len(sv) <= n THEN Len(sv) ELSE n
    BY <1>11, <1>12, <2>1
  <2>3. \A k \in 1..Len(new) : <<new[k], sv[Len(sv) - Len(new) + k]>> \in R
    BY <1>11, <1>13, <2>1
  <2>4. QED
    BY <1>5, <1>6, <2>2, <2>3 DEF Window
<1>15. QED
  BY <1>1, <1>2, <1>3, <1>14

-------------------------------------------------------------------------------
(* Market: what is kept of the orders and the fills                            *)

\* An order as participants enter it, with an id of its owner.
OrderOk(o) ==
  /\ o.id[1] = o.owner /\ o.qty \in Nat \ {0} /\ o.px \in Int /\ o.side \in {"buy", "sell"}

\* A fill of orders that were entered, by the owners that their ids name.
FillOk(f, ids) ==
  /\ f.qty \in Nat \ {0} /\ f.taker \in ToSet(ids) /\ f.maker \in ToSet(ids)
  /\ f.takerOwner = f.taker[1] /\ f.makerOwner = f.maker[1]

CallIs(c, ids) ==
  /\ c.at = "entered" => OrderOk(c.order) /\ c.order.id \in ToSet(ids)
  /\ c.at = "answered" => IsList(c.fills) /\ \A f \in ToSet(c.fills) : FillOk(f, ids)

\* The calls still to make submit such orders.
SubmitsOk(calls) == \E C : calls \in Seq(C) /\ \A c \in C : c.op = "submit" => OrderOk(c.order)

BookIs(book, ids) == Sound(book) /\ Queued(book) /\ \A r \in book : r.id \in ToSet(ids)

\* The owners' window names the owners of the last ids, the fills' window says of
\* the last fills what they were, but perhaps not whose.
OwnersAre(owners, ids) ==
  \E R : /\ Window(owners, ids, MaxTracked, R)
         /\ \A p \in R : p[1].id = p[2] /\ p[1].owner = p[2][1]
Alike(f, g) ==
  /\ g.qty \in Nat \ {0}
  /\ f = Fill(g, g.step, f.takerOwner, f.makerOwner)
  /\ g = Fill(g, g.step, g.takerOwner, g.makerOwner)
  /\ f.takerOwner \in {g.takerOwner, Unknown} /\ f.makerOwner \in {g.makerOwner, Unknown}
FillsAreKept(kept, all) ==
  \E R : Window(kept, all, MaxRecent, R) /\ \A p \in R : Alike(p[1], p[2])

\* Fills are recorded in the order of their steps.
StepsAre(fills, now) ==
  /\ now \in Nat
  /\ \A i \in 1..Len(fills) : fills[i].step \in Nat /\ fills[i].step <= now
  /\ \A i, j \in 1..Len(fills) : i <= j => fills[i].step <= fills[j].step

Attributed(id, owner, ids) ==
  \/ owner = id[1]
  \/ owner = Unknown /\ \E i \in DOMAIN ids : ids[i] = id /\ Len(ids) - i >= MaxTracked
AttributedAll(fills, ids) ==
  \A f \in ToSet(fills) : /\ Attributed(f.taker, f.takerOwner, ids)
                          /\ Attributed(f.maker, f.makerOwner, ids)

LEMMA WindowsArePositive == Positive(MaxTracked) /\ Positive(MaxRecent)
BY MarketAssumption DEF Positive

LEMMA GrownList ==
  ASSUME NEW ids, IsList(ids), NEW x, NEW more, more = Append(ids, x)
  PROVE  /\ IsList(more) /\ Len(more) = Len(ids) + 1 /\ ToSet(ids) \subseteq ToSet(more)
         /\ x \in ToSet(more)
         /\ \A i \in DOMAIN ids : i \in DOMAIN more /\ more[i] = ids[i]
<1>1. Joins(more, ids, <<x>>)
  <2>1. IsList(<<x>>)
    BY ListOfOne
  <2>2. Joins(ids \o <<x>>, ids, <<x>>)
    BY <2>1, JoinedLists
  <2>3. QED
    BY <2>2, ListOfOne
<1>2. PICK one : one = <<x>>
  OBVIOUS
<1>3. Len(one) = 1 /\ one[1] = x
  BY <1>2
<1>4. Joins(more, ids, one)
  BY <1>1, <1>2
<1>5. Len(ids) \in Nat /\ DOMAIN ids = 1..Len(ids)
  BY ListIs
<1>6. /\ IsList(more) /\ Len(more) = Len(ids) + 1
      /\ \A i \in 1..Len(ids) : more[i] = ids[i]
      /\ more[Len(ids) + 1] = x
  BY <1>3, <1>4 DEF Joins
<1>7. DOMAIN more = 1..(Len(ids) + 1)
  BY <1>6, ListIs
<1>8. \A y : y \in ToSet(more) <=> \E i \in 1..Len(more) : more[i] = y
  <2>1. IsList(more)
    BY <1>6
  <2>2. QED
    BY <2>1, ListIs
<1>9. \A y : y \in ToSet(ids) <=> \E i \in 1..Len(ids) : ids[i] = y
  BY ListIs
<1>10. QED
  BY <1>5, <1>6, <1>7, <1>8, <1>9

LEMMA AttributedStays ==
  ASSUME NEW ids, IsList(ids), NEW x, NEW more, more = Append(ids, x),
         NEW id, NEW owner, Attributed(id, owner, ids)
  PROVE  Attributed(id, owner, more)
<1>1. /\ Len(more) = Len(ids) + 1
      /\ \A i \in DOMAIN ids : i \in DOMAIN more /\ more[i] = ids[i]
  BY GrownList
<1>2. CASE owner = id[1]
  BY <1>2 DEF Attributed
<1>3. CASE ~(owner = id[1])
  <2>1. PICK i \in DOMAIN ids : ids[i] = id /\ Len(ids) - i >= MaxTracked
    BY <1>3 DEF Attributed
  <2>2. i \in Nat /\ Len(ids) \in Nat /\ MaxTracked \in Nat
    <3>1. Len(ids) \in Nat /\ DOMAIN ids = 1..Len(ids)
      BY ListIs
    <3>2. MaxTracked \in Nat
      BY WindowsArePositive DEF Positive
    <3>3. QED
      BY <2>1, <3>1, <3>2
  <2>3. Len(more) - i >= MaxTracked
    BY <1>1, <2>1, <2>2
  <2>4. QED
    BY <1>1, <1>3, <2>1, <2>3 DEF Attributed
<1>4. QED
  BY <1>2, <1>3

\* One more entry at the end of both.
LEMMA WindowGrows ==
  ASSUME NEW n, Positive(n), NEW R, NEW w, NEW s, Window(w, s, n, R), NEW x, NEW y,
         NEW Q, Q = R \cup {<<x, y>>}
  PROVE  Window(Newest(Append(w, x), n), Append(s, y), n, Q)
<1>1. Window(w, s, n, Q)
  BY DEF Window
<1>2. IsList(w) /\ IsList(s)
  BY DEF Window
<1>3. PICK u : u = <<x>>
  OBVIOUS
<1>4. PICK v : v = <<y>>
  OBVIOUS
<1>5. /\ IsList(u) /\ IsList(v) /\ Len(u) = 1 /\ Len(v) = 1 /\ u[1] = x /\ v[1] = y
  BY <1>3, <1>4, ListOfOne
<1>6. \A k \in 1..Len(u) : <<u[k], v[k]>> \in Q
  BY <1>5
<1>7. Append(w, x) = w \o u /\ Append(s, y) = s \o v
  BY <1>2, <1>3, <1>4, ListOfOne
<1>8. Window(Newest(w \o u, n), s \o v, n, Q)
  BY <1>1, <1>5, <1>6, WindowMoves
<1>9. QED
  BY <1>7, <1>8

\* tracking_submit notes the owner of the order.
LEMMA OwnerNoted ==
  ASSUME NEW owners, NEW ids, OwnersAre(owners, ids), NEW e, NEW id, e.id = id, e.owner = id[1]
  PROVE  OwnersAre(Newest(Append(owners, e), MaxTracked), Append(ids, id))
<1>1. PICK R : Window(owners, ids, MaxTracked, R) /\ \A p \in R : p[1].id = p[2] /\ p[1].owner = p[2][1]
  BY DEF OwnersAre
<1>2. PICK p : p = <<e, id>>
  OBVIOUS
<1>3. p[1] = e /\ p[2] = id
  BY <1>2
<1>4. PICK Q : Q = R \cup {<<e, id>>}
  OBVIOUS
<1>5. \A q \in Q : q[1].id = q[2] /\ q[1].owner = q[2][1]
  BY <1>1, <1>2, <1>3, <1>4
<1>6. Window(Newest(Append(owners, e), MaxTracked), Append(ids, id), MaxTracked, Q)
  BY <1>1, <1>4, WindowGrows, WindowsArePositive
<1>7. QED
  BY <1>5, <1>6 DEF OwnersAre

\* The owner of an order is known, unless it was entered too long ago.
LEMMA OwnerIs ==
  ASSUME OwnersAre(ownerOf, entered), NEW id, id \in ToSet(entered)
  PROVE  Attributed(id, Owner(id), entered) /\ Owner(id) \in {id[1], Unknown}
<1>1. PICK R : /\ Window(ownerOf, entered, MaxTracked, R)
               /\ \A p \in R : p[1].id = p[2] /\ p[1].owner = p[2][1]
  BY DEF OwnersAre
<1>2. PICK w : w = ownerOf
  OBVIOUS
<1>3. IsList(w) /\ IsList(entered) /\ Len(w) = IF Len(entered) <= MaxTracked THEN Len(entered) ELSE MaxTracked
  BY <1>1, <1>2 DEF Window
<1>4. /\ Len(w) \in Nat /\ Len(entered) \in Nat /\ DOMAIN entered = 1..Len(entered)
      /\ \A x : x \in ToSet(w) <=> \E i \in 1..Len(w) : w[i] = x
      /\ \A x : x \in ToSet(entered) <=> \E i \in 1..Len(entered) : entered[i] = x
  BY <1>3, ListIs
<1>5. \A k \in 1..Len(w) : /\ w[k].id = entered[Len(entered) - Len(w) + k]
                           /\ w[k].owner = entered[Len(entered) - Len(w) + k][1]
  <2>1. ASSUME NEW k \in 1..Len(w)
        PROVE  /\ w[k].id = entered[Len(entered) - Len(w) + k]
               /\ w[k].owner = entered[Len(entered) - Len(w) + k][1]
    <3>1. PICK x : x = w[k]
      OBVIOUS
    <3>2. PICK y : y = entered[Len(entered) - Len(w) + k]
      OBVIOUS
    <3>3. <<x, y>> \in R
      BY <1>1, <1>2, <3>1, <3>2 DEF Window
    <3>4. PICK p \in R : p = <<x, y>>
      BY <3>3
    <3>5. p[1] = x /\ p[2] = y /\ p[1].id = p[2] /\ p[1].owner = p[2][1]
      BY <1>1, <3>4
    <3>6. x.id = y /\ x.owner = y[1]
      BY <3>5
    <3>7. QED
      BY <3>1, <3>2, <3>6
  <2>2. QED
    BY <2>1
<1>6. ASSUME NEW e \in ToSet(w) PROVE e.owner = e.id[1]
  <2>1. PICK k \in 1..Len(w) : w[k] = e
    BY <1>4
  <2>2. PICK y : y = entered[Len(entered) - Len(w) + k]
    OBVIOUS
  <2>3. e.id = y /\ e.owner = y[1]
    BY <1>5, <2>1, <2>2
  <2>4. QED
    BY <2>3
<1>7. CASE \E e \in ToSet(w) : e.id = id
  <2>1. Owner(id) = (CHOOSE e \in ToSet(w) : e.id = id).owner
    BY <1>2, <1>7 DEF Owner
  <2>2. PICK e \in ToSet(w) : e.id = id /\ Owner(id) = e.owner
    BY <1>7, <2>1
  <2>3. Owner(id) = id[1]
    BY <1>6, <2>2
  <2>4. QED
    BY <2>3 DEF Attributed
<1>8. CASE ~ \E e \in ToSet(w) : e.id = id
  <2>1. Owner(id) = Unknown
    BY <1>2, <1>8 DEF Owner
  <2>2. PICK i \in 1..Len(entered) : entered[i] = id
    BY <1>4
  <2>3. Len(entered) - i >= MaxTracked
    <3>1. SUFFICES ASSUME ~(Len(entered) - i >= MaxTracked) PROVE FALSE
      OBVIOUS
    <3>2. MaxTracked \in Nat
      BY MarketAssumption
    <3>3. PICK k \in 1..Len(w) : k = i - (Len(entered) - Len(w))
      <4>1. Len(entered) - Len(w) < i
        BY <1>3, <1>4, <2>2, <3>1, <3>2
      <4>2. PICK a \in Nat : a = Len(entered)
        BY <1>4
      <4>3. PICK c \in Nat : c = Len(w)
        BY <1>4
      <4>4. i \in 1..a /\ a - c < i
        BY <2>2, <4>1, <4>2, <4>3
      <4>5. i - (a - c) \in 1..c
        BY <4>4
      <4>6. QED
        BY <4>2, <4>3, <4>5
    <3>4. Len(entered) - Len(w) + k = i
      BY <1>4, <2>2, <3>3
    <3>5. w[k].id = id
      BY <1>5, <2>2, <3>4
    <3>6. w[k] \in ToSet(w)
      BY <1>4
    <3>7. QED
      BY <1>8, <3>5, <3>6
  <2>4. QED
    BY <1>4, <2>1, <2>2, <2>3 DEF Attributed
<1>9. QED
  BY <1>2, <1>7, <1>8

\* The engine answers with fills of orders that were entered.
LEMMA EngineAnswers ==
  ASSUME NEW ids, NEW book, BookIs(book, ids), NEW o, OrderOk(o), o.id \in ToSet(ids),
         NEW b, b = Submitted(book, o).book, NEW list, list = Listed(Submitted(book, o).fills)
  PROVE  BookIs(b, ids) /\ IsList(list) /\ \A f \in ToSet(list) : FillOk(f, ids)
<1>1. PICK fills : fills = Submitted(book, o).fills
  OBVIOUS
<1>2. Sound(book) /\ Queued(book) /\ Shaped(book)
  BY DEF BookIs, Sound
<1>3. o.qty \in Nat \ {0} /\ o.id[1] = o.owner /\ o.side \in {"buy", "sell"} /\ o.px \in Int
  BY DEF OrderOk
<1>4. Sound(b)
  <2>1. PICK removed : removed = Submitted(book, o).swept
    OBVIOUS
  <2>2. Unique(book, {}) /\ \A r \in book : r.owner \in {} => r.id # o.id
    BY DEF Unique
  <2>3. QED
    BY <1>1, <1>2, <1>3, <2>1, <2>2, BookOfSubmit
<1>5. Queued(b)
  BY <1>2, <1>3, QueuedAfterSubmit
<1>6. \A r \in b : r.id \in ToSet(ids)
  <2>1. \A r \in b : (\E s \in book : Remains(book, o, s, r)) \/ Rests(book, o, r)
    BY <1>2, SubmittedBook
  <2>2. QED
    BY <2>1 DEF Remains, SameOrder, Rests, BookIs
<1>7. \A f \in fills : FillOk(f, ids)
  <2>1. \A f \in fills : \E r \in Hit(book, o) : FillFor(book, o, r, f)
    BY <1>1, <1>2, SubmittedFills
  <2>2. \A r \in Hit(book, o) : Taken(book, o, r) \in Nat \ {0}
    BY <1>2, <1>3, TakenIs
  <2>3. \A r \in Hit(book, o) : r \in book
    BY ReachedAre
  <2>4. ASSUME NEW f \in fills PROVE FillOk(f, ids)
    <3>1. PICK r \in Hit(book, o) : FillFor(book, o, r, f)
      BY <2>1
    <3>2. r.id \in ToSet(ids) /\ r.id[1] = r.owner
      BY <2>3 DEF BookIs, Sound, Named
    <3>3. QED
      BY <1>3, <2>2, <3>1, <3>2 DEF FillFor, FillOk
  <2>5. QED
    BY <2>4
<1>8. PICK n \in Nat : list = [i \in 1..n |-> list[i]] /\ \A i \in 1..n : list[i] \in fills
  <2>1. o.side \in {"buy", "sell"} /\ Shaped(book) /\ Queued(book)
    BY <1>2, <1>3
  <2>2. Lists(list, Submitted(book, o).fills)
    BY <2>1, ListedAreFills
  <2>3. QED
    BY <1>1, <2>2 DEF Lists
<1>9. list \in Seq(fills)
  <2>1. list \in [1..n -> fills]
    BY <1>8
  <2>2. QED
    BY <2>1, SeqDef
<1>10. IsList(list) /\ \A f \in ToSet(list) : f \in fills
  <2>1. IsList(list)
    BY <1>9 DEF IsList
  <2>2. DOMAIN list = 1..n
    BY <1>8
  <2>3. QED
    BY <1>8, <2>1, <2>2 DEF ToSet
<1>11. QED
  BY <1>4, <1>5, <1>6, <1>7, <1>10 DEF BookIs

\* A list of as many entries as another.
LEMMA MappedList ==
  ASSUME NEW s, IsList(s), NEW f, NEW t, t = [i \in DOMAIN s |-> f[i]]
  PROVE  IsList(t) /\ Len(t) = Len(s) /\ \A i \in 1..Len(s) : t[i] = f[i]
<1>1. Len(s) \in Nat /\ DOMAIN s = 1..Len(s)
  BY ListIs
<1>2. PICK n \in Nat : n = Len(s)
  BY <1>1
<1> DEFINE T == {f[i] : i \in 1..n}
<1>3. t \in [1..n -> T] /\ \A i \in 1..n : t[i] = f[i]
  BY <1>1, <1>2
<1> HIDE DEF T
<1>4. t \in Seq(T)
  BY <1>3, SeqDef
<1>5. Len(t) = n
  BY <1>3, <1>4, LenProperties
<1>6. QED
  BY <1>2, <1>3, <1>4, <1>5 DEF IsList

\* What is kept of a list that another one is added to.
KeptFrom(w, s, t) == IsList(w) /\ \A x \in ToSet(w) : x \in ToSet(s) \/ x \in ToSet(t)
LEMMA KeptIs ==
  ASSUME NEW s, IsList(s), NEW t, IsList(t), NEW n, Positive(n), NEW w, w = Newest(s \o t, n)
  PROVE  KeptFrom(w, s, t)
<1>1. PICK u : u = s \o t
  OBVIOUS
<1>2. Joins(u, s, t)
  BY <1>1, JoinedLists
<1>3. NewestPart(w, u, n)
  <2>1. IsList(u)
    BY <1>2 DEF Joins
  <2>2. QED
    BY <1>1, <2>1, NewestIs
<1>4. IsList(w) /\ IsList(u)
  BY <1>2, <1>3 DEF Joins, NewestPart
<1>5. PICK a \in Nat : a = Len(s)
  BY ListIs
<1>6. PICK b \in Nat : b = Len(t)
  BY ListIs
<1>7. PICK c \in Nat : c = Len(w)
  BY <1>4, ListIs
<1>8. Len(u) = a + b /\ (\A i \in 1..a : u[i] = s[i]) /\ (\A i \in 1..b : u[a + i] = t[i])
  BY <1>2, <1>5, <1>6 DEF Joins
<1>9. c <= a + b /\ \A k \in 1..c : w[k] = u[a + b - c + k]
  <2>1. Len(w) = IF Len(u) <= n THEN Len(u) ELSE n
    BY <1>3 DEF NewestPart
  <2>2. n \in Nat
    BY DEF Positive
  <2>3. c <= a + b
    BY <1>7, <1>8, <2>1, <2>2
  <2>4. ASSUME NEW k \in 1..c PROVE w[k] = u[a + b - c + k]
    <3>1. w[k] = u[Len(u) - Len(w) + k]
      BY <1>3, <1>7 DEF NewestPart
    <3>2. QED
      BY <1>7, <1>8, <3>1
  <2>5. QED
    BY <2>3, <2>4
<1>10. ASSUME NEW x \in ToSet(w) PROVE x \in ToSet(s) \/ x \in ToSet(t)
  <2>1. PICK k \in 1..c : w[k] = x
    BY <1>4, <1>7, ListIs
  <2>2. PICK i \in 1..(a + b) : i = a + b - c + k
    BY <1>9
  <2>3. x = u[i]
    BY <1>9, <2>1, <2>2
  <2>4. CASE i <= a
    <3>1. i \in 1..a /\ x = s[i]
      BY <1>8, <2>2, <2>3, <2>4
    <3>2. QED
      BY <1>5, <3>1, ListIs
  <2>5. CASE ~(i <= a)
    <3>1. PICK j \in 1..b : i = a + j
      <4>1. i - a \in 1..b /\ i = a + (i - a)
        BY <2>2, <2>5
      <4>2. QED
        BY <4>1
    <3>2. x = t[j]
      BY <1>8, <2>3, <3>1
    <3>3. QED
      BY <1>6, <3>1, <3>2, ListIs
  <2>6. QED
    BY <2>4, <2>5
<1>11. QED
  BY <1>4, <1>10 DEF KeptFrom

\* A fill as it is noted, and as it was.
LEMMA FillNoted ==
  ASSUME OwnersAre(ownerOf, entered), NEW f, FillOk(f, entered),
         NEW g, g = Fill(f, stepNo, Owner(f.taker), Owner(f.maker)),
         NEW h, h = Fill(f, stepNo, f.takerOwner, f.makerOwner)
  PROVE  /\ Alike(g, h) /\ h.step = stepNo
         /\ Attributed(g.taker, g.takerOwner, entered) /\ Attributed(g.maker, g.makerOwner, entered)
<1>1. PICK a : a = Owner(f.taker)
  OBVIOUS
<1>2. PICK b : b = Owner(f.maker)
  OBVIOUS
<1>3. /\ Attributed(f.taker, a, entered) /\ a \in {f.takerOwner, Unknown}
      /\ Attributed(f.maker, b, entered) /\ b \in {f.makerOwner, Unknown}
  BY <1>1, <1>2, OwnerIs DEF FillOk
<1>4. /\ g.step = stepNo /\ g.taker = f.taker /\ g.maker = f.maker
      /\ g.takerOwner = a /\ g.makerOwner = b
      /\ h.step = stepNo /\ h.taker = f.taker /\ h.maker = f.maker /\ h.qty = f.qty /\ h.side = f.side
      /\ h.takerOwner = f.takerOwner /\ h.makerOwner = f.makerOwner
  BY <1>1, <1>2 DEF Fill
<1>5. g = Fill(h, h.step, g.takerOwner, g.makerOwner)
  BY <1>1, <1>2, <1>4 DEF Fill
<1>6. h = Fill(h, h.step, h.takerOwner, h.makerOwner)
  BY <1>4 DEF Fill
<1>7. h.qty \in Nat \ {0}
  BY <1>4 DEF FillOk
<1>8. QED
  BY <1>3, <1>4, <1>5, <1>6, <1>7 DEF Alike

LEMMA FillsNoted ==
  ASSUME OwnersAre(ownerOf, entered), FillsAreKept(recent, trades), StepsAre(trades, stepNo),
         AttributedAll(recent, entered),
         NEW fills, IsList(fills), \A f \in ToSet(fills) : FillOk(f, entered),
         NEW now, now = [i \in DOMAIN fills |->
                           Fill(fills[i], stepNo, fills[i].takerOwner, fills[i].makerOwner)],
         NEW noted, noted = [i \in DOMAIN fills |->
                           Fill(fills[i], stepNo, Owner(fills[i].taker), Owner(fills[i].maker))],
         NEW kept, kept = Newest(recent \o noted, MaxRecent), NEW all, all = trades \o now
  PROVE  FillsAreKept(kept, all) /\ StepsAre(all, stepNo) /\ AttributedAll(kept, entered)
<1>1. PICK n \in Nat : n = Len(fills) /\ DOMAIN fills = 1..n
  BY ListIs
<1>2. /\ IsList(now) /\ Len(now) = n
      /\ \A i \in 1..n : now[i] = Fill(fills[i], stepNo, fills[i].takerOwner, fills[i].makerOwner)
  <2>1. PICK g : g = now
    OBVIOUS
  <2>2. now = [i \in DOMAIN fills |-> g[i]] /\ \A i \in DOMAIN fills :
          g[i] = Fill(fills[i], stepNo, fills[i].takerOwner, fills[i].makerOwner)
    BY <2>1
  <2>3. IsList(now) /\ Len(now) = Len(fills)
    BY <2>2, MappedList
  <2>4. QED
    BY <1>1, <2>1, <2>2, <2>3
<1>3. /\ IsList(noted) /\ Len(noted) = n
      /\ \A i \in 1..n : noted[i] = Fill(fills[i], stepNo, Owner(fills[i].taker), Owner(fills[i].maker))
  <2>1. PICK g : g = noted
    OBVIOUS
  <2>2. noted = [i \in DOMAIN fills |-> g[i]] /\ \A i \in DOMAIN fills :
          g[i] = Fill(fills[i], stepNo, Owner(fills[i].taker), Owner(fills[i].maker))
    BY <2>1
  <2>3. IsList(noted) /\ Len(noted) = Len(fills)
    BY <2>2, MappedList
  <2>4. QED
    BY <1>1, <2>1, <2>2, <2>3
<1>4. \A i \in 1..n : FillOk(fills[i], entered)
  BY <1>1, ListIs
<1>5. \A i \in 1..n : /\ Alike(noted[i], now[i]) /\ now[i].step = stepNo
                      /\ Attributed(noted[i].taker, noted[i].takerOwner, entered)
                      /\ Attributed(noted[i].maker, noted[i].makerOwner, entered)
  BY <1>2, <1>3, <1>4, FillNoted
<1>6. PICK R : Window(recent, trades, MaxRecent, R) /\ \A p \in R : Alike(p[1], p[2])
  BY DEF FillsAreKept
<1>7. FillsAreKept(kept, all)
  <2> DEFINE Q == R \cup {<<noted[i], now[i]>> : i \in 1..n}
  <2>1. \A i \in 1..n : <<noted[i], now[i]>> \in Q
    OBVIOUS
  <2>2. ASSUME NEW p \in Q PROVE Alike(p[1], p[2])
    <3>1. CASE p \in R
      BY <1>6, <3>1
    <3>2. CASE p \notin R
      <4>1. PICK i \in 1..n : p = <<noted[i], now[i]>>
        BY <3>2
      <4>2. p[1] = noted[i] /\ p[2] = now[i]
        BY <4>1
      <4>3. QED
        BY <1>5, <4>2
    <3>3. QED
      BY <3>1, <3>2
  <2>3. R \subseteq Q
    OBVIOUS
  <2> HIDE DEF Q
  <2>4. Window(recent, trades, MaxRecent, Q)
    BY <1>6, <2>3 DEF Window
  <2>5. Len(noted) = Len(now) /\ \A k \in 1..Len(noted) : <<noted[k], now[k]>> \in Q
    BY <1>2, <1>3, <2>1
  <2>6. Positive(MaxRecent)
    BY WindowsArePositive
  <2>7. Window(kept, all, MaxRecent, Q)
    BY <1>2, <1>3, <2>4, <2>5, <2>6, WindowMoves
  <2>8. QED
    BY <2>2, <2>7 DEF FillsAreKept
<1>8. StepsAre(all, stepNo)
  <2>1. IsList(trades)
    BY <1>6 DEF Window
  <2>2. PICK m \in Nat : m = Len(trades)
    BY <2>1, ListIs
  <2>3. Joins(all, trades, now)
    BY <1>2, <2>1, JoinedLists
  <2>4. Len(all) = m + n /\ (\A i \in 1..m : all[i] = trades[i]) /\ (\A i \in 1..n : all[m + i] = now[i])
    BY <1>2, <2>2, <2>3 DEF Joins
  <2>5. \A i \in 1..(m + n) : ~(i <= m) => all[i].step = stepNo
    <3>1. ASSUME NEW i \in 1..(m + n), ~(i <= m) PROVE all[i].step = stepNo
      <4>1. PICK j \in 1..n : i = m + j
        <5>1. i - m \in 1..n /\ i = m + (i - m)
          BY <3>1
        <5>2. QED
          BY <5>1
      <4>2. all[i] = now[j]
        BY <2>4, <4>1
      <4>3. QED
        BY <1>5, <4>2
    <3>2. QED
      BY <3>1
  <2>6. ASSUME NEW i \in 1..(m + n), i <= m PROVE i \in 1..m /\ all[i].step = trades[i].step
    <3>1. i \in 1..m
      BY <2>6
    <3>2. all[i] = trades[i]
      BY <2>4, <3>1
    <3>3. QED
      BY <3>1, <3>2
  <2>7. /\ stepNo \in Nat
        /\ \A i \in 1..m : trades[i].step \in Nat /\ trades[i].step <= stepNo
        /\ \A i, j \in 1..m : i <= j => trades[i].step <= trades[j].step
    BY <2>2 DEF StepsAre
  <2>8. \A i \in 1..(m + n) : all[i].step \in Nat /\ all[i].step <= stepNo
    <3>1. ASSUME NEW i \in 1..(m + n) PROVE all[i].step \in Nat /\ all[i].step <= stepNo
      <4>1. CASE i <= m
        <5>1. i \in 1..m /\ all[i].step = trades[i].step
          BY <2>6, <4>1
        <5>2. QED
          BY <2>7, <5>1
      <4>2. CASE ~(i <= m)
        <5>1. all[i].step = stepNo
          BY <2>5, <4>2
        <5>2. stepNo \in Nat /\ stepNo <= stepNo
          <6>1. stepNo \in Nat
            BY <2>7
          <6>2. QED
            BY <6>1
        <5>3. QED
          BY <5>1, <5>2
      <4>3. QED
        BY <4>1, <4>2
    <3>2. QED
      BY <3>1
  <2>9. \A i, j \in 1..(m + n) : i <= j => all[i].step <= all[j].step
    <3>1. ASSUME NEW i \in 1..(m + n), NEW j \in 1..(m + n), i <= j PROVE all[i].step <= all[j].step
      <4>1. CASE j <= m
        <5>1. i <= m
          BY <3>1, <4>1
        <5>2. /\ i \in 1..m /\ all[i].step = trades[i].step
              /\ j \in 1..m /\ all[j].step = trades[j].step
          BY <2>6, <4>1, <5>1
        <5>3. QED
          BY <2>7, <3>1, <5>2
      <4>2. CASE ~(j <= m)
        <5>1. all[j].step = stepNo
          BY <2>5, <4>2
        <5>2. QED
          BY <2>8, <5>1
      <4>3. QED
        BY <4>1, <4>2
    <3>2. QED
      BY <3>1
  <2>10. QED
    BY <2>4, <2>7, <2>8, <2>9 DEF StepsAre
<1>9. AttributedAll(kept, entered)
  <2>1. IsList(recent)
    BY <1>6 DEF Window
  <2>2. \A x \in ToSet(kept) : x \in ToSet(recent) \/ x \in ToSet(noted)
    <3>1. IsList(noted) /\ Positive(MaxRecent)
      BY <1>3, WindowsArePositive
    <3>2. KeptFrom(kept, recent, noted)
      BY <2>1, <3>1, KeptIs
    <3>3. QED
      BY <3>2 DEF KeptFrom
  <2>3. \A x \in ToSet(noted) : \E i \in 1..n : noted[i] = x
    <3>1. IsList(noted) /\ Len(noted) = n
      BY <1>3
    <3>2. \A x : x \in ToSet(noted) <=> \E i \in 1..Len(noted) : noted[i] = x
      BY <3>1, ListIs
    <3>3. QED
      BY <3>1, <3>2
  <2>4. QED
    BY <1>5, <2>2, <2>3 DEF AttributedAll
<1>10. QED
  BY <1>7, <1>8, <1>9

-------------------------------------------------------------------------------
(* Market: the inductive invariant                                             *)

CallsAre(calls, ids) ==
  /\ DOMAIN calls = Routes \cup {Loop}
  /\ \A t \in Routes \cup {Loop} : CallIs(calls[t], ids)

MarketInv ==
  /\ BookIs(depth, entered) /\ OwnersAre(ownerOf, entered) /\ FillsAreKept(recent, trades)
  /\ StepsAre(trades, stepNo) /\ AttributedAll(recent, entered) /\ CallsAre(call, entered)
  /\ DOMAIN stepping = {"at", "todo"} /\ SubmitsOk(stepping.todo)

\* A window of nothing is empty.
LEMMA NothingKept ==
  ASSUME NEW n, Positive(n)
  PROVE  Window(<<>>, <<>>, n, {})
<1>1. PICK w : w = <<>>
  OBVIOUS
<1>2. w \in Seq({}) /\ Len(w) = 0
  BY <1>1, EmptySeq
<1>3. IsList(w)
  BY <1>2 DEF IsList
<1>4. 0 <= n
  BY DEF Positive
<1>5. Window(w, w, n, {})
  BY <1>2, <1>3, <1>4 DEF Window
<1>6. QED
  BY <1>1, <1>5

LEMMA MarketInvInit == MarketInit => MarketInv
<1> SUFFICES ASSUME MarketInit PROVE MarketInv
  OBVIOUS
<1>1. /\ depth = {} /\ ownerOf = <<>> /\ recent = <<>> /\ entered = <<>> /\ trades = <<>>
      /\ stepNo = 0 /\ stepping = [at |-> "rest", todo |-> <<>>]
      /\ call = [t \in Routes \cup {Loop} |-> Free]
  BY DEF MarketInit
<1>2. BookIs(depth, entered)
  BY <1>1, FS_EmptySet DEF BookIs, Sound, Shaped, Sized, Named, Queued
<1>3. OwnersAre(ownerOf, entered)
  BY <1>1, NothingKept, WindowsArePositive DEF OwnersAre
<1>4. FillsAreKept(recent, trades)
  BY <1>1, NothingKept, WindowsArePositive DEF FillsAreKept
<1>5. StepsAre(trades, stepNo)
  <2>1. Len(trades) = 0
    BY <1>1, EmptySeq
  <2>2. QED
    BY <1>1, <2>1 DEF StepsAre
<1>6. AttributedAll(recent, entered)
  <2>1. ToSet(recent) = {}
    BY <1>1 DEF ToSet
  <2>2. QED
    BY <2>1 DEF AttributedAll
<1>7. CallsAre(call, entered)
  <2>1. Free.at = "free"
    BY DEF Free
  <2>2. QED
    BY <1>1, <2>1 DEF CallsAre, CallIs
<1>8. DOMAIN stepping = {"at", "todo"} /\ SubmitsOk(stepping.todo)
  <2>1. stepping.todo = <<>> /\ <<>> \in Seq({})
    BY <1>1
  <2>2. SubmitsOk(stepping.todo)
    BY <2>1 DEF SubmitsOk
  <2>3. QED
    BY <1>1, <2>2
<1>9. QED
  BY <1>2, <1>3, <1>4, <1>5, <1>6, <1>7, <1>8 DEF MarketInv

\* What is right of the calls stays right when more ids are entered.
LEMMA CallsStay ==
  ASSUME NEW calls, NEW ids, CallsAre(calls, ids), NEW more, ToSet(ids) \subseteq ToSet(more)
  PROVE  CallsAre(calls, more)
BY DEF CallsAre, CallIs, FillOk

LEMMA Entering ==
  ASSUME MarketInv, NEW t \in Routes \cup {Loop}, NEW order, OrderOk(order), Enter(t, order),
         UNCHANGED <<depth, recent, stepNo, trades>>,
         DOMAIN stepping' = {"at", "todo"}, SubmitsOk(stepping'.todo)
  PROVE  MarketInv'
<1>1. /\ call' = [call EXCEPT ![t] = [at |-> "entered", order |-> order]]
      /\ ownerOf' = Newest(Append(ownerOf, [id |-> order.id, owner |-> order.owner]), MaxTracked)
      /\ entered' = Append(entered, order.id)
  BY DEF Enter
<1>2. IsList(entered)
  BY DEF MarketInv, OwnersAre, Window
<1>3. ToSet(entered) \subseteq ToSet(entered') /\ order.id \in ToSet(entered')
  <2>1. PICK id : id = order.id
    OBVIOUS
  <2>2. PICK more : more = Append(entered, id)
    OBVIOUS
  <2>3. ToSet(entered) \subseteq ToSet(more) /\ id \in ToSet(more)
    BY <1>2, <2>2, GrownList
  <2>4. entered' = more
    BY <1>1, <2>1, <2>2
  <2>5. QED
    BY <2>1, <2>3, <2>4
<1>4. BookIs(depth', entered')
  BY <1>3 DEF MarketInv, BookIs
<1>5. OwnersAre(ownerOf', entered')
  <2>1. PICK e : e = [id |-> order.id, owner |-> order.owner]
    OBVIOUS
  <2>2. PICK id : id = order.id
    OBVIOUS
  <2>3. e.id = id /\ e.owner = id[1]
    BY <2>1, <2>2 DEF OrderOk
  <2>4. OwnersAre(ownerOf, entered)
    BY DEF MarketInv
  <2>5. OwnersAre(Newest(Append(ownerOf, e), MaxTracked), Append(entered, id))
    BY <2>3, <2>4, OwnerNoted
  <2>6. QED
    BY <1>1, <2>1, <2>2, <2>5
<1>6. AttributedAll(recent', entered')
  BY <1>1, <1>2, AttributedStays DEF MarketInv, AttributedAll
<1>7. CallsAre(call', entered')
  <2>1. CallsAre(call, entered')
    <3>1. CallsAre(call, entered)
      BY DEF MarketInv
    <3>2. QED
      BY <1>3, <3>1, CallsStay
  <2>2. PICK c : c = [at |-> "entered", order |-> order]
    OBVIOUS
  <2>3. CallIs(c, entered')
    BY <1>3, <2>2 DEF CallIs
  <2>4. call' = [call EXCEPT ![t] = c]
    BY <1>1, <2>2
  <2>5. QED
    BY <2>1, <2>3, <2>4 DEF CallsAre
<1>8. QED
  BY <1>4, <1>5, <1>6, <1>7 DEF MarketInv

LEMMA Stepped ==
  ASSUME NEW m, NEW desk, NEW bidPx, NEW askPx, NEW size,
         \A o \in {BidOf(m, desk, bidPx, size), AskOf(m, desk, askPx, size)} : OrderOk(o)
  PROVE  SubmitsOk(QuoteCalls(m, desk, bidPx, askPx, size))
<1> DEFINE c1 == CancelOf(desk.ask)
           c2 == CancelOf(desk.bid)
           c3 == SubmitOf(BidOf(m, desk, bidPx, size))
           c4 == SubmitOf(AskOf(m, desk, askPx, size))
           C == {c1, c2, c3, c4}
           s1 == When(CrossesAsk(desk, bidPx), c1)
           s2 == s1 \o When(CrossesBid(desk, askPx), c2)
           s3 == s2 \o When(QuotesBid(desk), c3)
           s4 == s3 \o When(QuotesAsk(desk), c4)
           s5 == s4 \o When(desk.bid # None /\ ~CrossesBid(desk, askPx), c2)
           s6 == s5 \o When(desk.ask # None /\ ~CrossesAsk(desk, bidPx), c1)
<1>1. QuoteCalls(m, desk, bidPx, askPx, size) = s6
  BY DEF QuoteCalls, CancelOf, SubmitOf, BidOf, AskOf
<1>2. \A c \in C : c.op = "submit" => OrderOk(c.order)
  BY DEF CancelOf, SubmitOf
<1>3. c1 \in C /\ c2 \in C /\ c3 \in C /\ c4 \in C
  OBVIOUS
<1> HIDE DEF C, c1, c2, c3, c4
<1>4. ASSUME NEW b, NEW c \in C PROVE When(b, c) \in Seq(C)
  BY <1>4 DEF When
<1>5. \A s, u \in Seq(C) : s \o u \in Seq(C)
  OBVIOUS
<1>6. s1 \in Seq(C)
  BY <1>3, <1>4
<1> HIDE DEF s1
<1>7. s2 \in Seq(C)
  BY <1>3, <1>4, <1>5, <1>6
<1> HIDE DEF s2
<1>8. s3 \in Seq(C)
  BY <1>3, <1>4, <1>5, <1>7
<1> HIDE DEF s3
<1>9. s4 \in Seq(C)
  BY <1>3, <1>4, <1>5, <1>8
<1> HIDE DEF s4
<1>10. s5 \in Seq(C)
  BY <1>3, <1>4, <1>5, <1>9
<1> HIDE DEF s5
<1>11. s6 \in Seq(C)
  BY <1>3, <1>4, <1>5, <1>10
<1> HIDE DEF s6
<1>12. QED
  BY <1>1, <1>2, <1>11 DEF SubmitsOk

LEMMA NextCall ==
  ASSUME NEW calls, SubmitsOk(calls), calls # <<>>
  PROVE  SubmitsOk(Tail(calls)) /\ (Head(calls).op = "submit" => OrderOk(Head(calls).order))
<1>1. PICK C : calls \in Seq(C) /\ \A c \in C : c.op = "submit" => OrderOk(c.order)
  BY DEF SubmitsOk
<1>2. Head(calls) \in C /\ Tail(calls) \in Seq(C)
  BY <1>1, HeadTailProperties
<1>3. QED
  BY <1>1, <1>2 DEF SubmitsOk

LEMMA FewerInBook ==
  ASSUME NEW book, NEW ids, BookIs(book, ids), NEW id
  PROVE  BookIs(Without(book, {id}), ids)
<1>1. PICK b : b = Without(book, {id})
  OBVIOUS
<1>2. Shaped(b) /\ b \subseteq book
  BY <1>1, WithoutIs DEF BookIs, Sound
<1>3. Sound(b) /\ Queued(b)
  BY <1>2 DEF BookIs, Sound, Sized, Named, Queued
<1>4. QED
  BY <1>1, <1>2, <1>3 DEF BookIs

LEMMA MarketInvStep == MarketInv /\ [MarketNext]_marketVars => MarketInv'
<1> SUFFICES ASSUME MarketInv, [MarketNext]_marketVars PROVE MarketInv'
  OBVIOUS
<1>0. ASSUME UNCHANGED <<depth, ownerOf, recent, stepNo, call, entered, trades>>,
             DOMAIN stepping' = {"at", "todo"}, SubmitsOk(stepping'.todo)
      PROVE  MarketInv'
  BY <1>0 DEF MarketInv
<1>a. DOMAIN stepping = {"at", "todo"} /\ SubmitsOk(stepping.todo)
  BY DEF MarketInv
<1>1. CASE BeginStep
  <2>1. PICK q \in Steps :
          /\ stepping' = [at |-> "quoting", todo |-> QuoteCalls("maker", quotes, q[1], q[2], LotSize)]
          /\ stepNo' = stepNo + 1
          /\ UNCHANGED <<depth, ownerOf, recent, call, entered, trades>>
    BY <1>1 DEF BeginStep
  <2>2. \A o \in {BidOf("maker", quotes, q[1], LotSize), AskOf("maker", quotes, q[2], LotSize)} :
          OrderOk(o)
    BY MarketAssumption DEF BidOf, AskOf, Order, NewBid, NewAsk, OrderOk
  <2>3. SubmitsOk(QuoteCalls("maker", quotes, q[1], q[2], LotSize))
    BY <2>2, Stepped
  <2>4. DOMAIN stepping' = {"at", "todo"} /\ SubmitsOk(stepping'.todo)
    BY <2>1, <2>3
  <2>5. StepsAre(trades, stepNo)
    BY DEF MarketInv
  <2>6. StepsAre(trades', stepNo')
    <3>1. stepNo \in Nat /\ stepNo' \in Nat /\ \A s \in Nat : s <= stepNo => s <= stepNo'
      BY <2>1, <2>5 DEF StepsAre
    <3>2. QED
      BY <2>1, <2>5, <3>1 DEF StepsAre
  <2>7. QED
    BY <2>1, <2>4, <2>6 DEF MarketInv
<1>2. CASE MakerCancels
  <2>1. /\ depth' = Without(depth, {Head(stepping.todo).id}) /\ stepping.todo # <<>>
        /\ stepping' = [stepping EXCEPT !.todo = Tail(stepping.todo)]
        /\ UNCHANGED <<ownerOf, recent, stepNo, call, entered, trades>>
    BY <1>2 DEF MakerCancels
  <2>2. BookIs(depth', entered')
    BY <2>1, FewerInBook DEF MarketInv
  <2>3. SubmitsOk(Tail(stepping.todo))
    BY <1>a, <2>1, NextCall
  <2>4. DOMAIN stepping' = {"at", "todo"} /\ SubmitsOk(stepping'.todo)
    BY <1>a, <2>1, <2>3
  <2>5. QED
    BY <2>1, <2>2, <2>4 DEF MarketInv
<1>3. CASE MakerSubmits
  <2>1. PICK order : order = Head(stepping.todo).order
    OBVIOUS
  <2>2. /\ stepping.todo # <<>> /\ Head(stepping.todo).op = "submit"
        /\ Enter(Loop, order)
        /\ stepping' = [stepping EXCEPT !.todo = Tail(stepping.todo)]
        /\ UNCHANGED <<depth, recent, stepNo, trades>>
    BY <1>3, <2>1 DEF MakerSubmits
  <2>3. SubmitsOk(Tail(stepping.todo)) /\ OrderOk(order)
    BY <1>a, <2>1, <2>2, NextCall
  <2>4. DOMAIN stepping' = {"at", "todo"} /\ SubmitsOk(stepping'.todo)
    BY <1>a, <2>2, <2>3
  <2>5. QED
    BY <2>2, <2>3, <2>4, Entering
<1>4. CASE TraderActs
  <2>1. PICK o \in AgentOrders :
          Enter(Loop, Order(<<o.owner, Len(entered) + 1>>, o.owner, o.side, o.qty, o.px, o.rests))
    BY <1>4 DEF TraderActs
  <2>2. UNCHANGED <<depth, recent, stepNo, trades, stepping>>
    BY <1>4 DEF TraderActs
  <2>3. PICK order : order = Order(<<o.owner, Len(entered) + 1>>, o.owner, o.side, o.qty, o.px, o.rests)
    OBVIOUS
  <2>4. OrderOk(order)
    BY <2>3, MarketAssumption DEF Order, OrderOk
  <2>5. DOMAIN stepping' = {"at", "todo"} /\ SubmitsOk(stepping'.todo)
    BY <1>a, <2>2
  <2>6. Enter(Loop, order)
    BY <2>1, <2>3
  <2>7. QED
    BY <2>2, <2>4, <2>5, <2>6, Entering
<1>5. CASE RecordPrice \/ RecordVolume
  <2>1. /\ UNCHANGED <<depth, ownerOf, recent, stepNo, call, entered, trades>>
        /\ \E at : stepping' = [stepping EXCEPT !.at = at]
    BY <1>5 DEF RecordPrice, RecordVolume
  <2>2. DOMAIN stepping' = {"at", "todo"} /\ SubmitsOk(stepping'.todo)
    BY <1>a, <2>1
  <2>3. QED
    BY <1>0, <2>1, <2>2
<1>6. ASSUME NEW t \in Routes \cup {Loop}, CallEngine(t) PROVE MarketInv'
  <2>1. PICK order : order = call[t].order
    OBVIOUS
  <2>2. PICK list : list = Listed(Submitted(depth, order).fills)
    OBVIOUS
  <2>3. PICK c : c = [at |-> "answered", fills |-> list]
    OBVIOUS
  <2>4. /\ call[t].at = "entered" /\ depth' = Submitted(depth, order).book
        /\ call' = [call EXCEPT ![t] = c]
        /\ UNCHANGED <<ownerOf, recent, stepNo, entered, trades, stepping>>
    BY <1>6, <2>1, <2>2, <2>3 DEF CallEngine
  <2>5. CallsAre(call, entered) /\ BookIs(depth, entered)
    BY DEF MarketInv
  <2>6. OrderOk(order) /\ order.id \in ToSet(entered)
    BY <2>1, <2>4, <2>5 DEF CallsAre, CallIs
  <2>7. BookIs(depth', entered) /\ IsList(list) /\ \A f \in ToSet(list) : FillOk(f, entered)
    BY <2>2, <2>4, <2>5, <2>6, EngineAnswers
  <2>8. CallIs(c, entered)
    BY <2>3, <2>7 DEF CallIs
  <2>9. CallsAre(call', entered)
    BY <2>4, <2>5, <2>8 DEF CallsAre
  <2>10. QED
    BY <1>a, <2>4, <2>7, <2>9 DEF MarketInv
<1>7. ASSUME NEW t \in Routes \cup {Loop}, RecordFills(t) PROVE MarketInv'
  <2>1. PICK fills : fills = call[t].fills
    OBVIOUS
  <2>2. PICK now : now = [i \in DOMAIN fills |->
          Fill(fills[i], stepNo, fills[i].takerOwner, fills[i].makerOwner)]
    OBVIOUS
  <2>3. PICK noted : noted = [i \in DOMAIN fills |->
          Fill(fills[i], stepNo, Owner(fills[i].taker), Owner(fills[i].maker))]
    OBVIOUS
  <2>4. /\ call[t].at = "answered"
        /\ recent' = Newest(recent \o noted, MaxRecent) /\ trades' = trades \o now
        /\ call' = [call EXCEPT ![t] = Free]
        /\ UNCHANGED <<depth, ownerOf, stepNo, entered, stepping>>
    BY <1>7, <2>1, <2>2, <2>3 DEF RecordFills
  <2>5. /\ CallsAre(call, entered) /\ OwnersAre(ownerOf, entered) /\ FillsAreKept(recent, trades)
        /\ StepsAre(trades, stepNo) /\ AttributedAll(recent, entered)
    BY DEF MarketInv
  <2>6. IsList(fills) /\ \A f \in ToSet(fills) : FillOk(f, entered)
    BY <2>1, <2>4, <2>5 DEF CallsAre, CallIs
  <2>7. /\ FillsAreKept(recent', trades') /\ StepsAre(trades', stepNo)
        /\ AttributedAll(recent', entered)
    BY <2>2, <2>3, <2>4, <2>5, <2>6, FillsNoted
  <2>8. CallsAre(call', entered)
    <3>1. CallIs(Free, entered)
      BY DEF CallIs, Free
    <3>2. QED
      BY <2>4, <2>5, <3>1 DEF CallsAre
  <2>9. QED
    BY <1>a, <2>4, <2>7, <2>8 DEF MarketInv
<1>8. ASSUME NEW t \in Routes, SubmitOrder(t) PROVE MarketInv'
  <2>1. PICK o \in UserOrders :
          Enter(t, Order(<<"user", Len(entered) + 1>>, "user", o.side, o.qty, o.px, o.rests))
    BY <1>8 DEF SubmitOrder
  <2>2. UNCHANGED <<depth, recent, stepNo, trades, stepping>>
    BY <1>8 DEF SubmitOrder
  <2>3. PICK order : order = Order(<<"user", Len(entered) + 1>>, "user", o.side, o.qty, o.px, o.rests)
    OBVIOUS
  <2>4. OrderOk(order)
    BY <2>3, MarketAssumption DEF Order, OrderOk
  <2>5. DOMAIN stepping' = {"at", "todo"} /\ SubmitsOk(stepping'.todo)
    BY <1>a, <2>2
  <2>6. Enter(t, order)
    BY <2>1, <2>3
  <2>7. QED
    BY <2>2, <2>4, <2>5, <2>6, Entering
<1>9. ASSUME NEW t \in Routes, ReadPrices(t) \/ ReadVolumes(t) PROVE MarketInv'
  <2>1. UNCHANGED <<depth, ownerOf, recent, stepNo, call, entered, trades, stepping>>
    BY <1>9 DEF ReadPrices, ReadVolumes
  <2>2. QED
    BY <1>0, <1>a, <2>1
<1>10. CASE UNCHANGED marketVars
  <2>1. UNCHANGED <<depth, ownerOf, recent, stepNo, call, entered, trades, stepping>>
    BY <1>10 DEF marketVars
  <2>2. QED
    BY <1>0, <1>a, <2>1
<1>11. QED
  BY <1>1, <1>2, <1>3, <1>4, <1>5, <1>6, <1>7, <1>8, <1>9, <1>10 DEF MarketNext

\* What is gained from some fills and from others adds up.
LEMMA GainedApart ==
  ASSUME NEW who, NEW A, NEW B, IsFiniteSet(A), IsFiniteSet(B), A \cap B = {},
         \A f \in A \cup B : f.qty \in Nat \ {0}
  PROVE  Gained(who, A \cup B) - Gained(who, A) = Gained(who, B)
<1> DEFINE all == A \cup B
           g == [f \in all |-> Gain(who, f)]
           h == [f \in A |-> Gain(who, f)]
           k == [f \in B |-> Gain(who, f)]
<1>1. /\ Gained(who, all) = Total(g, all) /\ Gained(who, A) = Total(h, A)
      /\ Gained(who, B) = Total(k, B)
  BY GainedIsTotal
<1>2. (\A f \in all : g[f] \in Int) /\ (\A f \in A : g[f] = h[f]) /\ (\A f \in B : g[f] = k[f])
  BY DEF Gain, Signed
<1> HIDE DEF g, h, k
<1>3. Total(g, A) = Total(h, A) /\ Total(g, B) = Total(k, B)
  BY <1>2, TotalSame
<1>4. Total(g, A) \in Int /\ Total(g, B) \in Int
  BY <1>2, TotalType
<1>5. Total(g, all) = Total(g, A) + Total(g, B)
  BY <1>2, TotalUnion
<1> HIDE DEF all
<1>6. QED
  BY <1>1, <1>3, <1>4, <1>5 DEF all

\* In a complete window are the fills since the cutoff.
LEMMA WindowIsComplete ==
  ASSUME FillsAreKept(recent, trades), StepsAre(trades, stepNo),
         NEW cutoff \in Int, CoverageComplete(cutoff),
         ~ \E f \in After(recent, cutoff) : Unknown \in {f.takerOwner, f.makerOwner}
  PROVE  After(recent, cutoff) = After(trades, cutoff)
<1>1. PICK R : Window(recent, trades, MaxRecent, R) /\ \A p \in R : Alike(p[1], p[2])
  BY DEF FillsAreKept
<1>2. IsList(recent) /\ IsList(trades) /\ Len(recent) = IF Len(trades) <= MaxRecent THEN Len(trades) ELSE MaxRecent
  BY <1>1 DEF Window
<1>3. PICK a \in Nat : a = Len(recent)
  BY <1>2, ListIs
<1>4. PICK b \in Nat : b = Len(trades)
  BY <1>2, ListIs
<1>5. \A k \in 1..a : Alike(recent[k], trades[b - a + k])
  <2>1. ASSUME NEW k \in 1..a PROVE Alike(recent[k], trades[b - a + k])
    <3>1. PICK p : p = <<recent[k], trades[b - a + k]>>
      OBVIOUS
    <3>2. p \in R /\ p[1] = recent[k] /\ p[2] = trades[b - a + k]
      BY <1>1, <1>3, <1>4, <3>1 DEF Window
    <3>3. Alike(p[1], p[2])
      BY <1>1, <3>2
    <3>4. QED
      BY <3>2, <3>3
  <2>2. QED
    BY <2>1
<1>6. ASSUME NEW f, NEW g, Alike(f, g) PROVE f.step = g.step
  BY <1>6 DEF Alike, Fill
<1>7. ASSUME NEW f \in After(recent, cutoff), NEW g, Alike(f, g) PROVE f = g
  <2>1. f.takerOwner # Unknown /\ f.makerOwner # Unknown
    OBVIOUS
  <2>2. f.takerOwner = g.takerOwner /\ f.makerOwner = g.makerOwner
    BY <1>7, <2>1 DEF Alike
  <2>3. QED
    BY <1>7, <2>2 DEF Alike
<1>8. \A x : x \in ToSet(recent) <=> \E i \in 1..a : recent[i] = x
  BY <1>2, <1>3, ListIs
<1>9. \A x : x \in ToSet(trades) <=> \E i \in 1..b : trades[i] = x
  BY <1>2, <1>4, ListIs
<1>10. a <= b
  <2>1. MaxRecent \in Nat
    BY MarketAssumption
  <2>2. QED
    BY <1>2, <1>3, <1>4, <2>1
<1>11. ASSUME NEW f \in After(recent, cutoff) PROVE f \in After(trades, cutoff)
  <2>1. PICK k \in 1..a : recent[k] = f
    BY <1>8 DEF After
  <2>2. PICK j \in 1..b : j = b - a + k
    BY <1>10
  <2>3. f = trades[j]
    BY <1>5, <1>7, <2>1, <2>2
  <2>4. f \in ToSet(trades)
    BY <1>9, <2>3
  <2>5. QED
    BY <2>4 DEF After
<1>12. ASSUME NEW g \in After(trades, cutoff) PROVE g \in After(recent, cutoff)
  <2>1. PICK j \in 1..b : trades[j] = g
    BY <1>9 DEF After
  <2>2. g.step > cutoff
    BY DEF After
  <2>3. CASE j > b - a
    <3>1. PICK k \in 1..a : k = j - (b - a)
      BY <1>10, <2>3
    <3>2. Alike(recent[k], g)
      <4>1. b - a + k = j
        BY <3>1
      <4>2. QED
        BY <1>5, <2>1, <4>1
    <3>3. PICK f : f = recent[k]
      OBVIOUS
    <3>4. f \in ToSet(recent) /\ f.step = g.step
      BY <1>6, <1>8, <3>2, <3>3
    <3>5. f \in After(recent, cutoff)
      BY <2>2, <3>4 DEF After
    <3>6. f = g
      BY <1>7, <3>2, <3>3, <3>5
    <3>7. QED
      BY <3>5, <3>6
  <2>4. CASE ~(j > b - a)
    <3>1. a < b
      BY <1>10, <2>4
    <3>2. a = MaxRecent /\ a >= 1
      BY <1>2, <1>3, <1>4, <3>1, MarketAssumption
    <3>3. ~(recent[1].step > cutoff)
      BY <1>3, <3>2 DEF CoverageComplete, AtCapacity
    <3>4. PICK i \in 1..b : i = b - a + 1
      BY <1>10, <3>2
    <3>5. recent[1].step = trades[i].step
      <4>1. Alike(recent[1], trades[i])
        BY <1>5, <3>2, <3>4
      <4>2. QED
        BY <1>6, <4>1
    <3>6. j <= i
      BY <2>4, <3>4
    <3>7. /\ trades[j].step <= trades[i].step /\ trades[j].step \in Int /\ trades[i].step \in Int
      BY <1>4, <3>6 DEF StepsAre
    <3>8. PICK s \in Int : s = trades[i].step
      BY <3>7
    <3>9. PICK u \in Int : u = trades[j].step
      BY <3>7
    <3>10. u <= s /\ ~(s > cutoff) /\ u > cutoff
      BY <2>1, <2>2, <3>3, <3>5, <3>7, <3>8, <3>9
    <3>11. QED
      BY <3>10
  <2>5. QED
    BY <2>3, <2>4
<1>13. QED
  BY <1>11, <1>12

LEMMA WindowsAttribute == MarketInv => FillsAreAttributed
<1> SUFFICES ASSUME MarketInv PROVE FillsAreAttributed
  OBVIOUS
<1>1. /\ AttributedAll(recent, entered) /\ FillsAreKept(recent, trades) /\ StepsAre(trades, stepNo)
  BY DEF MarketInv
<1>2. ASSUME NEW f \in ToSet(recent),
             NEW side \in {<<f.taker, f.takerOwner>>, <<f.maker, f.makerOwner>>}
      PROVE  \/ side[2] = side[1][1]
             \/ /\ side[2] = Unknown
                /\ \E i \in DOMAIN entered : entered[i] = side[1] /\ Len(entered) - i >= MaxTracked
  <2>1. /\ Attributed(f.taker, f.takerOwner, entered) /\ Attributed(f.maker, f.makerOwner, entered)
    BY <1>1 DEF AttributedAll
  <2>2. PICK id, owner : side = <<id, owner>> /\ Attributed(id, owner, entered)
    BY <2>1
  <2>3. side[1] = id /\ side[2] = owner
    BY <2>2
  <2>4. QED
    BY <2>2, <2>3 DEF Attributed
<1>3. ASSUME NEW cutoff \in -1..stepNo, CoverageComplete(cutoff),
             ~ \E f \in After(recent, cutoff) : Unknown \in {f.takerOwner, f.makerOwner},
             NEW owner
      PROVE  Change(owner, cutoff) = Gained(owner, After(trades, cutoff))
  <2>1. cutoff \in Int
    OBVIOUS
  <2>2. After(recent, cutoff) = After(trades, cutoff)
    BY <1>1, <1>3, <2>1, WindowIsComplete
  <2>3. PICK A : A = UpTo(cutoff)
    OBVIOUS
  <2>4. PICK B : B = After(recent, cutoff)
    OBVIOUS
  <2>5. PICK all : all = ToSet(recent)
    OBVIOUS
  <2>6. PICK R : Window(recent, trades, MaxRecent, R) /\ \A p \in R : Alike(p[1], p[2])
    BY <1>1 DEF FillsAreKept
  <2>7. IsList(recent) /\ IsList(trades)
    BY <2>6 DEF Window
  <2>8. \A f \in all : f.step \in Nat /\ f.qty \in Nat \ {0}
    <3>1. ASSUME NEW f \in all PROVE f.step \in Nat /\ f.qty \in Nat \ {0}
      <4>1. PICK k \in 1..Len(recent) : recent[k] = f
        BY <2>5, <2>7, ListIs
      <4>2. PICK j : j = Len(trades) - Len(recent) + k
        OBVIOUS
      <4>3. Alike(f, trades[j])
        <5>1. PICK p : p = <<recent[k], trades[j]>>
          OBVIOUS
        <5>2. p \in R /\ p[1] = f /\ p[2] = trades[j]
          BY <2>6, <4>1, <4>2, <5>1 DEF Window
        <5>3. QED
          BY <2>6, <5>2
      <4>4. j \in 1..Len(trades)
        <5>1. PICK a \in Nat : a = Len(recent)
          BY <2>7, ListIs
        <5>2. PICK b \in Nat : b = Len(trades)
          BY <2>7, ListIs
        <5>3. a <= b
          <6>1. a = IF b <= MaxRecent THEN b ELSE MaxRecent
            BY <2>6, <5>1, <5>2 DEF Window
          <6>2. MaxRecent \in Nat
            BY MarketAssumption
          <6>3. QED
            BY <6>1, <6>2
        <5>4. k \in 1..a /\ j = b - a + k
          BY <4>2, <5>1, <5>2
        <5>5. QED
          BY <5>2, <5>3, <5>4
      <4>5. trades[j].step \in Nat
        BY <1>1, <4>4 DEF StepsAre
      <4>6. QED
        BY <4>3, <4>5 DEF Alike, Fill
    <3>2. QED
      BY <3>1
  <2>9. all = A \cup B /\ A \cap B = {}
    BY <2>1, <2>3, <2>4, <2>5, <2>8 DEF UpTo, After
  <2>10. IsFiniteSet(all)
    <3>1. PICK n \in Nat : n = Len(recent) /\ DOMAIN recent = 1..n
      BY <2>7, ListIs
    <3>2. IsFiniteSet(1..n)
      <4>1. 1 \in Int /\ n \in Int
        OBVIOUS
      <4>2. QED
        BY <4>1, FS_Interval
    <3>3. all = {recent[i] : i \in 1..n}
      BY <2>5, <3>1 DEF ToSet
    <3>4. QED
      BY <3>2, <3>3, ValuesFinite
  <2>11. IsFiniteSet(A) /\ IsFiniteSet(B)
    BY <2>9, <2>10, FS_Subset
  <2>12. Gained(owner, A \cup B) - Gained(owner, A) = Gained(owner, B)
    BY <2>8, <2>9, <2>11, GainedApart
  <2>13. Change(owner, cutoff) = Gained(owner, all) - Gained(owner, A)
    BY <2>3, <2>5 DEF Change
  <2>14. QED
    BY <2>2, <2>4, <2>9, <2>12, <2>13
<1>4. QED
  BY <1>2, <1>3 DEF FillsAreAttributed

\* The fills that a market keeps name their owners, or say that an order is too old
\* to be known, and a leaderboard that calls its window complete counts all that an
\* owner traded since its cutoff: for any routes, orders and sizes of the windows.
THEOREM FillsNameTheirOwners == MarketSpec => []FillsAreAttributed
<1>1. QED
  BY MarketInvInit, MarketInvStep, WindowsAttribute, PTL DEF MarketSpec

-------------------------------------------------------------------------------
(* Market: the price and the volume of a step                                  *)

\* In a step the price is recorded first, then the volume; between the two, and
\* before either, the last volume is of the step before.
BarType ==
  /\ stepNo \in Nat /\ prices \in Nat /\ volumes \in Seq(Nat)
  /\ stepping.at \in {"rest", "quoting", "priced"} /\ DOMAIN stepping = {"at", "todo"}
  /\ DOMAIN bars = Routes

BarsRecorded ==
  /\ prices = stepNo + (IF stepping.at = "quoting" THEN 0 ELSE 1)
  /\ LatestVolume = stepNo - (IF stepping.at = "rest" THEN 0 ELSE 1)

BarInv == BarType /\ BarsRecorded /\ BarsPairUp

\* The newest entry of a list is kept.
LEMMA NewestKeepsLast ==
  ASSUME NEW S, NEW s \in Seq(S), s # <<>>, NEW n \in Nat \ {0}
  PROVE  /\ Newest(s, n) \in Seq(S) /\ Newest(s, n) # <<>>
         /\ Newest(s, n)[Len(Newest(s, n))] = s[Len(s)]
<1> DEFINE k == Max({1, Len(s) - n + 1})
<1>1. Len(s) \in Nat /\ Len(s) >= 1
  BY EmptySeq
<1>2. k \in 1..Len(s)
  <2>1. k = IF 1 >= Len(s) - n + 1 THEN 1 ELSE Len(s) - n + 1
    BY <1>1, MaxOfTwo
  <2>2. QED
    BY <1>1, <2>1
<1> HIDE DEF k
<1> DEFINE q == SubSeq(s, k, Len(s))
<1>3. Newest(s, n) = q
  BY DEF Newest, k
<1>4. q \in Seq(S) /\ Len(q) = Len(s) - k + 1 /\ \A i \in 1..(Len(s) - k + 1) : q[i] = s[k + i - 1]
  <2>1. \A i \in k..Len(s) : s[i] \in S
    BY <1>1, <1>2, ElementOfSeq
  <2>2. k <= Len(s)
    BY <1>1, <1>2
  <2>3. QED
    BY <1>1, <1>2, <2>1, <2>2, SubSeqProperties
<1> HIDE DEF q
<1>5. Len(q) \in 1..(Len(s) - k + 1)
  BY <1>1, <1>2, <1>4
<1>6. q[Len(q)] = s[Len(s)]
  <2>1. q[Len(q)] = s[k + Len(q) - 1]
    BY <1>4, <1>5
  <2>2. k + Len(q) - 1 = Len(s)
    BY <1>1, <1>2, <1>4
  <2>3. QED
    BY <2>1, <2>2
<1>7. q # <<>>
  BY <1>4, <1>5, EmptySeq
<1>8. QED
  BY <1>3, <1>4, <1>6, <1>7

LEMMA BarInvInit == MarketInit => BarInv
<1> SUFFICES ASSUME MarketInit PROVE BarInv
  OBVIOUS
<1>1. stepNo = 0 /\ prices = 1 /\ volumes = <<>> /\ stepping = [at |-> "rest", todo |-> <<>>]
  BY DEF MarketInit
<1>2. <<>> \in Seq(Nat)
  BY EmptySeq
<1>3. LatestVolume = 0
  BY <1>1 DEF LatestVolume
<1>4. BarType
  <2>1. DOMAIN stepping = {"at", "todo"} /\ stepping.at = "rest" /\ DOMAIN bars = Routes
    BY <1>1 DEF MarketInit
  <2>2. QED
    BY <1>1, <1>2, <2>1 DEF BarType
<1>5. BarsRecorded
  <2>1. stepping.at = "rest" /\ stepNo = 0 /\ prices = 1
    BY <1>1
  <2>2. QED
    BY <1>3, <2>1 DEF BarsRecorded
<1>6. BarsPairUp
  BY DEF MarketInit, Free, BarsPairUp
<1>7. QED
  BY <1>4, <1>5, <1>6 DEF BarInv

LEMMA BarInvStep == BarInv /\ [MarketNext]_marketVars => BarInv'
<1> SUFFICES ASSUME BarInv, [MarketNext]_marketVars PROVE BarInv'
  OBVIOUS
<1> USE DEF BarInv, BarType, BarsRecorded, BarsPairUp
<1>1. ASSUME UNCHANGED <<stepNo, prices, volumes, bars>>, stepping'.at = stepping.at,
             DOMAIN stepping' = DOMAIN stepping
      PROVE  BarInv'
  BY <1>1 DEF LatestVolume
<1>2. CASE BeginStep
  BY <1>2 DEF BeginStep, LatestVolume
<1>3. CASE MakerCancels \/ MakerSubmits \/ TraderActs
  <2>1. /\ UNCHANGED <<stepNo, prices, volumes, bars>> /\ stepping'.at = stepping.at
        /\ DOMAIN stepping' = DOMAIN stepping
    BY <1>3 DEF MakerCancels, MakerSubmits, TraderActs, Enter
  <2>2. QED
    BY <1>1, <2>1
<1>4. CASE RecordPrice
  BY <1>4 DEF RecordPrice, LatestVolume
<1>5. CASE RecordVolume
  <2>1. Append(volumes, stepNo) \in Seq(Nat) /\ Append(volumes, stepNo) # <<>>
        /\ Append(volumes, stepNo)[Len(Append(volumes, stepNo))] = stepNo
    BY AppendProperties
  <2>2. /\ volumes' = Newest(Append(volumes, stepNo), MaxVolumes)
        /\ UNCHANGED <<stepNo, prices, bars>> /\ stepping'.at = "rest" /\ stepping.at = "priced"
        /\ DOMAIN stepping' = DOMAIN stepping
    BY <1>5 DEF RecordVolume
  <2>3. volumes' \in Seq(Nat) /\ volumes' # <<>> /\ volumes'[Len(volumes')] = stepNo
    BY <2>1, <2>2, NewestKeepsLast, MarketAssumption
  <2>4. QED
    BY <2>2, <2>3 DEF LatestVolume
<1>6. ASSUME NEW t \in Routes \cup {Loop}, CallEngine(t) \/ RecordFills(t) PROVE BarInv'
  <2>1. /\ UNCHANGED <<stepNo, prices, volumes, bars>> /\ stepping'.at = stepping.at
        /\ DOMAIN stepping' = DOMAIN stepping
    BY <1>6 DEF CallEngine, RecordFills
  <2>2. QED
    BY <1>1, <2>1
<1>7. ASSUME NEW t \in Routes, SubmitOrder(t) PROVE BarInv'
  <2>1. /\ UNCHANGED <<stepNo, prices, volumes, bars>> /\ stepping'.at = stepping.at
        /\ DOMAIN stepping' = DOMAIN stepping
    BY <1>7 DEF SubmitOrder, Enter
  <2>2. QED
    BY <1>1, <2>1
<1>8. ASSUME NEW t \in Routes, ReadPrices(t) PROVE BarInv'
  BY <1>8 DEF ReadPrices, LatestVolume
<1>9. ASSUME NEW t \in Routes, ReadVolumes(t) PROVE BarInv'
  <2>1. UNCHANGED <<stepNo, prices, volumes, stepping>>
    BY <1>9 DEF ReadVolumes
  <2>2. BarType' /\ BarsRecorded'
    BY <1>9, <2>1 DEF LatestVolume, ReadVolumes
  <2>3. ~(stepping.at = "priced" \/ prices - 1 # bars[t].price) => LatestVolume = bars[t].price
    OBVIOUS
  <2>4. bars' = [bars EXCEPT ![t] =
          [at |-> "read", price |-> bars[t].price, volume |-> LatestVolume,
           raced |-> stepping.at = "priced" \/ prices - 1 # bars[t].price]]
    BY <1>9 DEF ReadVolumes, VolumeOfLastBar
  <2>5. \A r \in Routes : bars'[r].at = "read" /\ ~bars'[r].raced => bars'[r].volume = bars'[r].price
    <3>1. \A r \in Routes \ {t} : bars'[r] = bars[r]
      BY <2>4
    <3>2. CASE stepping.at = "priced" \/ prices - 1 # bars[t].price
      <4>1. bars'[t].raced
        BY <2>4, <3>2
      <4>2. QED
        BY <3>1, <4>1
    <3>3. CASE ~(stepping.at = "priced" \/ prices - 1 # bars[t].price)
      <4>1. bars'[t].volume = bars'[t].price
        BY <2>3, <2>4, <3>3
      <4>2. QED
        BY <3>1, <4>1
    <3>4. QED
      BY <3>2, <3>3
  <2>6. QED
    BY <2>2, <2>5
<1>10. CASE UNCHANGED marketVars
  BY <1>1, <1>10 DEF marketVars
<1>11. QED
  BY <1>2, <1>3, <1>4, <1>5, <1>6, <1>7, <1>8, <1>9, <1>10 DEF MarketNext

\* A history that GET /market/history answers pairs each price with the volume of
\* its own step, for any number of routes and steps and any window, unless a step
\* ended between its two reads or was between its own two records.
THEOREM HistoriesPairUp == MarketSpec => []BarsPairUp
<1>1. BarInv => BarsPairUp
  BY DEF BarInv
<1>2. QED
  BY <1>1, BarInvInit, BarInvStep, PTL DEF MarketSpec

-------------------------------------------------------------------------------
(* EngineClient: the inductive invariant                                       *)

Lines == [id : Nat, op : Ops]
Calling == [at : {"write", "read"}, id : Nat, op : Ops]
Ended ==
  {[at |-> "idle"]} \cup [at : {"raised"}, op : Ops]
    \cup [at : {"returned", "desync", "raised"}, op : Ops, got : Ops]

\* What lies in the pipe, in either direction, and who waits for it.
In(s) == {s[i] : i \in 1..Len(s)}
Pipe == In(requests) \cup In(answers)
Reading == {t \in Callers : caller[t].at = "read"}

ClientType ==
  /\ process \in {"running", "exited"}
  /\ requests \in Seq(Lines) /\ answers \in Seq(Lines)
  /\ caller \in [Callers -> Calling \cup Ended]
  /\ lastId \in Nat /\ overlap \in BOOLEAN

\* Every call has an id of its own, and its lines are about what it asked.
IdsAreOwn ==
  /\ \A t \in Callers : InCall(t) => caller[t].id <= lastId
  /\ \A t, u \in Callers : InCall(t) /\ InCall(u) /\ t # u => caller[t].id # caller[u].id
  /\ \A e \in Pipe : e.id <= lastId
  /\ \A t \in Callers, e \in Pipe : InCall(t) /\ e.id = caller[t].id => e.op = caller[t].op

\* There is at most one line for each thread that waits.
NoneTooMany ==
  /\ Len(requests) + Len(answers) <= Cardinality(Reading)
  /\ process = "exited" => requests = <<>>

\* Without an overlap there is one call at most, and every line is its own.
OneAtATime ==
  ~overlap =>
    /\ \A t, u \in Callers : InCall(t) /\ InCall(u) => t = u
    /\ \A t \in Callers, e \in Pipe : caller[t].at = "read" => e.id = caller[t].id

Answered ==
  \A t \in Callers :
    /\ caller[t].at = "returned" => caller[t].got = caller[t].op
    /\ caller[t].at = "desync" => overlap

ClientInv == ClientType /\ IdsAreOwn /\ NoneTooMany /\ OneAtATime /\ Answered

-------------------------------------------------------------------------------
(* Lines in a pipe *)

LEMMA InAppended ==
  ASSUME NEW S, NEW s \in Seq(S), NEW e \in S
  PROVE  In(Append(s, e)) = In(s) \cup {e} /\ Len(Append(s, e)) = Len(s) + 1
BY DEF In

LEMMA InTaken ==
  ASSUME NEW S, NEW s \in Seq(S), s # <<>>
  PROVE  /\ Head(s) \in S /\ Tail(s) \in Seq(S)
         /\ Head(s) \in In(s) /\ In(Tail(s)) \subseteq In(s) /\ Len(Tail(s)) = Len(s) - 1
BY DEF In

LEMMA InLines ==
  ASSUME NEW s \in Seq(Lines)
  PROVE  In(s) \subseteq Lines /\ Len(s) \in Nat
BY DEF In

LEMMA Waiting == ClientType => IsFiniteSet(Reading) /\ Cardinality(Reading) \in Nat
<1>1. IsFiniteSet(Reading)
  BY EngineAssumption, FS_Subset DEF Reading
<1>2. QED
  BY <1>1, FS_CardinalityType

LEMMA OneMore ==
  ASSUME ClientType, NEW t \in Callers, t \notin Reading
  PROVE  Cardinality(Reading \cup {t}) = Cardinality(Reading) + 1
BY Waiting, FS_AddElement

LEMMA OneLess ==
  ASSUME ClientType, NEW t \in Reading
  PROVE  Cardinality(Reading \ {t}) = Cardinality(Reading) - 1
BY Waiting, FS_RemoveElement

LEMMA Empty ==
  ASSUME ClientInv, Reading = {}
  PROVE  requests = <<>> /\ answers = <<>> /\ Pipe = {}
<1>1. Cardinality(Reading) = 0
  BY FS_EmptySet
<1>2. Len(requests) \in Nat /\ Len(answers) \in Nat
  BY InLines DEF ClientInv, ClientType
<1>3. Len(requests) = 0 /\ Len(answers) = 0
  BY <1>1, <1>2 DEF ClientInv, NoneTooMany
<1>4. requests = <<>> /\ answers = <<>>
  BY <1>3 DEF ClientInv, ClientType
<1>5. QED
  BY <1>4 DEF Pipe, In

-------------------------------------------------------------------------------
LEMMA ClientInvInit == EngineInit => ClientInv
<1> SUFFICES ASSUME EngineInit PROVE ClientInv
  OBVIOUS
<1>1. ClientType
  <2>1. caller \in [Callers -> Calling \cup Ended]
    BY DEF EngineInit, Ended
  <2>2. requests \in Seq(Lines) /\ answers \in Seq(Lines)
    BY DEF EngineInit
  <2>3. QED
    BY <2>1, <2>2 DEF EngineInit, ClientType
<1>2. Reading = {} /\ Pipe = {}
  BY DEF EngineInit, Reading, Pipe, In
<1>3. NoneTooMany
  BY <1>2, FS_EmptySet DEF EngineInit, NoneTooMany
<1>4. \A t \in Callers : caller[t].at = "idle"
  BY DEF EngineInit
<1>5. IdsAreOwn /\ OneAtATime /\ Answered
  BY <1>2, <1>4 DEF IdsAreOwn, OneAtATime, Answered, InCall
<1>6. QED
  BY <1>1, <1>3, <1>5 DEF ClientInv

\* What a step of thread t does to the others.
Becomes(t, state) == caller' = [caller EXCEPT ![t] = state]

LEMMA Becoming ==
  ASSUME ClientType, NEW t \in Callers, NEW state \in Calling \cup Ended, Becomes(t, state)
  PROVE  /\ caller' \in [Callers -> Calling \cup Ended]
         /\ \A u \in Callers : caller'[u] = IF u = t THEN state ELSE caller[u]
BY DEF ClientType, Becomes

\* A thread leaves its call, perhaps with a line.
LEMMA Leaving ==
  ASSUME ClientInv, NEW t \in Callers, InCall(t), NEW state \in Ended, Becomes(t, state),
         state.at = "returned" => state.got = state.op,
         state.at = "desync" => overlap,
         answers' \in Seq(Lines), requests' = requests, In(answers') \subseteq In(answers),
         \/ caller[t].at = "write" /\ answers' = answers
         \/ caller[t].at = "read" /\ Len(answers') = Len(answers) - 1
         \/ answers' = <<>> /\ process = "exited",
         UNCHANGED <<process, lastId, overlap>>
  PROVE  ClientInv'
<1>1. /\ caller' \in [Callers -> Calling \cup Ended]
      /\ \A u \in Callers : caller'[u] = IF u = t THEN state ELSE caller[u]
  BY Becoming DEF ClientInv
<1>2. state.at \notin {"write", "read"}
  BY DEF Ended
<1>3. ClientType'
  BY <1>1 DEF ClientInv, ClientType
<1>4. Pipe' \subseteq Pipe
  BY DEF Pipe
<1>5. IdsAreOwn'
  BY <1>1, <1>2, <1>4 DEF ClientInv, IdsAreOwn, InCall
<1>6. OneAtATime'
  BY <1>1, <1>2, <1>4 DEF ClientInv, OneAtATime, InCall
<1>7. Answered'
  BY <1>1 DEF ClientInv, Answered
<1>8. Reading' = Reading \ {t}
  BY <1>1, <1>2 DEF Reading
<1>9. Len(requests) \in Nat /\ Len(answers) \in Nat /\ Len(answers') \in Nat
  BY InLines DEF ClientInv, ClientType
<1>10. NoneTooMany'
  <2>1. CASE caller[t].at = "write" /\ answers' = answers
    <3>1. Reading' = Reading
      BY <1>8, <2>1 DEF Reading
    <3>2. QED
      BY <2>1, <3>1 DEF ClientInv, NoneTooMany
  <2>2. CASE caller[t].at = "read" /\ Len(answers') = Len(answers) - 1
    <3>1. Cardinality(Reading') = Cardinality(Reading) - 1
      BY <1>8, <2>2, OneLess DEF Reading, ClientInv
    <3>2. Cardinality(Reading) \in Nat
      BY Waiting DEF ClientInv
    <3>3. QED
      BY <1>9, <2>2, <3>1, <3>2 DEF ClientInv, NoneTooMany
  <2>3. CASE answers' = <<>> /\ process = "exited"
    <3>1. requests' = <<>>
      BY <2>3 DEF ClientInv, NoneTooMany
    <3>2. Cardinality(Reading') \in Nat
      BY <1>3, Waiting, <1>8, FS_Subset, FS_CardinalityType DEF ClientInv
    <3>3. QED
      BY <2>3, <3>1, <3>2 DEF NoneTooMany
  <2>4. QED
    BY <2>1, <2>2, <2>3
<1>11. QED
  BY <1>3, <1>5, <1>6, <1>7, <1>10 DEF ClientInv

LEMMA ClientInvStep == ClientInv /\ [EngineNext]_clientVars => ClientInv'
<1> SUFFICES ASSUME ClientInv, [EngineNext]_clientVars PROVE ClientInv'
  OBVIOUS
<1>1. ASSUME NEW t \in Callers, NEW op \in Ops, TakeId(t, op) PROVE ClientInv'
  <2> DEFINE state == [at |-> "write", id |-> lastId + 1, op |-> op]
  <2>1. lastId \in Nat /\ lastId' = lastId + 1
    BY <1>1 DEF TakeId, ClientInv, ClientType
  <2>2. state \in Calling \cup Ended /\ Becomes(t, state) /\ state.at = "write"
        /\ state.id = lastId + 1
    BY <1>1, <2>1 DEF TakeId, Becomes, Calling
  <2>3. /\ caller' \in [Callers -> Calling \cup Ended]
        /\ \A u \in Callers : caller'[u] = IF u = t THEN state ELSE caller[u]
    BY <2>2, Becoming DEF ClientInv
  <2> HIDE DEF state
  <2>4. UNCHANGED <<process, requests, answers>> /\ overlap' \in BOOLEAN
    BY <1>1 DEF TakeId
  <2>5. ClientType'
    BY <2>1, <2>3, <2>4 DEF ClientInv, ClientType
  <2>6. Pipe' = Pipe /\ Pipe \subseteq Lines
    BY <2>4, InLines DEF Pipe, In, ClientInv, ClientType
  <2>7. \A u \in Callers : InCall(u) => caller[u].id \in Nat /\ caller[u].id <= lastId
    BY DEF ClientInv, ClientType, IdsAreOwn, InCall, Calling, Ended
  <2>8. \A e \in Pipe : e.id \in Nat /\ e.id <= lastId
    BY <2>6 DEF ClientInv, IdsAreOwn, Lines
  <2>9. IdsAreOwn'
    BY <2>1, <2>2, <2>3, <2>6, <2>7, <2>8 DEF ClientInv, IdsAreOwn, InCall
  <2>10. Reading' = Reading
    BY <1>1, <2>2, <2>3 DEF Reading, TakeId, InCall
  <2>11. NoneTooMany'
    BY <2>4, <2>10 DEF ClientInv, NoneTooMany
  <2>12. OneAtATime'
    <3>1. SUFFICES ASSUME ~overlap' PROVE OneAtATime'
      BY DEF OneAtATime
    <3>2. \A u \in Callers : ~InCall(u)
      BY <1>1, <3>1 DEF TakeId
    <3>3. Reading = {}
      BY <3>2 DEF Reading, InCall
    <3>4. Pipe' = {}
      BY <2>6, <3>3, Empty
    <3>5. QED
      BY <2>2, <2>3, <3>2, <3>4 DEF OneAtATime, InCall
  <2>13. Answered'
    <3>1. overlap => overlap'
      BY <1>1 DEF TakeId
    <3>2. QED
      BY <2>2, <2>3, <3>1 DEF ClientInv, Answered
  <2>14. QED
    BY <2>5, <2>9, <2>11, <2>12, <2>13 DEF ClientInv
<1>2. ASSUME NEW t \in Callers, NEW op \in Ops, CallTooLate(t, op) PROVE ClientInv'
  <2> DEFINE state == [at |-> "raised", op |-> op]
  <2>1. state \in Ended /\ Becomes(t, state) /\ state.at = "raised"
    BY <1>2 DEF CallTooLate, Becomes, Ended
  <2>2. /\ caller' \in [Callers -> Calling \cup Ended]
        /\ \A u \in Callers : caller'[u] = IF u = t THEN state ELSE caller[u]
    BY <2>1, Becoming DEF ClientInv
  <2> HIDE DEF state
  <2>3. UNCHANGED <<process, requests, answers, lastId, overlap>> /\ ~InCall(t)
    BY <1>2 DEF CallTooLate
  <2>4. ClientType' /\ Pipe' = Pipe /\ Reading' = Reading
    BY <2>1, <2>2, <2>3 DEF ClientInv, ClientType, Pipe, In, Reading, InCall
  <2>5. IdsAreOwn' /\ OneAtATime'
    BY <2>1, <2>2, <2>3, <2>4 DEF ClientInv, IdsAreOwn, OneAtATime, InCall
  <2>6. NoneTooMany' /\ Answered'
    BY <2>1, <2>2, <2>3, <2>4 DEF ClientInv, NoneTooMany, Answered
  <2>7. QED
    BY <2>4, <2>5, <2>6 DEF ClientInv
<1>3. ASSUME NEW t \in Callers, WriteRequest(t) PROVE ClientInv'
  <2>1. InCall(t) /\ caller[t].at = "write" /\ caller[t] \in Calling
    BY <1>3 DEF WriteRequest, InCall, ClientInv, ClientType, Ended
  <2>2. caller[t].id \in Nat /\ caller[t].op \in Ops
    BY <2>1 DEF Calling
  <2>3. UNCHANGED <<process, answers, lastId, overlap>>
    BY <1>3 DEF WriteRequest
  <2>4. CASE process = "running"
    <3> DEFINE state == [at |-> "read", id |-> caller[t].id, op |-> caller[t].op]
               line == Line(caller[t].id, caller[t].op)
    <3>1. state \in Calling \cup Ended /\ Becomes(t, state) /\ state.at = "read"
          /\ state.id = caller[t].id /\ state.op = caller[t].op
      BY <1>3, <2>2, <2>4 DEF WriteRequest, Becomes, Calling
    <3>2. line \in Lines /\ line.id = caller[t].id /\ line.op = caller[t].op
          /\ requests' = Append(requests, line)
      BY <1>3, <2>2, <2>4 DEF WriteRequest, Lines, Line
    <3>3. /\ caller' \in [Callers -> Calling \cup Ended]
          /\ \A u \in Callers : caller'[u] = IF u = t THEN state ELSE caller[u]
      BY <3>1, Becoming DEF ClientInv
    <3> HIDE DEF state, line
    <3>4. requests' \in Seq(Lines) /\ In(requests') = In(requests) \cup {line}
          /\ Len(requests') = Len(requests) + 1
      BY <3>2, InAppended DEF ClientInv, ClientType
    <3>5. ClientType'
      BY <2>3, <3>3, <3>4 DEF ClientInv, ClientType
    <3>6. Pipe' = Pipe \cup {line}
      BY <2>3, <3>4 DEF Pipe
    <3>7. IdsAreOwn'
      BY <2>1, <2>3, <3>1, <3>2, <3>3, <3>6 DEF ClientInv, IdsAreOwn, InCall
    <3>8. NoneTooMany'
      <4>1. Reading' = Reading \cup {t} /\ t \notin Reading
        BY <2>1, <3>1, <3>3 DEF Reading
      <4>2. Cardinality(Reading') = Cardinality(Reading) + 1 /\ Cardinality(Reading) \in Nat
        BY <4>1, OneMore, Waiting DEF ClientInv
      <4>3. Len(requests) \in Nat /\ Len(answers) \in Nat
        BY InLines DEF ClientInv, ClientType
      <4>4. Len(requests') + Len(answers') <= Cardinality(Reading')
        BY <2>3, <3>4, <4>2, <4>3 DEF ClientInv, NoneTooMany
      <4>5. QED
        BY <2>3, <2>4, <4>4 DEF NoneTooMany
    <3>9. OneAtATime'
      <4>1. SUFFICES ASSUME ~overlap PROVE OneAtATime'
        BY <2>3 DEF OneAtATime
      <4>2. \A u \in Callers : InCall(u) => u = t
        BY <2>1, <4>1 DEF ClientInv, OneAtATime
      <4>3. Reading = {}
        BY <2>1, <4>2 DEF Reading, InCall
      <4>4. Pipe' = {line}
        BY <3>6, <4>3, Empty
      <4>5. QED
        BY <3>1, <3>2, <3>3, <4>2, <4>4 DEF OneAtATime, InCall
    <3>10. Answered'
      BY <2>3, <3>1, <3>3 DEF ClientInv, Answered
    <3>11. QED
      BY <3>5, <3>7, <3>8, <3>9, <3>10 DEF ClientInv
  <2>5. CASE process # "running"
    <3> DEFINE state == [at |-> "raised", op |-> caller[t].op]
    <3>1. state \in Ended /\ Becomes(t, state) /\ state.at = "raised" /\ requests' = requests
      BY <1>3, <2>2, <2>5 DEF WriteRequest, Becomes, Ended
    <3> HIDE DEF state
    <3>2. answers' \in Seq(Lines) /\ In(answers') \subseteq In(answers)
      BY <2>3 DEF ClientInv, ClientType
    <3>3. QED
      BY <2>1, <2>3, <3>1, <3>2, Leaving
  <2>6. QED
    BY <2>4, <2>5
<1>4. ASSUME Serve PROVE ClientInv'
  <2>1. process = "running" /\ requests \in Seq(Lines) /\ requests # <<>> /\ answers \in Seq(Lines)
    BY <1>4 DEF Serve, ClientInv, ClientType
  <2>2. /\ Head(requests) \in Lines /\ Head(requests) \in In(requests)
        /\ Tail(requests) \in Seq(Lines) /\ In(Tail(requests)) \subseteq In(requests)
        /\ Len(Tail(requests)) = Len(requests) - 1
    BY <2>1, InTaken
  <2>3. Line(Head(requests).id, Head(requests).op) = Head(requests)
    BY <2>2 DEF Line, Lines
  <2>4. /\ answers' = Append(answers, Head(requests)) /\ requests' = Tail(requests)
        /\ UNCHANGED <<process, caller, lastId, overlap>>
    BY <1>4, <2>3 DEF Serve, AnswersAll
  <2>5. /\ answers' \in Seq(Lines) /\ In(answers') = In(answers) \cup {Head(requests)}
        /\ Len(answers') = Len(answers) + 1
    BY <2>1, <2>2, <2>4, InAppended
  <2>6. ClientType'
    BY <2>2, <2>4, <2>5 DEF ClientInv, ClientType
  <2>7. Pipe' \subseteq Pipe
    BY <2>2, <2>4, <2>5 DEF Pipe
  <2>8. Reading' = Reading
    BY <2>4 DEF Reading
  <2>9. IdsAreOwn' /\ OneAtATime' /\ Answered'
    BY <2>4, <2>7 DEF ClientInv, IdsAreOwn, OneAtATime, Answered, InCall
  <2>10. NoneTooMany'
    <3>1. Len(requests) \in Nat /\ Len(answers) \in Nat
      BY InLines DEF ClientInv, ClientType
    <3>2. Len(requests') + Len(answers') = Len(requests) + Len(answers)
      BY <2>2, <2>4, <2>5, <3>1
    <3>3. QED
      BY <2>1, <2>4, <2>8, <3>2 DEF ClientInv, NoneTooMany
  <2>11. QED
    BY <2>6, <2>9, <2>10 DEF ClientInv
<1>5. ASSUME Exit PROVE ClientInv'
  <2>1. process' = "exited" /\ requests' = <<>> /\ UNCHANGED <<answers, caller, lastId, overlap>>
    BY <1>5 DEF Exit
  <2>2. In(requests') = {} /\ Len(requests') = 0 /\ requests' \in Seq(Lines)
    BY <2>1 DEF In
  <2>3. ClientType'
    BY <2>1, <2>2 DEF ClientInv, ClientType
  <2>4. Pipe' \subseteq Pipe /\ Reading' = Reading
    BY <2>1, <2>2 DEF Pipe, Reading
  <2>5. IdsAreOwn' /\ OneAtATime' /\ Answered'
    BY <2>1, <2>4 DEF ClientInv, IdsAreOwn, OneAtATime, Answered, InCall
  <2>6. Len(requests) \in Nat /\ Len(answers) \in Nat /\ Cardinality(Reading) \in Nat
    BY InLines, Waiting DEF ClientInv, ClientType
  <2>7. NoneTooMany'
    BY <2>1, <2>2, <2>4, <2>6 DEF ClientInv, NoneTooMany
  <2>8. QED
    BY <2>3, <2>5, <2>7 DEF ClientInv
<1>6. ASSUME NEW t \in Callers, ReadAnswer(t) PROVE ClientInv'
  <2>1. InCall(t) /\ caller[t].at = "read" /\ caller[t] \in Calling
        /\ answers \in Seq(Lines) /\ answers # <<>>
    BY <1>6 DEF ReadAnswer, InCall, ClientInv, ClientType, Ended
  <2>2. PICK answer \in Lines : answer = Head(answers) /\ answer \in In(answers)
    BY <2>1, InTaken
  <2>3. PICK at \in {"desync", "raised", "returned"} :
          /\ Becomes(t, [at |-> at, op |-> caller[t].op, got |-> answer.op])
          /\ at = "returned" => answer.id = caller[t].id
          /\ at = "desync" => answer.id # caller[t].id
    BY <1>6, <2>2 DEF ReadAnswer, Matches, Becomes
  <2> DEFINE state == [at |-> at, op |-> caller[t].op, got |-> answer.op]
  <2>4. caller[t].op \in Ops /\ answer.op \in Ops
    BY <2>1, <2>2 DEF Calling, Lines
  <2>5. state \in Ended /\ Becomes(t, state) /\ state.at = at /\ state.op = caller[t].op
        /\ state.got = answer.op
    BY <2>3, <2>4 DEF Ended
  <2> HIDE DEF state
  <2>6. answer \in Pipe
    BY <2>2 DEF Pipe
  <2>7. state.at = "returned" => state.got = state.op
    BY <2>1, <2>3, <2>5, <2>6 DEF ClientInv, IdsAreOwn
  <2>8. state.at = "desync" => overlap
    BY <2>1, <2>3, <2>5, <2>6 DEF ClientInv, OneAtATime
  <2>9. answers' = Tail(answers) /\ UNCHANGED <<process, requests, lastId, overlap>>
    BY <1>6 DEF ReadAnswer
  <2>10. answers' \in Seq(Lines) /\ In(answers') \subseteq In(answers)
         /\ Len(answers') = Len(answers) - 1
    BY <2>1, <2>9, InTaken
  <2>11. QED
    BY <2>1, <2>5, <2>7, <2>8, <2>9, <2>10, Leaving
<1>7. ASSUME NEW t \in Callers, ReadNothing(t) PROVE ClientInv'
  <2> DEFINE state == [at |-> "raised", op |-> caller[t].op]
  <2>1. InCall(t) /\ caller[t] \in Calling
    BY <1>7 DEF ReadNothing, InCall, ClientInv, ClientType, Ended
  <2>2. caller[t].op \in Ops
    BY <2>1 DEF Calling
  <2>3. state \in Ended /\ Becomes(t, state) /\ state.at = "raised"
    BY <1>7, <2>2 DEF ReadNothing, Becomes, Ended
  <2> HIDE DEF state
  <2>4. answers = <<>> /\ process = "exited"
        /\ UNCHANGED <<process, requests, answers, lastId, overlap>>
    BY <1>7 DEF ReadNothing
  <2>5. answers' \in Seq(Lines) /\ In(answers') \subseteq In(answers) /\ answers' = <<>>
    BY <2>4 DEF ClientInv, ClientType
  <2>6. QED
    BY <2>1, <2>3, <2>4, <2>5, Leaving
<1>8. CASE UNCHANGED clientVars
  BY <1>8 DEF clientVars, ClientInv, ClientType, IdsAreOwn, NoneTooMany, OneAtATime, Answered,
              InCall, Pipe, In, Reading
<1>9. QED
  BY <1>1, <1>2, <1>3, <1>4, <1>5, <1>6, <1>7, <1>8 DEF EngineNext, CallGoesOn

LEMMA AnswersKept == ClientInv => AnswersAreOwn
<1> SUFFICES ASSUME ClientInv PROVE AnswersAreOwn
  OBVIOUS
<1>1. (\A t \in Callers : ~InCall(t)) => requests = <<>> /\ answers = <<>>
  <2>1. (\A t \in Callers : ~InCall(t)) => Reading = {}
    BY DEF Reading, InCall
  <2>2. QED
    BY <2>1, Empty
<1>2. QED
  BY <1>1 DEF ClientInv, Answered, AnswersAreOwn

\* However many threads share the client, a call that returns has its own answer,
\* and the pipe is empty when nobody calls.
THEOREM CallsGetTheirAnswers == EngineSpec => []AnswersAreOwn
<1>1. EngineSpec => []ClientInv
  BY ClientInvInit, ClientInvStep, PTL DEF EngineSpec
<1>2. QED
  BY <1>1, AnswersKept, PTL

-------------------------------------------------------------------------------
(* Backtest: the inductive invariant                                           *)

BacktestType ==
  /\ adapter \in Adapters /\ bar \in Nat /\ 1 <= bar /\ bar <= Bars + 1 /\ finished \in BOOLEAN
  /\ position \in {-1, 0, 1} /\ qtyA \in Nat /\ entryBar \in Nat /\ entryBar <= Bars
  /\ rebalanced \in Int /\ hedge \in Nat
  /\ shares["a"] \in Int
  /\ options \in [1..Bars -> [OptionLegs -> Int]]

\* A direction goes with the quantity that its adapter keeps of it.
PairRemembered ==
  ~HasOptions =>
    /\ position = 0 => qtyA = 0
    /\ position # 0 => IF adapter = "basket" THEN qtyA = 0
                       ELSE qtyA > 0 /\ (adapter # "kelly" => qtyA = Lots)

\* Open options were entered at an earlier bar; flat, nothing is remembered.
OptionsRemembered ==
  /\ HasOptions => /\ position \in {0, 1}
                   /\ position = 1 => 1 <= entryBar /\ entryBar < bar
                   /\ position = 0 => hedge = 0
  /\ finished => bar = Bars + 1

AdapterInv == BacktestType /\ PairRemembered /\ OptionsRemembered /\ AdapterKnowsItsPosition

-------------------------------------------------------------------------------
(* Quantities *)

LEMMA Path == Bars \in Nat
BY BacktestAssumption

LEMMA Lot == Lots \in Nat /\ Lots > 0 /\ \A leg \in OptionLegs : LegSide(leg) \in Int
BY BacktestAssumption

LEMMA LegLot ==
  ASSUME NEW leg \in OptionLegs
  PROVE  /\ LegSide(leg) * Lots \in Int
         /\ 1 * LegSide(leg) * Lots = LegSide(leg) * Lots
         /\ (-1) * LegSide(leg) * Lots = -(LegSide(leg) * Lots)
BY BacktestAssumption

LEMMA TradeAdds ==
  ASSUME BacktestType, NEW a \in Int, NEW b, Trade(a, b)
  PROVE  shares'["a"] = shares["a"] + a /\ shares'["a"] \in Int
BY DEF BacktestType, Trade

LEMMA LegsTraded ==
  ASSUME BacktestType, NEW b \in 1..Bars, NEW sign \in {1, -1}, TradeLegs(b, sign)
  PROVE  /\ options' \in [1..Bars -> [OptionLegs -> Int]]
         /\ \A c \in 1..Bars, leg \in OptionLegs :
              options'[c][leg] =
                IF c = b THEN options[c][leg] + sign * LegSide(leg) * Lots ELSE options[c][leg]
<1>1. /\ options \in [1..Bars -> [OptionLegs -> Int]]
      /\ options' = [options EXCEPT ![b] =
                       [leg \in OptionLegs |-> options[b][leg] + sign * LegSide(leg) * Lots]]
  BY DEF BacktestType, TradeLegs
<1>2. \A leg \in OptionLegs : sign * LegSide(leg) * Lots \in Int
  BY Lot
<1>3. [leg \in OptionLegs |-> options[b][leg] + sign * LegSide(leg) * Lots] \in [OptionLegs -> Int]
  BY <1>1, <1>2
<1>4. QED
  BY <1>1, <1>3

-------------------------------------------------------------------------------
USE Path

LEMMA AdapterInvInit == BacktestInit => AdapterInv
<1> SUFFICES ASSUME BacktestInit PROVE AdapterInv
  OBVIOUS
<1>1. BacktestType
  <2>1. bar = 1 /\ bar <= Bars + 1 /\ entryBar = 0 /\ entryBar <= Bars /\ shares["a"] \in Int
    BY BacktestAssumption DEF BacktestInit
  <2>2. options \in [1..Bars -> [OptionLegs -> Int]]
    BY DEF BacktestInit
  <2>3. bar \in Nat /\ 1 <= bar /\ entryBar \in Nat
    BY <2>1
  <2>4. adapter \in Adapters /\ finished \in BOOLEAN /\ position = 0 /\ qtyA = 0 /\ rebalanced = 0
        /\ hedge = 0
    BY DEF BacktestInit
  <2>5. QED
    BY <2>1, <2>2, <2>3, <2>4 DEF BacktestType
<1>2. PairRemembered /\ OptionsRemembered
  BY DEF BacktestInit, PairRemembered, OptionsRemembered
<1>3. AdapterKnowsItsPosition
  BY BacktestAssumption DEF BacktestInit, AdapterKnowsItsPosition
<1>4. QED
  BY <1>1, <1>2, <1>3 DEF AdapterInv

LEMMA Quietly ==
  ASSUME AdapterInv, NoOrder, adapter' = adapter,
         bar' \in Nat, 1 <= bar', bar' <= Bars + 1, bar' >= bar,
         \/ finished' = FALSE
         \/ finished' = TRUE /\ bar' = Bars + 1 /\ (HasOptions => position = 0)
  PROVE  AdapterInv'
<1>1. BacktestType'
  BY DEF AdapterInv, BacktestType, NoOrder
<1>2. PairRemembered'
  BY DEF AdapterInv, PairRemembered, NoOrder, HasOptions
<1>3. OptionsRemembered'
  <2>1. bar \in Int /\ bar' \in Int /\ entryBar \in Int /\ entryBar' = entryBar
    BY DEF AdapterInv, BacktestType, NoOrder
  <2>2. 1 <= entryBar /\ entryBar < bar => 1 <= entryBar' /\ entryBar' < bar'
    BY <2>1
  <2>3. position' = position /\ hedge' = hedge /\ HasOptions' = HasOptions
    BY DEF NoOrder, HasOptions
  <2>4. QED
    BY <2>2, <2>3 DEF AdapterInv, OptionsRemembered
<1>4. AdapterKnowsItsPosition'
  BY DEF AdapterInv, OptionsRemembered, AdapterKnowsItsPosition, NoOrder, HasOptions
<1>5. QED
  BY <1>1, <1>2, <1>3, <1>4 DEF AdapterInv

LEMMA PairTraded ==
  ASSUME AdapterInv, ~HasOptions, bar <= Bars, bar' = bar + 1,
         UNCHANGED <<adapter, finished, entryBar, rebalanced, hedge, options>>,
         NEW a \in Int, shares'["a"] = shares["a"] + a,
         position' \in {-1, 0, 1}, qtyA' \in Nat,
         position' = 0 => qtyA' = 0,
         position' # 0 => IF adapter = "basket" THEN qtyA' = 0
                          ELSE qtyA' > 0 /\ (adapter # "kelly" => qtyA' = Lots),
         shares["a"] + a = position' * (IF adapter = "basket" THEN Lots ELSE qtyA')
  PROVE  AdapterInv'
<1>1. BacktestType'
  BY DEF AdapterInv, BacktestType
<1>2. PairRemembered'
  BY DEF PairRemembered
<1>3. finished = FALSE
  BY DEF AdapterInv, BacktestType, OptionsRemembered
<1>4. OptionsRemembered'
  BY <1>3 DEF OptionsRemembered, HasOptions
<1>5. AdapterKnowsItsPosition'
  <2>1. ~HasOptions'
    BY DEF HasOptions
  <2>2. shares'["a"] = position' * (IF adapter = "basket" THEN Lots ELSE qtyA')
    OBVIOUS
  <2>3. position' = 0 => shares'["a"] = 0
    BY <2>2, Lot
  <2>4. position' # 0 => shares'["a"] # 0
    BY <2>2, Lot
  <2>5. QED
    BY <2>1, <2>2, <2>3, <2>4 DEF AdapterKnowsItsPosition
<1>6. QED
  BY <1>1, <1>2, <1>4, <1>5 DEF AdapterInv

\* Flat again: the options of the entry are closed, and so is the hedge.
LEMMA OptionsClosed ==
  ASSUME AdapterInv, HasOptions, position = 1, TradeLegs(entryBar, -1), Trade(-hedge, 0), Forgotten,
         UNCHANGED <<adapter, qtyA>>, bar' \in Nat, 1 <= bar', bar' <= Bars + 1,
         finished' = FALSE \/ (finished' = TRUE /\ bar' = Bars + 1)
  PROVE  AdapterInv'
<1>1. entryBar \in 1..Bars /\ 1 <= entryBar /\ entryBar <= Bars /\ hedge \in Nat
  BY DEF AdapterInv, BacktestType, OptionsRemembered
<1>2. shares'["a"] = shares["a"] - hedge /\ shares'["a"] \in Int
  <2>1. -hedge \in Int
    BY <1>1
  <2>2. shares'["a"] = shares["a"] + (-hedge) /\ shares'["a"] \in Int
    BY <2>1, TradeAdds DEF AdapterInv
  <2>3. QED
    BY <1>1, <2>2 DEF AdapterInv, BacktestType
<1>3. /\ options' \in [1..Bars -> [OptionLegs -> Int]]
      /\ \A c \in 1..Bars, leg \in OptionLegs :
           options'[c][leg] = IF c = entryBar THEN options[c][leg] + (-1) * LegSide(leg) * Lots
                              ELSE options[c][leg]
  BY <1>1, LegsTraded DEF AdapterInv
<1>4. BacktestType'
  <2>1. position' = 0 /\ entryBar' = 0 /\ rebalanced' = 0 /\ hedge' = 0 /\ qtyA' = qtyA
    BY DEF Forgotten
  <2>2. qtyA' \in Nat /\ adapter' \in Adapters
    BY <2>1 DEF AdapterInv, BacktestType
  <2>3. finished' \in BOOLEAN
    OBVIOUS
  <2>4. QED
    BY <1>2, <1>3, <2>1, <2>2, <2>3 DEF BacktestType
<1>5. PairRemembered' /\ OptionsRemembered'
  BY DEF PairRemembered, OptionsRemembered, Forgotten, HasOptions
<1>6. \A c \in 1..Bars, leg \in OptionLegs : options'[c][leg] = 0
  <2>1. \A c \in 1..Bars, leg \in OptionLegs :
          options[c][leg] = IF c = entryBar THEN LegSide(leg) * Lots ELSE 0
    BY DEF AdapterInv, AdapterKnowsItsPosition
  <2>2. TAKE c \in 1..Bars, leg \in OptionLegs
  <2>3. options'[c][leg] = IF c = entryBar THEN LegSide(leg) * Lots + (-1) * LegSide(leg) * Lots ELSE 0
    BY <1>3, <2>1
  <2>4. QED
    BY <2>3, LegLot
<1>7. shares'["a"] = 0
  BY <1>1, <1>2 DEF AdapterInv, AdapterKnowsItsPosition
<1>8. AdapterKnowsItsPosition'
  BY <1>6, <1>7 DEF AdapterKnowsItsPosition, Forgotten, HasOptions
<1>9. QED
  BY <1>4, <1>5, <1>8 DEF AdapterInv

-------------------------------------------------------------------------------
LEMMA BarStep == AdapterInv /\ NextBar => AdapterInv'
<1> SUFFICES ASSUME AdapterInv, NextBar PROVE AdapterInv'
  OBVIOUS
<1>1. /\ bar \in Nat /\ 1 <= bar /\ bar <= Bars
      /\ bar' = bar + 1 /\ bar' \in Nat /\ 1 <= bar' /\ bar' <= Bars + 1 /\ bar' >= bar
      /\ adapter' = adapter /\ finished' = finished
  BY BacktestAssumption DEF NextBar, AdapterInv, BacktestType
<1>2. finished = FALSE
  BY <1>1, BacktestAssumption DEF AdapterInv, BacktestType, OptionsRemembered
<1>3. CASE EnterPair
  <2>1. PICK direction \in {1, -1}, qty \in Nat \ {0}, ratio \in HedgeRatios :
          /\ Trade(direction * qty, -direction * SecondLeg(qty, ratio))
          /\ adapter # "kelly" => qty = Lots
          /\ position' = direction
          /\ qtyA' = IF adapter = "basket" THEN 0 ELSE qty
    BY <1>3, BacktestAssumption DEF EnterPair, TradeSpread
  <2>2. direction * qty \in Int
    OBVIOUS
  <2>3. shares'["a"] = shares["a"] + direction * qty
    BY <2>1, <2>2, TradeAdds DEF AdapterInv
  <2>4. shares["a"] = 0
    BY <1>3 DEF EnterPair, AdapterInv, AdapterKnowsItsPosition
  <2>5. shares["a"] + direction * qty = position' * (IF adapter = "basket" THEN Lots ELSE qtyA')
    BY <2>1, <2>2, <2>4
  <2>6. /\ position' \in {-1, 0, 1} /\ position' # 0 /\ qtyA' \in Nat
        /\ IF adapter = "basket" THEN qtyA' = 0 ELSE qtyA' > 0 /\ (adapter # "kelly" => qtyA' = Lots)
    BY <2>1
  <2>7. QED
    BY <1>1, <1>3, <2>2, <2>3, <2>5, <2>6, PairTraded DEF EnterPair
<1>4. CASE ExitPair
  <2>1. PICK b : Trade((-position) * Closes, b)
    BY <1>4 DEF ExitPair, TradeSpread
  <2>2. Closes \in Nat /\ position \in {-1, 1}
    BY <1>4, Lot DEF ExitPair, Closes, AdapterInv, BacktestType
  <2>3. (-position) * Closes \in Int
    BY <2>2
  <2>4. shares'["a"] = shares["a"] + ((-position) * Closes)
    BY <2>1, <2>3, TradeAdds DEF AdapterInv
  <2>5. shares["a"] = position * Closes
    BY <1>4 DEF ExitPair, Closes, AdapterInv, PairRemembered, AdapterKnowsItsPosition
  <2>6. shares["a"] + ((-position) * Closes) = 0
    BY <2>2, <2>5
  <2>7. position' = 0 /\ qtyA' = 0
    BY <1>4 DEF ExitPair
  <2>8. shares["a"] + ((-position) * Closes) = position' * (IF adapter = "basket" THEN Lots ELSE qtyA')
    BY <2>6, <2>7, Lot
  <2>9. QED
    BY <1>1, <1>4, <2>3, <2>4, <2>7, <2>8, PairTraded DEF ExitPair
<1>5. CASE OpenOptions
  <2>1. InitialHedge \in Nat /\ hedge = 0
    BY <1>5, Lot DEF OpenOptions, InitialHedge, AdapterInv, OptionsRemembered
  <2>2. /\ HasOptions /\ position = 0 /\ TradeLegs(bar, 1) /\ Trade(InitialHedge, 0)
        /\ position' = 1 /\ entryBar' = bar /\ hedge' = hedge + InitialHedge /\ qtyA' = qtyA
        /\ rebalanced' = IF InitialHedge # 0 THEN bar ELSE rebalanced
    BY <1>5 DEF OpenOptions, TradeShares
  <2>3. shares'["a"] = shares["a"] + InitialHedge /\ shares'["a"] \in Int
    BY <2>1, <2>2, TradeAdds DEF AdapterInv
  <2>4. /\ options' \in [1..Bars -> [OptionLegs -> Int]]
        /\ \A c \in 1..Bars, leg \in OptionLegs :
             options'[c][leg] = IF c = bar THEN options[c][leg] + 1 * LegSide(leg) * Lots
                                ELSE options[c][leg]
    <3>1. bar \in 1..Bars
      BY <1>1
    <3>2. QED
      BY <2>2, <3>1, LegsTraded DEF AdapterInv
  <2>5. BacktestType'
    BY <1>1, <2>1, <2>2, <2>3, <2>4, BacktestAssumption DEF AdapterInv, BacktestType
  <2>6. HasOptions' /\ 1 <= entryBar' /\ entryBar' < bar'
    BY <1>1, <2>2 DEF HasOptions
  <2>7. PairRemembered' /\ OptionsRemembered'
    BY <1>1, <1>2, <2>2, <2>6 DEF PairRemembered, OptionsRemembered
  <2>8. \A c \in 1..Bars, leg \in OptionLegs :
          options'[c][leg] = IF c = bar THEN LegSide(leg) * Lots ELSE 0
    <3>1. \A c \in 1..Bars, leg \in OptionLegs : options[c][leg] = 0
      BY <2>2 DEF AdapterInv, AdapterKnowsItsPosition
    <3>2. TAKE c \in 1..Bars, leg \in OptionLegs
    <3>3. options'[c][leg] = IF c = bar THEN 0 + 1 * LegSide(leg) * Lots ELSE 0
      BY <2>4, <3>1
    <3>4. QED
      BY <3>3, LegLot
  <2>9. shares'["a"] = hedge'
    BY <2>1, <2>2, <2>3 DEF AdapterInv, AdapterKnowsItsPosition
  <2>10. AdapterKnowsItsPosition'
    BY <1>1, <1>2, <2>2, <2>6, <2>8, <2>9 DEF AdapterKnowsItsPosition
  <2>11. QED
    BY <2>5, <2>7, <2>10 DEF AdapterInv
<1>6. CASE RebalanceHedge
  <2>1. PICK target \in 0..(2 * Lots) :
          /\ Trade(target - hedge, 0) /\ hedge' = hedge + (target - hedge)
          /\ HasOptions /\ position = 1 /\ rebalanced' = bar
          /\ UNCHANGED <<position, qtyA, entryBar, options>>
    BY <1>6 DEF RebalanceHedge, TradeShares, HedgeMoved, HasOptions
  <2>2. target \in Nat /\ hedge \in Nat /\ target - hedge \in Int
    BY Lot DEF AdapterInv, BacktestType
  <2>3. shares'["a"] = shares["a"] + (target - hedge) /\ shares'["a"] \in Int
    BY <2>1, <2>2, TradeAdds DEF AdapterInv
  <2>4. hedge' = target
    BY <2>1, <2>2
  <2>5. shares["a"] = hedge
    BY <2>1 DEF AdapterInv, AdapterKnowsItsPosition
  <2>6. shares'["a"] = hedge' /\ hedge' \in Nat
    BY <2>2, <2>3, <2>4, <2>5
  <2>7. BacktestType'
    BY <1>1, <2>1, <2>3, <2>6, BacktestAssumption DEF AdapterInv, BacktestType
  <2>8. 1 <= entryBar' /\ entryBar' < bar' /\ HasOptions'
    <3>1. entryBar \in Nat /\ 1 <= entryBar /\ entryBar < bar
      BY <2>1 DEF AdapterInv, BacktestType, OptionsRemembered
    <3>2. QED
      BY <1>1, <2>1, <3>1 DEF HasOptions
  <2>9. PairRemembered' /\ OptionsRemembered'
    BY <1>1, <1>2, <2>1, <2>8 DEF PairRemembered, OptionsRemembered
  <2>10. AdapterKnowsItsPosition'
    BY <1>1, <1>2, <2>1, <2>6, <2>8 DEF AdapterInv, AdapterKnowsItsPosition
  <2>11. QED
    BY <2>7, <2>9, <2>10 DEF AdapterInv
<1>7. CASE CloseOptions
  <2>1. hedge \in Nat
    BY DEF AdapterInv, BacktestType
  <2>2. (IF hedge > 0 THEN -hedge ELSE 0) = -hedge
    BY <2>1
  <2>3. Trade(-hedge, 0)
    BY <1>7, <2>2 DEF CloseOptions, TradeShares, Trade
  <2>4. /\ HasOptions /\ position = 1 /\ TradeLegs(entryBar, -1) /\ Forgotten
        /\ UNCHANGED <<adapter, qtyA>>
    BY <1>1, <1>7 DEF CloseOptions
  <2>5. finished' = FALSE \/ (finished' = TRUE /\ bar' = Bars + 1)
    BY <1>1, <1>2
  <2>6. bar' \in Nat /\ 1 <= bar' /\ bar' <= Bars + 1
    BY <1>1
  <2>7. QED
    BY <2>3, <2>4, <2>5, <2>6, OptionsClosed
<1>8. CASE Quiet
  BY <1>1, <1>2, <1>8, Quietly DEF Quiet
<1>9. QED
  BY <1>3, <1>4, <1>5, <1>6, <1>7, <1>8 DEF NextBar

LEMMA EndStep == AdapterInv /\ ForceCloseAtEnd => AdapterInv'
<1> SUFFICES ASSUME AdapterInv, ForceCloseAtEnd PROVE AdapterInv'
  OBVIOUS
<1>1. bar = Bars + 1 /\ bar' = bar /\ adapter' = adapter /\ finished' = TRUE /\ ~finished
  BY DEF ForceCloseAtEnd
<1>2. bar' \in Nat /\ 1 <= bar' /\ bar' <= Bars + 1 /\ bar' >= bar
  BY <1>1
<1>3. CASE HasOptions /\ position = 1
  BY <1>1, <1>2, <1>3, OptionsClosed DEF ForceCloseAtEnd, TradeShares
<1>4. CASE ~(HasOptions /\ position = 1)
  <2>1. NoOrder
    BY <1>4 DEF ForceCloseAtEnd
  <2>2. HasOptions => position = 0
    BY <1>4 DEF AdapterInv, OptionsRemembered
  <2>3. QED
    BY <1>1, <1>2, <2>1, <2>2, Quietly
<1>5. QED
  BY <1>3, <1>4

LEMMA AdapterInvStep == AdapterInv /\ [BacktestNext]_backtestVars => AdapterInv'
<1>1. AdapterInv /\ UNCHANGED backtestVars => AdapterInv'
  BY DEF backtestVars, AdapterInv, BacktestType, PairRemembered, OptionsRemembered,
         AdapterKnowsItsPosition, HasOptions
<1>2. QED
  BY <1>1, BarStep, EndStep DEF BacktestNext

\* What an adapter remembers is what its orders add up to, whatever the path, the
\* lots and the deltas, and an options strategy ends flat.
THEOREM AdaptersKnowTheirPositions == BacktestSpec => []AdapterKnowsItsPosition
<1>1. BacktestSpec => []AdapterInv
  BY AdapterInvInit, AdapterInvStep, PTL DEF BacktestSpec
<1>2. AdapterInv => AdapterKnowsItsPosition
  BY DEF AdapterInv
<1>3. QED
  BY <1>1, <1>2, PTL

-------------------------------------------------------------------------------
(* Strategies: the inductive invariant                                         *)

\* While nothing strains a strategy, one session is at work at a time, and what it
\* has committed, filled and still to submit adds up to a whole position or to none.
AllIdle == [t \in Runners |-> IdleSession]
Busy(t, todo, fills) ==
  [AllIdle EXCEPT ![t] = [at |-> "submitting", todo |-> todo, fills |-> fills]]

\* A quantity of each leg of a spread, cloned or not.
Cells(q, h) == [c \in Contracts |-> IF c = LegA THEN q ELSE IF c = LegB THEN h ELSE 0]
SpreadOf(q, h) == [x \in Accounts |-> IF x = "primary" \/ cloning THEN Cells(q, h) ELSE Flat]

Whole(q, h) ==
  \/ q = 0 /\ h = 0
  \/ q # 0 /\ h # 0 /\ h = hedgedBy /\ (kind # "kelly" => q \in {Qty, -Qty})

\* A session that submits q of leg A and h of leg B.
Spreading(t, q, h) ==
  \/ session = Busy(t, <<Leg(LegA, q), Leg(LegB, h)>>, SpreadOf(0, 0))
  \/ session = Busy(t, <<Leg(LegB, h)>>, SpreadOf(q, 0))
  \/ session = Busy(t, <<>>, SpreadOf(q, h))

SpreadInv ==
  \E q, h \in Int :
    /\ held = SpreadOf(q, h) /\ Whole(q, h)
    /\ \/ session = AllIdle
       \/ \E t \in Runners : \E a, b \in Int : Spreading(t, a, b) /\ Whole(q + a, h + b)

\* Strangles and condors touch nothing but weekly options of the primary account.
Weekly == [contract : (Strikes \cup {Wing}) \X {"weekly"}, qty : Int]
WeeklyInv ==
  /\ held \in [Accounts -> [Contracts -> Int]]
  /\ \A x \in Accounts : \A c \in Contracts :
       x # "primary" \/ c[2] # "weekly" => held[x][c] = 0
  /\ session \in [Runners -> [at : {"idle", "submitting"}, todo : Seq(Weekly), fills : {NothingHeld}]]

Untouched == held = NothingHeld /\ session = AllIdle

\* An option at one strike and the shares that hedge it, here and in the sub-account.
HedgeCells(s, n, a) ==
  [c \in Contracts |-> IF c = <<s, "monthly">> THEN n ELSE IF c = LegA THEN a ELSE 0]

HedgeOf(s, n, a, b) ==
  [x \in Accounts |-> IF x = "primary" THEN HedgeCells(s, n, a) ELSE HedgeCells(s, 0, b)]

Balanced(n, a, b) ==
  /\ n \in {0, -Qty} /\ a \in Nat /\ b \in Int
  /\ n = 0 => a = 0 /\ b = 0
  /\ ~cloning => b = 0

HedgedExit(s, n, a) ==
  IF a > 0 THEN <<Leg(<<s, "monthly">>, -n), Leg(LegA, -a)>> ELSE <<Leg(<<s, "monthly">>, -n)>>

\* A session that is about to change the hedge by d, or has, or closes all.
Hedging(s, n, a, b) ==
  \/ session = AllIdle /\ Balanced(n, a, b)
  \/ /\ session = Busy("tick", HedgedEntry(s), NothingHeld)
     /\ n = 0 /\ Balanced(n, a, b)
  \/ /\ session = Busy("tick", HedgedExit(s, n, a), NothingHeld)
     /\ n # 0 /\ Balanced(n, a, b) /\ ~cloning
  \/ \E d \in Int :
       /\ session = Busy("tick", <<Leg(LegA, d)>>, NothingHeld)
       /\ Balanced(n, a + d, IF cloning THEN b + d ELSE 0) /\ (~cloning => b = 0)
  \/ \E d, e \in Int :
       /\ session = Busy("tick", <<>>, HedgeOf(s, 0, d, e))
       /\ Balanced(n, a + d, b + e)

HedgedInv ==
  \E s \in Strikes : \E n, a, b \in Int : held = HedgeOf(s, n, a, b) /\ Hedging(s, n, a, b)

FlatInv ==
  strain = {} =>
    /\ kind \notin OptionKinds => SpreadInv
    /\ kind = "calendar" => Untouched
    /\ kind \in {"strangle", "condor"} => WeeklyInv
    /\ kind = "hedged" => HedgedInv

-------------------------------------------------------------------------------
LEMMA SignedQuantity ==
  ASSUME NEW n \in Int
  PROVE  Sign(n) * Magnitude(n) = n
  BY DEF Sign, Magnitude

LEMMA AtLeastOne ==
  ASSUME NEW n \in Int
  PROVE  Max({1, n}) \in Int /\ Max({1, n}) # 0
<1>1. \E x \in {1, n} : \A y \in {1, n} : x >= y
  <2>1. CASE n >= 1
    BY <2>1
  <2>2. CASE n < 1
    BY <2>2
  <2>3. QED
    BY <2>1, <2>2
<1>2. Max({1, n}) \in {1, n} /\ \A y \in {1, n} : Max({1, n}) >= y
  BY <1>1 DEF Max
<1>3. QED
  BY <1>2

LEMMA HedgeCounts ==
  ASSUME StrategyAssumption, NEW direction \in {1, -1}, NEW qty \in Int, NEW ratio \in Ratios
  PROVE  Hedge(direction, qty, ratio) \in Int /\ Hedge(direction, qty, ratio) # 0
<1>1. qty * ratio \in Int /\ qty * Magnitude(ratio) \in Int
  BY DEF StrategyAssumption, Magnitude, Sign
<1>2. PairHedge(direction, qty, ratio) \in Int /\ PairHedge(direction, qty, ratio) # 0
  BY <1>1, AtLeastOne DEF PairHedge
<1>3. BasketHedge(direction, qty, ratio) \in Int /\ BasketHedge(direction, qty, ratio) # 0
  BY <1>1, AtLeastOne DEF BasketHedge
<1>4. QED
  BY <1>2, <1>3 DEF Hedge

LEMMA Joined == ASSUME NEW x, NEW y PROVE <<x>> \o <<y>> = <<x, y>>
<1>1. <<x>> \in Seq({x, y}) /\ <<y>> \in Seq({x, y}) /\ Len(<<x>>) = 1 /\ Len(<<y>>) = 1
  OBVIOUS
<1>2. <<x, y>> \in Seq({x, y}) /\ Len(<<x, y>>) = 2
  OBVIOUS
<1>3. /\ <<x>> \o <<y>> \in Seq({x, y}) /\ Len(<<x>> \o <<y>>) = 2
      /\ \A i \in 1 .. 2 : (<<x>> \o <<y>>)[i] = IF i <= 1 THEN <<x>>[i] ELSE <<y>>[i - 1]
  BY <1>1, ConcatProperties
<1>4. \A i \in 1 .. 2 : (<<x>> \o <<y>>)[i] = <<x, y>>[i]
  BY <1>3
<1>5. QED
  BY <1>2, <1>3, <1>4, SeqEqual

\* Sessions one at a time.
LEMMA BusySessions ==
  ASSUME NEW t \in Runners, NEW todo, NEW fills
  PROVE  /\ Busy(t, todo, fills)[t] = [at |-> "submitting", todo |-> todo, fills |-> fills]
         /\ \A u \in Runners \ {t} : Busy(t, todo, fills)[u] = IdleSession
         /\ [Busy(t, todo, fills) EXCEPT ![t] = IdleSession] = AllIdle
         /\ [AllIdle EXCEPT ![t] = [at |-> "submitting", todo |-> todo, fills |-> fills]]
              = Busy(t, todo, fills)
  BY DEF Busy, AllIdle

Moved(ses, t, todo, fills) == [ses EXCEPT ![t].todo = todo, ![t].fills = fills]

LEMMA BusyMoves ==
  ASSUME NEW t \in Runners, NEW todo, NEW fills, NEW todo2, NEW fills2
  PROVE  Moved(Busy(t, todo, fills), t, todo2, fills2) = Busy(t, todo2, fills2)
<1> DEFINE S == Busy(t, todo, fills)
           N == [S EXCEPT ![t].todo = todo2, ![t].fills = fills2]
           B == Busy(t, todo2, fills2)
<1>1. /\ DOMAIN S = Runners
      /\ S[t] = [at |-> "submitting", todo |-> todo, fills |-> fills]
      /\ \A u \in Runners \ {t} : S[u] = IdleSession
  BY DEF Busy, AllIdle
<1>2. /\ DOMAIN B = Runners /\ B = [u \in Runners |-> B[u]]
      /\ B[t] = [at |-> "submitting", todo |-> todo2, fills |-> fills2]
      /\ \A u \in Runners \ {t} : B[u] = IdleSession
  BY DEF Busy, AllIdle
<1>3. N = [u \in DOMAIN S |-> IF u = t THEN [S[t] EXCEPT !.todo = todo2, !.fills = fills2] ELSE S[u]]
  <2> HIDE DEF S
  <2>1. QED
    BY <1>1
<1> DEFINE r == [at |-> "submitting", todo |-> todo, fills |-> fills]
           r1 == [at |-> "submitting", todo |-> todo2, fills |-> fills]
<1>4. [S[t] EXCEPT !.todo = todo2, !.fills = fills2] = B[t]
  <2>1. [r EXCEPT !.todo = todo2] = r1
    OBVIOUS
  <2>2. [r1 EXCEPT !.fills = fills2] = [at |-> "submitting", todo |-> todo2, fills |-> fills2]
    OBVIOUS
  <2>3. [r EXCEPT !.todo = todo2, !.fills = fills2] = [[r EXCEPT !.todo = todo2] EXCEPT !.fills = fills2]
    OBVIOUS
  <2> HIDE DEF S, B, r1
  <2>4. S[t] = r
    BY <1>1
  <2>5. [S[t] EXCEPT !.todo = todo2, !.fills = fills2] = [r EXCEPT !.todo = todo2, !.fills = fills2]
    BY ONLY <2>4
  <2>6. QED
    BY <1>2, <2>1, <2>2, <2>3, <2>5
<1>5. \A u \in Runners : N[u] = B[u]
  <2> HIDE DEF S, B, N
  <2>1. QED
    BY <1>1, <1>2, <1>3, <1>4
<1>6. QED
  <2> HIDE DEF S, B
  <2>1. N = [u \in Runners |-> N[u]]
    BY <1>1
  <2>2. QED
    <3> HIDE DEF N
    <3>1. N = B
      BY <1>2, <1>5, <2>1
    <3>2. QED
      BY <3>1 DEF N, S, B, Moved

LEMMA AllIdleSessions ==
  /\ \A t \in Runners : AllIdle[t] = IdleSession
  /\ IdleSession.at = "idle"
  BY DEF AllIdle, IdleSession

LEMMA Shares ==
  /\ LegA \in Contracts /\ LegB \in Contracts /\ LegA # LegB
  /\ ~IsOption(LegA) /\ ~IsOption(LegB)
  /\ \A s : LegA # <<s, "monthly">> /\ LegA # <<s, "weekly">>
  /\ \A s : IsOption(<<s, "monthly">>) /\ IsOption(<<s, "weekly">>)
  BY DEF LegA, LegB, Contracts, IsOption, Expiries

\* A fill of a market order and of its clone.
Adding(F, c, f, g) ==
  [x \in Accounts |-> [k \in Contracts |->
     IF k # c THEN F[x][k] ELSE IF x = "primary" THEN F[x][k] + f ELSE F[x][k] + g]]

LEMMA Filling ==
  ASSUME NEW F \in [Accounts -> [Contracts -> Int]], NEW c \in Contracts,
         NEW f \in Int, NEW g \in Int
  PROVE  WithFill(F, c, f, g) = Adding(F, c, f, g)
<1> DEFINE P == [F EXCEPT !["primary"] = [F["primary"] EXCEPT ![c] = @ + f]]
           N == [P EXCEPT !["sub"] = [P["sub"] EXCEPT ![c] = @ + g]]
           A == Adding(F, c, f, g)
<1>1. WithFill(F, c, f, g) = N
  BY DEF WithFill
<1>2. "primary" \in Accounts /\ "sub" \in Accounts /\ "primary" # "sub"
      /\ \A x \in Accounts : x = "primary" \/ x = "sub"
  BY DEF Accounts
<1>3. /\ P["sub"] = F["sub"] /\ P["primary"] = [F["primary"] EXCEPT ![c] = @ + f]
      /\ P = [x \in Accounts |-> P[x]]
  BY <1>2
<1>4. /\ N["primary"] = [F["primary"] EXCEPT ![c] = @ + f]
      /\ N["sub"] = [F["sub"] EXCEPT ![c] = @ + g]
      /\ N = [x \in Accounts |-> N[x]]
  <2> HIDE DEF P
  <2>1. QED
    BY <1>2, <1>3
<1>5. [F["primary"] EXCEPT ![c] = @ + f] = A["primary"]
  <2>1. F["primary"] \in [Contracts -> Int]
    BY <1>2
  <2>2. [F["primary"] EXCEPT ![c] = @ + f]
          = [k \in Contracts |-> IF k # c THEN F["primary"][k] ELSE F["primary"][k] + f]
    BY <2>1
  <2>3. QED
    BY <1>2, <2>2 DEF Adding
<1>6. [F["sub"] EXCEPT ![c] = @ + g] = A["sub"]
  <2>1. F["sub"] \in [Contracts -> Int]
    BY <1>2
  <2>2. [F["sub"] EXCEPT ![c] = @ + g]
          = [k \in Contracts |-> IF k # c THEN F["sub"][k] ELSE F["sub"][k] + g]
    BY <2>1
  <2>3. QED
    BY <1>2, <2>2 DEF Adding
<1>7. A = [x \in Accounts |-> A[x]]
  BY DEF Adding
<1>8. N = A
  <2> HIDE DEF P, N, A
  <2>1. \A x \in Accounts : N[x] = A[x]
    BY <1>2, <1>4, <1>5, <1>6
  <2>2. QED
    BY <1>4, <1>7, <2>1
<1>9. QED
  BY <1>1, <1>8

-------------------------------------------------------------------------------
(* Spreads                                                                    *)

LEMMA SpreadTyped ==
  ASSUME NEW q \in Int, NEW h \in Int
  PROVE  /\ SpreadOf(q, h) \in [Accounts -> [Contracts -> Int]]
         /\ SpreadOf(0, 0) = NothingHeld
<1>1. Cells(q, h) \in [Contracts -> Int] /\ Flat \in [Contracts -> Int] /\ Cells(0, 0) = Flat
  BY DEF Cells, Flat
<1>2. QED
  BY <1>1 DEF SpreadOf, NothingHeld

LEMMA SpreadPlus ==
  ASSUME NEW q \in Int, NEW h \in Int, NEW a \in Int, NEW b \in Int
  PROVE  Plus(SpreadOf(q, h), SpreadOf(a, b)) = SpreadOf(q + a, h + b)
<1>1. [c \in Contracts |-> Cells(q, h)[c] + Cells(a, b)[c]] = Cells(q + a, h + b)
  BY DEF Cells
<1>2. [c \in Contracts |-> Flat[c] + Flat[c]] = Flat
  BY DEF Flat
<1>3. \A x \in Accounts :
        [c \in Contracts |-> SpreadOf(q, h)[x][c] + SpreadOf(a, b)[x][c]] = SpreadOf(q + a, h + b)[x]
  BY <1>1, <1>2 DEF SpreadOf
<1>4. SpreadOf(q + a, h + b) = [x \in Accounts |-> SpreadOf(q + a, h + b)[x]]
  BY DEF SpreadOf
<1>5. QED
  BY <1>3, <1>4 DEF Plus

LEMMA SpreadNet ==
  ASSUME NEW q \in Int, NEW h \in Int, held = SpreadOf(q, h)
  PROVE  /\ Net(LegA) = IF cloning THEN q + q ELSE q
         /\ Net(LegB) = IF cloning THEN h + h ELSE h
<1>1. /\ Cells(q, h)[LegA] = q /\ Cells(q, h)[LegB] = h
      /\ Flat[LegA] = 0 /\ Flat[LegB] = 0
  BY Shares DEF Cells, Flat
<1>2. /\ held["primary"] = Cells(q, h)
      /\ held["sub"] = IF cloning THEN Cells(q, h) ELSE Flat
  BY DEF SpreadOf, Accounts
<1>3. QED
  BY <1>1, <1>2 DEF Net

LEMMA SpreadFills ==
  ASSUME NEW a \in Int, NEW b \in Int
  PROVE  /\ Adding(SpreadOf(0, 0), LegA, a, IF cloning THEN a ELSE 0) = SpreadOf(a, 0)
         /\ Adding(SpreadOf(a, 0), LegB, b, IF cloning THEN b ELSE 0) = SpreadOf(a, b)
<1>1. ASSUME NEW q \in Int, NEW h \in Int, NEW q2 \in Int, NEW h2 \in Int,
             NEW c \in Contracts, NEW n \in Int,
             \A k \in Contracts : Cells(q2, h2)[k] = IF k # c THEN Cells(q, h)[k] ELSE Cells(q, h)[k] + n
      PROVE  Adding(SpreadOf(q, h), c, n, IF cloning THEN n ELSE 0) = SpreadOf(q2, h2)
  <2> DEFINE A == Adding(SpreadOf(q, h), c, n, IF cloning THEN n ELSE 0)
  <2>1. ASSUME NEW x \in Accounts PROVE A[x] = SpreadOf(q2, h2)[x]
    <3>1. A[x] = [k \in Contracts |->
             IF k # c THEN SpreadOf(q, h)[x][k]
             ELSE IF x = "primary" THEN SpreadOf(q, h)[x][k] + n
             ELSE SpreadOf(q, h)[x][k] + (IF cloning THEN n ELSE 0)]
      BY DEF Adding
    <3>2. CASE x = "primary" \/ cloning
      <4>1. SpreadOf(q, h)[x] = Cells(q, h) /\ SpreadOf(q2, h2)[x] = Cells(q2, h2)
        BY <3>2 DEF SpreadOf
      <4>2. A[x] = [k \in Contracts |-> IF k # c THEN Cells(q, h)[k] ELSE Cells(q, h)[k] + n]
        BY <3>1, <3>2, <4>1
      <4>3. Cells(q2, h2) = [k \in Contracts |-> Cells(q2, h2)[k]]
        BY DEF Cells
      <4>4. QED
        BY <1>1, <4>1, <4>2, <4>3
    <3>3. CASE ~(x = "primary" \/ cloning)
      <4>1. SpreadOf(q, h)[x] = Flat /\ SpreadOf(q2, h2)[x] = Flat
        BY <3>3 DEF SpreadOf
      <4>2. \A k \in Contracts : Flat[k] = 0 /\ Flat = [d \in Contracts |-> 0]
        BY DEF Flat
      <4>3. QED
        BY <3>1, <3>3, <4>1, <4>2
    <3>4. QED
      BY <3>2, <3>3
  <2>2. A = [x \in Accounts |-> A[x]] /\ SpreadOf(q2, h2) = [x \in Accounts |-> SpreadOf(q2, h2)[x]]
    BY DEF Adding, SpreadOf
  <2>3. QED
    BY <2>1, <2>2
<1>2. \A k \in Contracts : Cells(a, 0)[k] = IF k # LegA THEN Cells(0, 0)[k] ELSE Cells(0, 0)[k] + a
  BY Shares DEF Cells
<1>3. \A k \in Contracts : Cells(a, b)[k] = IF k # LegB THEN Cells(a, 0)[k] ELSE Cells(a, 0)[k] + b
  BY Shares DEF Cells
<1>4. QED
  BY <1>1, <1>2, <1>3, Shares

Working(q, h) ==
  \/ session = AllIdle
  \/ \E t \in Runners : \E a, b \in Int : Spreading(t, a, b) /\ Whole(q + a, h + b)

LEMMA SpreadIdle ==
  ASSUME NEW q, NEW h, Working(q, h), \A t \in Runners : session[t].at = "idle"
  PROVE  session = AllIdle
<1>1. ASSUME NEW t \in Runners, NEW todo, NEW fills, session = Busy(t, todo, fills) PROVE FALSE
  <2>1. Busy(t, todo, fills)[t] = [at |-> "submitting", todo |-> todo, fills |-> fills]
    BY BusySessions
  <2>2. session[t].at = "submitting"
    BY <1>1, <2>1
  <2>3. QED
    BY <2>2
<1>2. QED
  BY <1>1 DEF Working, Spreading

LEMMA NoOverlap == Overlap = {} => \A t \in Runners : session[t].at = "idle"
  BY DEF Overlap

LEMMA Begun ==
  ASSUME NEW t \in Runners, NEW todo, Begin(t, todo), session = AllIdle
  PROVE  session' = Busy(t, todo, NothingHeld)
  BY BusySessions DEF Begin

LEMMA SpreadKept ==
  ASSUME NEW q, NEW h, cloning' = cloning
  PROVE  SpreadOf(q, h)' = SpreadOf(q, h)
  BY DEF SpreadOf

\* A session that begins with two legs.
LEMMA SpreadBegins ==
  ASSUME NEW q \in Int, NEW h \in Int, held = SpreadOf(q, h), NEW t \in Runners,
         NEW a \in Int, NEW b \in Int, session = AllIdle,
         Begin(t, <<Leg(LegA, a), Leg(LegB, b)>>),
         held' = held, cloning' = cloning, Whole(q, h)', Whole(q + a, h + b)'
  PROVE  SpreadInv'
<1>1. session' = Busy(t, <<Leg(LegA, a), Leg(LegB, b)>>, SpreadOf(0, 0)')
  BY Begun, SpreadTyped, SpreadKept
<1>2. Spreading(t, a, b)'
  BY <1>1 DEF Spreading, Busy, AllIdle, IdleSession, Leg
<1>3. held' = SpreadOf(q, h)'
  BY SpreadKept
<1>4. QED
  BY <1>2, <1>3 DEF SpreadInv

LEMMA EnteringSpread ==
  ASSUME StrategyAssumption, NEW direction \in {1, -1}, NEW qty \in Nat \ {0}, NEW ratio \in Ratios,
         kind \notin OptionKinds, kind # "kelly" => qty = Qty,
         SpreadInv, strain' = {}, ~IsOpen, OpenSpread(direction, qty, ratio)
  PROVE  SpreadInv'
<1>1. PICK q \in Int, h \in Int : held = SpreadOf(q, h) /\ Whole(q, h) /\ Working(q, h)
  BY DEF SpreadInv, Working
<1>2. session = AllIdle
  <2>1. Overlap = {}
    BY DEF OpenSpread
  <2>2. QED
    BY <1>1, <2>1, NoOverlap, SpreadIdle
<1>3. q = 0 /\ h = 0
  <2>1. Net(LegA) = 0
    BY DEF IsOpen, SpreadHeld
  <2>2. q = 0
    BY <1>1, <2>1, SpreadNet
  <2>3. QED
    BY <1>1, <2>2 DEF Whole
<1>4. PICK b \in Int : b = Hedge(direction, qty, ratio) /\ b # 0
  <2>1. qty \in Int
    OBVIOUS
  <2>2. QED
    BY <2>1, HedgeCounts
<1> DEFINE a == direction * qty
<1>5. a \in Int /\ a # 0 /\ (kind # "kelly" => a \in {Qty, -Qty})
  BY DEF StrategyAssumption
<1>6. Begin("tick", <<Leg(LegA, a), Leg(LegB, b)>>)
  BY <1>4 DEF OpenSpread, Spread
<1>7. held' = held /\ cloning' = cloning /\ kind' = kind /\ hedgedBy' = b
  BY <1>4 DEF OpenSpread
<1> HIDE DEF a
<1>8. Whole(0, 0)' /\ Whole(0 + a, 0 + b)'
  <2>1. 0 + b = b /\ 0 + a = a
    BY <1>4, <1>5
  <2>2. QED
    BY <1>4, <1>5, <1>7, <2>1 DEF Whole
<1>9. "tick" \in Runners
  BY DEF Runners
<1>10. Whole(q, h)' /\ Whole(q + a, h + b)'
  BY <1>3, <1>8
<1>11. QED
  BY <1>1, <1>2, <1>4, <1>5, <1>6, <1>7, <1>9, <1>10, SpreadBegins

LEMMA ExitingSpread ==
  ASSUME StrategyAssumption, kind \notin OptionKinds, SpreadInv, strain' = {}, ExitSpread
  PROVE  SpreadInv'
<1>1. PICK q \in Int, h \in Int : held = SpreadOf(q, h) /\ Whole(q, h) /\ Working(q, h)
  BY DEF SpreadInv, Working
<1> DEFINE direction == -Sign(SpreadHeld)
<1>2. PICK ratio \in Ratios :
        /\ Begin("tick", Spread(direction, ExitQty, ratio))
        /\ strain' = strain \cup Overlap
             \cup (IF Hedge(direction, ExitQty, ratio) # -hedgedBy THEN {"drift"} ELSE {})
             \cup (IF kind = "kelly" /\ cloning THEN {"clones"} ELSE {})
  BY DEF ExitSpread
<1>3. /\ Overlap = {} /\ Hedge(direction, ExitQty, ratio) = -hedgedBy
      /\ ~(kind = "kelly" /\ cloning)
  BY <1>2
<1>4. session = AllIdle
  BY <1>1, <1>3, NoOverlap, SpreadIdle
<1>5. SpreadHeld = (IF cloning THEN q + q ELSE q) /\ SpreadHeld # 0
  BY <1>1, SpreadNet DEF ExitSpread, IsOpen, SpreadHeld
<1>6. q # 0 /\ h = hedgedBy /\ (kind # "kelly" => q \in {Qty, -Qty})
  BY <1>1, <1>5 DEF Whole
<1>7. direction * ExitQty = -q
  <2>1. CASE kind = "kelly"
    <3>1. ExitQty = Magnitude(q) /\ direction = -Sign(q)
      BY <1>3, <1>5, <2>1 DEF ExitQty
    <3>2. QED
      BY <1>6, <3>1 DEF Sign, Magnitude
  <2>2. CASE kind # "kelly"
    <3>1. ExitQty = Qty /\ Qty \in Nat \ {0}
      BY <2>2 DEF ExitQty, StrategyAssumption
    <3>2. direction = IF q > 0 THEN -1 ELSE 1
      BY <1>5, <1>6 DEF Sign
    <3>3. QED
      BY <1>6, <2>2, <3>1, <3>2
  <2>3. QED
    BY <2>1, <2>2
<1>8. Begin("tick", <<Leg(LegA, -q), Leg(LegB, -h)>>)
  BY <1>2, <1>3, <1>6, <1>7 DEF Spread
<1>9. held' = held /\ cloning' = cloning /\ kind' = kind /\ hedgedBy' = hedgedBy
  BY DEF ExitSpread
<1>10. Whole(q, h)' /\ Whole(q + (-q), h + (-h))'
  BY <1>1, <1>9 DEF Whole
<1>11. "tick" \in Runners /\ -q \in Int /\ -h \in Int
  BY DEF Runners
<1>12. QED
  <2> HIDE DEF direction
  <2>1. QED
    BY <1>1, <1>4, <1>8, <1>9, <1>10, <1>11, SpreadBegins

LEMMA ForcingClose ==
  ASSUME kind \notin OptionKinds, SpreadInv, strain' = {}, ForceClose
  PROVE  SpreadInv'
<1>1. PICK q \in Int, h \in Int : held = SpreadOf(q, h) /\ Whole(q, h) /\ Working(q, h)
  BY DEF SpreadInv, Working
<1>2. Overlap = {} /\ ~cloning
  BY DEF ForceClose
<1>3. session = AllIdle
  BY <1>1, <1>2, NoOverlap, SpreadIdle
<1>4. Net(LegA) = q /\ Net(LegB) = h
  BY <1>1, <1>2, SpreadNet
<1>5. q # 0 /\ h # 0
  BY <1>1, <1>4 DEF ForceClose, SpreadHeld, Whole
<1>6. OpenLegs = <<Leg(LegA, -q), Leg(LegB, -h)>>
  <2>1. Closing(LegA) = <<Leg(LegA, -q)>> /\ Closing(LegB) = <<Leg(LegB, -h)>>
    BY <1>4, <1>5 DEF Closing
  <2>2. QED
    BY <2>1, Joined DEF OpenLegs
<1>7. Begin("close", <<Leg(LegA, -q), Leg(LegB, -h)>>)
  BY <1>6 DEF ForceClose
<1>8. held' = held /\ cloning' = cloning /\ kind' = kind /\ hedgedBy' = hedgedBy
  BY DEF ForceClose
<1>9. Whole(q, h)' /\ Whole(q + (-q), h + (-h))'
  BY <1>1, <1>8 DEF Whole
<1>10. "close" \in Runners /\ -q \in Int /\ -h \in Int
  BY DEF Runners
<1>11. QED
  BY <1>1, <1>3, <1>7, <1>8, <1>9, <1>10, SpreadBegins

\* Only the session at work does anything.
LEMMA OneWorks ==
  ASSUME NEW t \in Runners, NEW todo, NEW fills, session = Busy(t, todo, fills),
         NEW u \in Runners, session[u].at = "submitting" \/ session[u].todo # <<>>
  PROVE  u = t
<1>1. ASSUME u # t PROVE FALSE
  <2>1. u \in Runners \ {t}
    BY <1>1
  <2>2. Busy(t, todo, fills)[u] = IdleSession
    BY <2>1 DEF Busy, AllIdle
  <2>3. session[u].at = "idle" /\ session[u].todo = <<>>
    BY <2>2 DEF IdleSession
  <2>4. QED
    BY <2>3
<1>2. QED
  BY <1>1

LEMMA BusyEnds ==
  ASSUME NEW t \in Runners, NEW todo, NEW fills, session = Busy(t, todo, fills),
         session' = [session EXCEPT ![t] = IdleSession]
  PROVE  session' = AllIdle'
<1>1. session' = [Busy(t, todo, fills) EXCEPT ![t] = IdleSession]
  OBVIOUS
<1>2. session' = AllIdle
  BY <1>1 DEF Busy, AllIdle
<1>3. QED
  BY <1>2 DEF AllIdle, IdleSession

LEMMA NobodyWorks ==
  ASSUME session = AllIdle, NEW u \in Runners
  PROVE  session[u].at # "submitting" /\ session[u].todo = <<>>
<1>1. session[u] = IdleSession
  BY AllIdleSessions
<1>2. QED
  BY <1>1 DEF IdleSession

\* Without a partial fill an order is filled, and so is its clone.
LEMMA EquityFilled ==
  ASSUME NEW t \in Runners, NEW todo, NEW fills \in [Accounts -> [Contracts -> Int]],
         session = Busy(t, todo, fills), NEW c \in Contracts, NEW n \in Int,
         Head(todo) = Leg(c, n), strain' = {}, SubmitEquity(t)
  PROVE  session' = Busy(t, Tail(todo), Adding(fills, c, n, IF cloning THEN n ELSE 0))
<1>1. session[t] = [at |-> "submitting", todo |-> todo, fills |-> fills]
  BY BusySessions
<1>2. session[t].todo = todo /\ session[t].fills = fills
  BY <1>1
<1>3. Leg(c, n).contract = c /\ Leg(c, n).qty = n
  BY DEF Leg
<1>4. PICK f \in Filled(Magnitude(n)), g \in IF cloning THEN Filled(Magnitude(n)) ELSE {0} :
        /\ session' = [session EXCEPT
             ![t].todo = Tail(@), ![t].fills = WithFill(@, c, Sign(n) * f, Sign(n) * g)]
        /\ strain' = strain \cup (IF f # Magnitude(n) \/ (cloning /\ g # Magnitude(n))
                                  THEN {"partial"} ELSE {})
  <2>1. Head(session[t].todo).contract = c /\ Head(session[t].todo).qty = n
    BY <1>2, <1>3
  <2>2. QED
    BY <2>1 DEF SubmitEquity
<1>5. f = Magnitude(n) /\ (cloning => g = Magnitude(n)) /\ (~cloning => g = 0)
  BY <1>4
<1>6. Sign(n) * f = n /\ Sign(n) * g = IF cloning THEN n ELSE 0
  BY <1>5, SignedQuantity DEF Sign
<1> DEFINE x == Sign(n) * f
           y == Sign(n) * g
<1>7. session' = [session EXCEPT ![t].todo = Tail(@), ![t].fills = WithFill(@, c, x, y)]
  BY <1>4
<1>8. x = n /\ y = (IF cloning THEN n ELSE 0) /\ x \in Int /\ y \in Int
  BY <1>6
<1> HIDE DEF x, y
<1>9. WithFill(fills, c, x, y) = Adding(fills, c, x, y)
  BY <1>8, Filling
<1>10. session' = Moved(session, t, Tail(todo), WithFill(fills, c, x, y))
  BY <1>2, <1>7 DEF Moved
<1>11. session' = Moved(Busy(t, todo, fills), t, Tail(todo), Adding(fills, c, x, y))
  BY <1>9, <1>10
<1>12. QED
  BY <1>8, <1>11, BusyMoves

\* The session at work fills its next leg.
LEMMA FillingSpread ==
  ASSUME kind \notin OptionKinds, SpreadInv, strain' = {}, NEW u \in Runners, SubmitEquity(u)
  PROVE  SpreadInv'
<1>1. PICK q \in Int, h \in Int : held = SpreadOf(q, h) /\ Whole(q, h) /\ Working(q, h)
  BY DEF SpreadInv, Working
<1>2. session[u].todo # <<>>
  BY DEF SubmitEquity
<1>3. PICK t \in Runners, a \in Int, b \in Int : Spreading(t, a, b) /\ Whole(q + a, h + b)
  BY <1>1, <1>2, NobodyWorks DEF Working
<1>4. u = t
  BY <1>2, <1>3, OneWorks DEF Spreading
<1>5. held' = held /\ cloning' = cloning /\ kind' = kind /\ hedgedBy' = hedgedBy
  BY DEF SubmitEquity
<1>6. Spreading(t, a, b)'
  <2>1. CASE session = Busy(t, <<Leg(LegA, a), Leg(LegB, b)>>, SpreadOf(0, 0))
    <3>1. session' = Busy(t, Tail(<<Leg(LegA, a), Leg(LegB, b)>>),
                          Adding(SpreadOf(0, 0), LegA, a, IF cloning THEN a ELSE 0))
      <4>1. SpreadOf(0, 0) \in [Accounts -> [Contracts -> Int]]
        BY SpreadTyped
      <4>2. Head(<<Leg(LegA, a), Leg(LegB, b)>>) = Leg(LegA, a)
        OBVIOUS
      <4>3. QED
        BY <1>4, <2>1, <4>1, <4>2, Shares, EquityFilled
    <3>2. Tail(<<Leg(LegA, a), Leg(LegB, b)>>) = <<Leg(LegB, b)>>
      OBVIOUS
    <3>3. session' = Busy(t, <<Leg(LegB, b)>>, SpreadOf(a, 0)')
      BY <1>5, <3>1, <3>2, SpreadFills, SpreadKept
    <3>4. QED
      BY <3>3 DEF Spreading, Busy, AllIdle, IdleSession, Leg
  <2>2. CASE session = Busy(t, <<Leg(LegB, b)>>, SpreadOf(a, 0))
    <3>1. session' = Busy(t, Tail(<<Leg(LegB, b)>>),
                          Adding(SpreadOf(a, 0), LegB, b, IF cloning THEN b ELSE 0))
      <4>1. SpreadOf(a, 0) \in [Accounts -> [Contracts -> Int]]
        BY SpreadTyped
      <4>2. Head(<<Leg(LegB, b)>>) = Leg(LegB, b)
        OBVIOUS
      <4>3. QED
        BY <1>4, <2>2, <4>1, <4>2, Shares, EquityFilled
    <3>2. Tail(<<Leg(LegB, b)>>) = <<>>
      OBVIOUS
    <3>3. session' = Busy(t, <<>>, SpreadOf(a, b)')
      BY <1>5, <3>1, <3>2, SpreadFills, SpreadKept
    <3>4. QED
      BY <3>3 DEF Spreading, Busy, AllIdle, IdleSession, Leg
  <2>3. CASE session = Busy(t, <<>>, SpreadOf(a, b))
    <3>1. Busy(t, <<>>, SpreadOf(a, b))[t]
            = [at |-> "submitting", todo |-> <<>>, fills |-> SpreadOf(a, b)]
      BY BusySessions
    <3>2. session[t].todo = <<>>
      BY <2>3, <3>1
    <3>3. QED
      BY <1>2, <1>4, <3>2
  <2>4. QED
    BY <1>3, <2>1, <2>2, <2>3 DEF Spreading
<1>7. held' = SpreadOf(q, h)' /\ Whole(q, h)' /\ Whole(q + a, h + b)'
  BY <1>1, <1>3, <1>5, SpreadKept DEF Whole
<1>8. QED
  BY <1>6, <1>7 DEF SpreadInv

LEMMA CommittingSpread ==
  ASSUME kind \notin OptionKinds, SpreadInv, NEW u \in Runners, CommitSession(u)
  PROVE  SpreadInv'
<1>1. PICK q \in Int, h \in Int : held = SpreadOf(q, h) /\ Whole(q, h) /\ Working(q, h)
  BY DEF SpreadInv, Working
<1>2. session[u].at = "submitting" /\ session[u].todo = <<>>
  BY DEF CommitSession
<1>3. PICK t \in Runners, a \in Int, b \in Int : Spreading(t, a, b) /\ Whole(q + a, h + b)
  BY <1>1, <1>2, NobodyWorks DEF Working
<1>4. u = t
  BY <1>2, <1>3, OneWorks DEF Spreading
<1>5. cloning' = cloning /\ kind' = kind /\ hedgedBy' = hedgedBy
  BY DEF CommitSession
<1>6. session = Busy(t, <<>>, SpreadOf(a, b))
  <2>1. ASSUME NEW todo, NEW fills, session = Busy(t, todo, fills) PROVE todo = <<>>
    <3>1. Busy(t, todo, fills)[t] = [at |-> "submitting", todo |-> todo, fills |-> fills]
      BY BusySessions
    <3>2. session[t].todo = todo
      BY <2>1, <3>1
    <3>3. QED
      BY <1>2, <1>4, <3>2
  <2>2. <<Leg(LegA, a), Leg(LegB, b)>> # <<>> /\ <<Leg(LegB, b)>> # <<>>
    OBVIOUS
  <2>3. QED
    BY <1>3, <2>1, <2>2 DEF Spreading
<1>7. session[t].fills = SpreadOf(a, b)
  <2>1. Busy(t, <<>>, SpreadOf(a, b))[t]
          = [at |-> "submitting", todo |-> <<>>, fills |-> SpreadOf(a, b)]
    BY BusySessions
  <2>2. QED
    BY <1>6, <2>1
<1>8. held' = SpreadOf(q + a, h + b)'
  <2>1. held' = Plus(SpreadOf(q, h), SpreadOf(a, b))
    BY <1>1, <1>4, <1>7 DEF CommitSession
  <2>2. QED
    BY <1>5, <2>1, SpreadPlus, SpreadKept
<1>9. session' = AllIdle'
  BY <1>4, <1>6, BusyEnds DEF CommitSession
<1>10. Whole(q + a, h + b)' /\ q + a \in Int /\ h + b \in Int
  BY <1>3, <1>5 DEF Whole
<1>11. QED
  BY <1>8, <1>9, <1>10 DEF SpreadInv

LEMMA RollingBackSpread ==
  ASSUME kind \notin OptionKinds, SpreadInv, NEW u \in Runners, RollBack(u)
  PROVE  SpreadInv'
<1>1. PICK q \in Int, h \in Int : held = SpreadOf(q, h) /\ Whole(q, h) /\ Working(q, h)
  BY DEF SpreadInv, Working
<1>2. session[u].at = "submitting"
  BY DEF RollBack
<1>3. PICK t \in Runners, a \in Int, b \in Int : Spreading(t, a, b)
  BY <1>1, <1>2, NobodyWorks DEF Working
<1>4. PICK todo, fills : session = Busy(t, todo, fills)
  BY <1>3 DEF Spreading
<1>5. u = t
  BY <1>2, <1>4, OneWorks
<1>6. session' = AllIdle'
  BY <1>4, <1>5, BusyEnds DEF RollBack
<1>7. held' = held /\ cloning' = cloning /\ kind' = kind /\ hedgedBy' = hedgedBy
  BY DEF RollBack
<1>8. held' = SpreadOf(q, h)' /\ Whole(q, h)'
  BY <1>1, <1>7, SpreadKept DEF Whole
<1>9. QED
  BY <1>6, <1>8 DEF SpreadInv

LEMMA CloningSpread ==
  ASSUME kind \notin OptionKinds, SpreadInv, strain' = {}, AddSub
  PROVE  SpreadInv'
<1>1. PICK q \in Int, h \in Int : held = SpreadOf(q, h) /\ Whole(q, h) /\ Working(q, h)
  BY DEF SpreadInv, Working
<1>2. held = NothingHeld /\ \A t \in Runners : session[t].at = "idle"
  BY DEF AddSub
<1>3. session' = AllIdle'
  <2>1. session = AllIdle
    BY <1>1, <1>2, SpreadIdle
  <2>2. QED
    BY <2>1 DEF AddSub, AllIdle, IdleSession
<1>4. held' = SpreadOf(0, 0)'
  <2>1. SpreadOf(0, 0)' = NothingHeld
    BY DEF SpreadOf, NothingHeld, Cells, Flat
  <2>2. QED
    BY <1>2, <2>1 DEF AddSub
<1>5. Whole(0, 0)'
  BY DEF Whole
<1>6. QED
  BY <1>3, <1>4, <1>5 DEF SpreadInv

LEMMA SpreadStep ==
  ASSUME StrategyAssumption, kind \notin OptionKinds, SpreadInv, strain' = {},
         StrategyNext
  PROVE  SpreadInv'
<1>1. CASE EnterSpread
  <2>1. PICK direction \in {1, -1}, qty \in EntrySizes, ratio \in Ratios :
          OpenSpread(direction, qty, ratio)
    BY <1>1 DEF EnterSpread
  <2>2. qty \in Nat \ {0} /\ (kind # "kelly" => qty = Qty)
    BY DEF EntrySizes, StrategyAssumption
  <2>3. ~IsOpen
    BY <1>1 DEF EnterSpread
  <2>4. QED
    BY <2>1, <2>2, <2>3, EnteringSpread
<1>2. CASE EnterBasket
  <2>1. PICK direction \in {1, -1}, ratio \in Ratios : OpenSpread(direction, Qty, ratio)
    BY <1>2 DEF EnterBasket
  <2>2. Qty \in Nat \ {0} /\ ~IsOpen
    BY <1>2 DEF EnterBasket, StrategyAssumption
  <2>3. QED
    BY <2>1, <2>2, EnteringSpread
<1>3. CASE ExitSpread \/ ForceClose \/ AddSub
  BY <1>3, ExitingSpread, ForcingClose, CloningSpread
<1>4. CASE EnterOptions \/ ExitOptions \/ Rebalance
  BY <1>4 DEF EnterOptions, ExitOptions, Rebalance, OptionKinds
<1>5. ASSUME NEW t \in Runners, SubmitEquity(t) \/ CommitSession(t) \/ RollBack(t) PROVE SpreadInv'
  BY <1>5, FillingSpread, CommittingSpread, RollingBackSpread
<1>6. ASSUME NEW u \in Runners, SubmitOption(u) PROVE FALSE
  <2>1. session[u].todo # <<>> /\ IsOption(Head(session[u].todo).contract)
    BY <1>6 DEF SubmitOption
  <2>2. PICK q \in Int, h \in Int : Working(q, h)
    BY DEF SpreadInv, Working
  <2>3. PICK t \in Runners, a \in Int, b \in Int : Spreading(t, a, b)
    BY <2>1, <2>2, NobodyWorks DEF Working
  <2>4. u = t
    BY <2>1, <2>3, OneWorks DEF Spreading
  <2>5. PICK todo, fills : /\ session = Busy(t, todo, fills)
                           /\ \/ todo = <<>>
                              \/ todo = <<Leg(LegA, a), Leg(LegB, b)>>
                              \/ todo = <<Leg(LegB, b)>>
    BY <2>3 DEF Spreading
  <2>6. session[u].todo = todo
    <3>1. Busy(t, todo, fills)[t] = [at |-> "submitting", todo |-> todo, fills |-> fills]
      BY BusySessions
    <3>2. QED
      BY <2>4, <2>5, <3>1
  <2>7. Head(todo) = Leg(LegA, a) \/ Head(todo) = Leg(LegB, b)
    BY <2>1, <2>5, <2>6
  <2>8. QED
    BY <2>1, <2>6, <2>7, Shares DEF Leg
<1>7. QED
  BY <1>1, <1>2, <1>3, <1>4, <1>5, <1>6 DEF StrategyNext

-------------------------------------------------------------------------------
(* Options                                                                    *)

LEMMA PlusNothing ==
  ASSUME NEW G \in [Accounts -> [Contracts -> Int]]
  PROVE  Plus(G, NothingHeld) = G
<1>1. \A x \in Accounts : NothingHeld[x] = Flat
  BY DEF NothingHeld
<1>2. \A x \in Accounts : [c \in Contracts |-> G[x][c] + NothingHeld[x][c]] = G[x]
  <2> TAKE x \in Accounts
  <2>1. G[x] \in [Contracts -> Int]
    OBVIOUS
  <2>2. \A c \in Contracts : Flat[c] = 0
    BY DEF Flat
  <2>3. \A c \in Contracts : G[x][c] + NothingHeld[x][c] = G[x][c]
    BY <1>1, <2>1, <2>2
  <2>4. QED
    BY <2>1, <2>3
<1>3. QED
  BY <1>2 DEF Plus

\* An option is booked for the primary account.
BookedIn(G, c, n) == [G EXCEPT !["primary"][c] = @ + n]
Booking(G, c, n) ==
  [x \in Accounts |-> [k \in Contracts |->
     IF x = "primary" /\ k = c THEN G[x][k] + n ELSE G[x][k]]]

LEMMA OptionBooked ==
  ASSUME NEW G \in [Accounts -> [Contracts -> Int]], NEW c, NEW n \in Int
  PROVE  BookedIn(G, c, n) = Booking(G, c, n)
<1> DEFINE N == [G EXCEPT !["primary"] = [G["primary"] EXCEPT ![c] = @ + n]]
           A == Booking(G, c, n)
<1>1. BookedIn(G, c, n) = N
  BY DEF BookedIn
<1>2. "primary" \in Accounts
  BY DEF Accounts
<1>3. [G["primary"] EXCEPT ![c] = @ + n] = A["primary"]
  <2>1. G["primary"] \in [Contracts -> Int]
    BY <1>2
  <2>2. [G["primary"] EXCEPT ![c] = @ + n]
          = [k \in Contracts |-> IF k = c THEN G["primary"][k] + n ELSE G["primary"][k]]
    BY <2>1
  <2>3. QED
    BY <1>2, <2>2 DEF Booking
<1>4. \A x \in Accounts : x # "primary" => A[x] = G[x]
  <2> TAKE x \in Accounts
  <2> HAVE x # "primary"
  <2>1. G[x] \in [Contracts -> Int]
    OBVIOUS
  <2>2. A[x] = [k \in Contracts |-> G[x][k]]
    BY DEF Booking
  <2>3. QED
    BY <2>1, <2>2
<1>5. A = [x \in Accounts |-> A[x]]
  BY DEF Booking
<1>6. N = A
  <2> HIDE DEF A
  <2>1. N = [x \in Accounts |-> IF x = "primary" THEN A[x] ELSE G[x]]
    BY <1>2, <1>3
  <2>2. QED
    BY <1>4, <1>5, <2>1
<1>7. QED
  BY <1>1, <1>6

LEMMA CountStrikes ==
  ASSUME StrategyAssumption, NEW S \in SUBSET Strikes
  PROVE  IsFiniteSet(S) /\ Cardinality(S) \in Nat
  BY FS_Subset, FS_CardinalityType DEF StrategyAssumption

Weeklies == [at : {"idle", "submitting"}, todo : Seq(Weekly), fills : {NothingHeld}]

LEMMA WeeklyBegins ==
  ASSUME WeeklyInv, NEW t \in Runners, NEW todo \in Seq(Weekly), Begin(t, todo), held' = held
  PROVE  WeeklyInv'
<1>1. [at |-> "submitting", todo |-> todo, fills |-> NothingHeld] \in Weeklies
  BY DEF Weeklies
<1>2. session' \in [Runners -> Weeklies]
  BY <1>1 DEF WeeklyInv, Weeklies, Begin
<1>3. QED
  BY <1>2 DEF WeeklyInv, Weeklies, Weekly, NothingHeld, Flat, Wing

LEMMA EnteringWeekly ==
  ASSUME StrategyAssumption, kind \in {"strangle", "condor"}, WeeklyInv, EnterOptions
  PROVE  WeeklyInv'
<1>1. PICK s \in Strikes : Begin("tick", OptionEntry(s))
  BY DEF EnterOptions
<1>2. Leg(<<s, "weekly">>, -Qty) \in Weekly
  BY DEF Leg, Weekly, StrategyAssumption
<1>3. Leg(<<Wing, "weekly">>, Qty) \in Weekly /\ Leg(<<Wing, "weekly">>, -Qty) \in Weekly
  BY DEF Leg, Weekly, StrategyAssumption
<1>4. OptionEntry(s) = IF kind = "strangle" THEN StrangleEntry(s) ELSE CondorEntry(s)
  BY DEF OptionEntry
<1>5. StrangleEntry(s) \in Seq(Weekly)
  BY <1>2, <1>3 DEF StrangleEntry
<1>6. CondorEntry(s) \in Seq(Weekly)
  BY <1>2, <1>3 DEF CondorEntry
<1>7. "tick" \in Runners /\ held' = held
  BY DEF Runners, EnterOptions
<1>8. QED
  BY <1>1, <1>4, <1>5, <1>6, <1>7, WeeklyBegins

LEMMA WeeklyNets ==
  ASSUME WeeklyInv, NEW s \in Strikes
  PROVE  /\ NetAtStrike(s) = held["primary"][<<s, "weekly">>]
         /\ NetAtStrike(s) \in Int /\ ExpiryOf(s) = "weekly"
<1>1. <<s, "weekly">> \in Contracts /\ <<s, "monthly">> \in Contracts
  BY DEF Contracts, Expiries
<1>2. "primary" \in Accounts /\ "sub" \in Accounts /\ "primary" # "sub"
  BY DEF Accounts
<1>3. \A x \in Accounts : held[x][<<s, "monthly">>] = 0
  <2>1. <<s, "monthly">>[2] # "weekly"
    OBVIOUS
  <2>2. QED
    BY <1>1, <2>1 DEF WeeklyInv
<1>4. held["sub"][<<s, "weekly">>] = 0
  BY <1>1, <1>2 DEF WeeklyInv
<1>5. held["primary"][<<s, "weekly">>] \in Int
  BY <1>1, <1>2 DEF WeeklyInv
<1>6. QED
  BY <1>2, <1>3, <1>4, <1>5 DEF NetAtStrike, Net, ExpiryOf

LEMMA ExitingWeekly ==
  ASSUME StrategyAssumption, kind \in {"strangle", "condor"}, WeeklyInv, ExitOptions
  PROVE  WeeklyInv'
<1>1. PICK order \in TradedOrders : Begin("tick", OptionExit(order))
  BY DEF ExitOptions
<1> DEFINE n == Cardinality(OpenStrikes)
           legs == [i \in DOMAIN order |-> Leg(<<order[i], ExpiryOf(order[i])>>, -NetAtStrike(order[i]))]
<1>2. OpenStrikes \subseteq Strikes /\ n \in Nat
  BY CountStrikes DEF OpenStrikes
<1>3. order \in [1 .. n -> OpenStrikes]
  BY DEF TradedOrders, Injection
<1>4. \A s \in Strikes : Leg(<<s, ExpiryOf(s)>>, -NetAtStrike(s)) \in Weekly
  <2> TAKE s \in Strikes
  <2>1. PICK m \in Int : m = NetAtStrike(s)
    BY WeeklyNets
  <2>2. ExpiryOf(s) = "weekly"
    BY WeeklyNets
  <2>3. Leg(<<s, "weekly">>, -m) \in Weekly
    BY DEF Leg, Weekly
  <2>4. QED
    BY <2>1, <2>2, <2>3
<1>5. legs \in [1 .. n -> Weekly]
  <2> HIDE DEF n
  <2>1. \A i \in 1 .. n : order[i] \in Strikes
    BY <1>2, <1>3
  <2>2. QED
    BY <1>3, <1>4, <2>1
<1>6. legs \in Seq(Weekly)
  <2> HIDE DEF n, legs
  <2>1. QED
    BY <1>2, <1>5
<1>7. OptionExit(order) = legs
  <2>1. HedgeExit = <<>>
    BY DEF HedgeExit
  <2> HIDE DEF legs
  <2>2. legs \o <<>> = legs
    BY <1>6, ConcatEmptySeq
  <2>3. QED
    BY <2>1, <2>2 DEF OptionExit, legs
<1>8. "tick" \in Runners /\ held' = held
  BY DEF Runners, ExitOptions
<1>9. QED
  <2> HIDE DEF legs
  <2>1. QED
    BY <1>1, <1>6, <1>7, <1>8, WeeklyBegins

LEMMA BookingWeekly ==
  ASSUME WeeklyInv, NEW t \in Runners, SubmitOption(t)
  PROVE  WeeklyInv'
<1> DEFINE order == Head(session[t].todo)
<1>1. session[t] \in Weeklies /\ session[t].todo # <<>>
  BY DEF WeeklyInv, Weeklies, SubmitOption
<1>2. session[t].todo \in Seq(Weekly) /\ session[t].fills = NothingHeld
  BY <1>1 DEF Weeklies
<1>3. order \in Weekly /\ Tail(session[t].todo) \in Seq(Weekly)
  BY <1>1, <1>2, HeadTailProperties
<1>4. order.contract[2] = "weekly" /\ order.qty \in Int
  BY <1>3 DEF Weekly
<1>5. held' = Booking(held, order.contract, order.qty)
  <2>1. held \in [Accounts -> [Contracts -> Int]]
    BY DEF WeeklyInv
  <2>2. Plus(held, session[t].fills) = held
    BY <1>2, <2>1, PlusNothing
  <2>3. held' = BookedIn(held, order.contract, order.qty)
    BY <2>2 DEF SubmitOption, BookedIn
  <2>4. QED
    BY <1>4, <2>1, <2>3, OptionBooked
<1> HIDE DEF order
<1>6. held' \in [Accounts -> [Contracts -> Int]]
  BY <1>4, <1>5 DEF Booking, WeeklyInv
<1>7. \A x \in Accounts : \A c \in Contracts : x # "primary" \/ c[2] # "weekly" => held'[x][c] = 0
  BY <1>4, <1>5 DEF Booking, WeeklyInv
<1>8. session' \in [Runners -> Weeklies]
  <2>1. session' = [session EXCEPT ![t] = [session[t] EXCEPT !.todo = Tail(session[t].todo),
                                                              !.fills = NothingHeld]]
    BY DEF SubmitOption
  <2>2. [session[t] EXCEPT !.todo = Tail(session[t].todo), !.fills = NothingHeld] \in Weeklies
    BY <1>1, <1>3 DEF Weeklies
  <2>3. QED
    BY <2>1, <2>2 DEF WeeklyInv, Weeklies
<1>9. QED
  BY <1>6, <1>7, <1>8 DEF WeeklyInv, Weeklies, Weekly, NothingHeld, Flat, Wing

LEMMA WeeklyStep ==
  ASSUME StrategyAssumption, kind \in {"strangle", "condor"}, WeeklyInv, StrategyNext
  PROVE  WeeklyInv'
<1>1. CASE EnterOptions \/ ExitOptions
  BY <1>1, EnteringWeekly, ExitingWeekly
<1>2. CASE EnterSpread \/ EnterBasket \/ ExitSpread \/ Rebalance \/ ForceClose
  BY <1>2 DEF EnterSpread, EnterBasket, ExitSpread, Rebalance, ForceClose, OptionKinds
<1>3. CASE AddSub
  BY <1>3 DEF AddSub, WeeklyInv, Weekly, NothingHeld, Flat, Wing
<1>4. ASSUME NEW t \in Runners, SubmitEquity(t) PROVE FALSE
  <2>1. session[t].todo # <<>> /\ ~IsOption(Head(session[t].todo).contract)
    BY <1>4 DEF SubmitEquity
  <2>2. session[t].todo \in Seq(Weekly)
    BY DEF WeeklyInv
  <2>3. Head(session[t].todo) \in Weekly
    BY <2>1, <2>2, HeadTailProperties
  <2>4. QED
    BY <2>1, <2>3 DEF Weekly, IsOption, Expiries
<1>5. ASSUME NEW t \in Runners, CommitSession(t) \/ RollBack(t) PROVE WeeklyInv'
  <2>1. held' = held
    <3>1. held \in [Accounts -> [Contracts -> Int]] /\ session[t].fills = NothingHeld
      BY DEF WeeklyInv
    <3>2. Plus(held, session[t].fills) = held
      BY <3>1, PlusNothing
    <3>3. QED
      BY <1>5, <3>2 DEF CommitSession, RollBack
  <2>2. IdleSession \in Weeklies
    BY DEF IdleSession, Weeklies
  <2>3. session' \in [Runners -> Weeklies]
    BY <1>5, <2>2 DEF CommitSession, RollBack, WeeklyInv, Weeklies
  <2>4. QED
    BY <2>1, <2>3 DEF WeeklyInv, Weeklies, Weekly, NothingHeld, Flat, Wing
<1>6. QED
  BY <1>1, <1>2, <1>3, <1>4, <1>5, BookingWeekly DEF StrategyNext

-------------------------------------------------------------------------------
(* Hedged options                                                             *)

LEMMA HedgeTyped ==
  ASSUME NEW s, NEW n \in Int, NEW a \in Int, NEW b \in Int
  PROVE  /\ HedgeOf(s, n, a, b) \in [Accounts -> [Contracts -> Int]]
         /\ HedgeOf(s, 0, 0, 0) = NothingHeld
<1>1. \A m, d \in Int : HedgeCells(s, m, d) \in [Contracts -> Int]
  BY DEF HedgeCells
<1>2. HedgeCells(s, 0, 0) = Flat
  BY DEF HedgeCells, Flat
<1>3. QED
  BY <1>1, <1>2 DEF HedgeOf, NothingHeld

LEMMA HedgePlus ==
  ASSUME NEW s, NEW n \in Int, NEW a \in Int, NEW b \in Int, NEW d \in Int, NEW e \in Int
  PROVE  Plus(HedgeOf(s, n, a, b), HedgeOf(s, 0, d, e)) = HedgeOf(s, n, a + d, b + e)
<1>1. [c \in Contracts |-> HedgeCells(s, n, a)[c] + HedgeCells(s, 0, d)[c]] = HedgeCells(s, n, a + d)
  BY Shares DEF HedgeCells
<1>2. [c \in Contracts |-> HedgeCells(s, 0, b)[c] + HedgeCells(s, 0, e)[c]] = HedgeCells(s, 0, b + e)
  BY Shares DEF HedgeCells
<1>3. \A x \in Accounts :
        [c \in Contracts |-> HedgeOf(s, n, a, b)[x][c] + HedgeOf(s, 0, d, e)[x][c]]
          = HedgeOf(s, n, a + d, b + e)[x]
  BY <1>1, <1>2 DEF HedgeOf
<1>4. HedgeOf(s, n, a + d, b + e) = [x \in Accounts |-> HedgeOf(s, n, a + d, b + e)[x]]
  BY DEF HedgeOf
<1>5. QED
  BY <1>3, <1>4 DEF Plus

LEMMA HedgeNets ==
  ASSUME NEW s \in Strikes, NEW n \in Int, NEW a \in Int, NEW b \in Int, held = HedgeOf(s, n, a, b)
  PROVE  /\ HedgeHeld = a + b /\ NetAtStrike(s) = n
         /\ OpenStrikes = IF n = 0 THEN {} ELSE {s}
         /\ n # 0 => ExpiryOf(s) = "monthly"
<1>1. "primary" \in Accounts /\ "sub" \in Accounts /\ "primary" # "sub"
  BY DEF Accounts
<1>2. held["primary"] = HedgeCells(s, n, a) /\ held["sub"] = HedgeCells(s, 0, b)
  BY <1>1 DEF HedgeOf
<1>3. \A z \in Strikes : <<z, "weekly">> \in Contracts /\ <<z, "monthly">> \in Contracts
  BY DEF Contracts, Expiries
<1>4. HedgeHeld = a + b
  <2>1. HedgeCells(s, n, a)[LegA] = a /\ HedgeCells(s, 0, b)[LegA] = b
    BY Shares DEF HedgeCells
  <2>2. QED
    BY <1>2, <2>1 DEF HedgeHeld, Net
<1>5. ASSUME NEW z \in Strikes
      PROVE  NetAtStrike(z) = IF z = s THEN n ELSE 0
  <2>1. HedgeCells(s, n, a)[<<z, "weekly">>] = 0 /\ HedgeCells(s, 0, b)[<<z, "weekly">>] = 0
    BY <1>3, Shares DEF HedgeCells
  <2>2. /\ HedgeCells(s, n, a)[<<z, "monthly">>] = IF z = s THEN n ELSE 0
        /\ HedgeCells(s, 0, b)[<<z, "monthly">>] = 0
    BY <1>3, Shares DEF HedgeCells
  <2>3. QED
    BY <1>2, <2>1, <2>2 DEF NetAtStrike, Net
<1>6. OpenStrikes = IF n = 0 THEN {} ELSE {s}
  BY <1>5 DEF OpenStrikes
<1>7. ASSUME n # 0 PROVE ExpiryOf(s) = "monthly"
  <2>1. HedgeCells(s, n, a)[<<s, "monthly">>] = n
    BY <1>3 DEF HedgeCells
  <2>2. QED
    BY <1>1, <1>2, <1>7, <2>1 DEF ExpiryOf
<1>8. QED
  BY <1>4, <1>5, <1>6, <1>7

LEMMA HedgeFill ==
  ASSUME NEW s, NEW d \in Int, NEW e \in Int
  PROVE  Adding(NothingHeld, LegA, d, e) = HedgeOf(s, 0, d, e)
<1>1. \A x \in Accounts : \A c \in Contracts : NothingHeld[x][c] = 0
  BY DEF NothingHeld, Flat
<1>2. ASSUME NEW x \in Accounts PROVE Adding(NothingHeld, LegA, d, e)[x] = HedgeOf(s, 0, d, e)[x]
  <2>1. Adding(NothingHeld, LegA, d, e)[x] = [k \in Contracts |->
          IF k # LegA THEN 0 ELSE IF x = "primary" THEN d ELSE e]
    BY <1>1 DEF Adding
  <2>2. CASE x = "primary"
    <3>1. HedgeOf(s, 0, d, e)[x] = [k \in Contracts |-> IF k # LegA THEN 0 ELSE d]
      BY <2>2, Shares DEF HedgeOf, HedgeCells
    <3>2. QED
      BY <2>1, <2>2, <3>1
  <2>3. CASE x # "primary"
    <3>1. HedgeOf(s, 0, d, e)[x] = [k \in Contracts |-> IF k # LegA THEN 0 ELSE e]
      BY <2>3, Shares DEF HedgeOf, HedgeCells
    <3>2. QED
      BY <2>1, <2>3, <3>1
  <2>4. QED
    BY <2>2, <2>3
<1>3. /\ Adding(NothingHeld, LegA, d, e) = [x \in Accounts |-> Adding(NothingHeld, LegA, d, e)[x]]
      /\ HedgeOf(s, 0, d, e) = [x \in Accounts |-> HedgeOf(s, 0, d, e)[x]]
  BY DEF Adding, HedgeOf
<1>4. QED
  BY <1>2, <1>3

LEMMA HedgeBook ==
  ASSUME NEW s, NEW n \in Int, NEW a \in Int, NEW b \in Int, NEW m \in Int
  PROVE  Booking(HedgeOf(s, n, a, b), <<s, "monthly">>, m) = HedgeOf(s, n + m, a, b)
<1> DEFINE B == Booking(HedgeOf(s, n, a, b), <<s, "monthly">>, m)
<1>1. ASSUME NEW x \in Accounts PROVE B[x] = HedgeOf(s, n + m, a, b)[x]
  <2>1. B[x] = [k \in Contracts |-> IF x = "primary" /\ k = <<s, "monthly">>
                  THEN HedgeOf(s, n, a, b)[x][k] + m ELSE HedgeOf(s, n, a, b)[x][k]]
    BY DEF Booking
  <2>2. CASE x = "primary"
    <3>1. B[x] = [k \in Contracts |-> IF k = <<s, "monthly">>
                    THEN HedgeCells(s, n, a)[k] + m ELSE HedgeCells(s, n, a)[k]]
      BY <2>1, <2>2 DEF HedgeOf
    <3>2. HedgeOf(s, n + m, a, b)[x] = HedgeCells(s, n + m, a)
      BY <2>2 DEF HedgeOf
    <3>3. QED
      BY <3>1, <3>2 DEF HedgeCells
  <2>3. CASE x # "primary"
    <3>1. B[x] = [k \in Contracts |-> HedgeCells(s, 0, b)[k]]
      BY <2>1, <2>3 DEF HedgeOf
    <3>2. HedgeOf(s, n + m, a, b)[x] = HedgeCells(s, 0, b)
      BY <2>3 DEF HedgeOf
    <3>3. QED
      BY <3>1, <3>2 DEF HedgeCells
  <2>4. QED
    BY <2>2, <2>3
<1>2. /\ B = [x \in Accounts |-> B[x]]
      /\ HedgeOf(s, n + m, a, b) = [x \in Accounts |-> HedgeOf(s, n + m, a, b)[x]]
  BY DEF Booking, HedgeOf
<1>3. QED
  <2> HIDE DEF B
  <2>1. B = HedgeOf(s, n + m, a, b)
    BY <1>1, <1>2
  <2>2. QED
    BY <2>1 DEF B

LEMMA HedgedIdle ==
  ASSUME NEW s, NEW n, NEW a, NEW b, Hedging(s, n, a, b), session["tick"].at = "idle"
  PROVE  session = AllIdle /\ Balanced(n, a, b)
<1>1. "tick" \in Runners
  BY DEF Runners
<1>2. ASSUME NEW todo, NEW fills, session = Busy("tick", todo, fills) PROVE FALSE
  <2>1. Busy("tick", todo, fills)["tick"] = [at |-> "submitting", todo |-> todo, fills |-> fills]
    BY <1>1, BusySessions
  <2>2. session["tick"].at = "submitting"
    BY <1>2, <2>1
  <2>3. QED
    BY <2>2
<1>3. QED
  BY <1>2 DEF Hedging

LEMMA BalancedKept ==
  ASSUME NEW n, NEW a, NEW b, cloning' = cloning
  PROVE  Balanced(n, a, b)' <=> Balanced(n, a, b)
  BY DEF Balanced

LEMMA EnteringHedged ==
  ASSUME StrategyAssumption, kind = "hedged", HedgedInv, EnterOptions
  PROVE  HedgedInv'
<1>1. PICK s \in Strikes, n \in Int, a \in Int, b \in Int : held = HedgeOf(s, n, a, b) /\ Hedging(s, n, a, b)
  BY DEF HedgedInv
<1>2. PICK z \in Strikes : Begin("tick", HedgedEntry(z))
  BY DEF EnterOptions, OptionEntry
<1>3. session = AllIdle /\ Balanced(n, a, b)
  BY <1>1, <1>2, HedgedIdle DEF Begin
<1>4. n = 0
  <2>1. OpenStrikes = {}
    BY DEF EnterOptions, IsOpen, OptionKinds
  <2>2. QED
    BY <1>1, <2>1, HedgeNets
<1>5. held = HedgeOf(z, 0, 0, 0)
  <2>1. a = 0 /\ b = 0
    BY <1>3, <1>4 DEF Balanced
  <2>2. held = NothingHeld
    BY <1>1, <1>4, <2>1, HedgeTyped
  <2>3. QED
    BY <2>2, HedgeTyped
<1>6. session' = Busy("tick", HedgedEntry(z), NothingHeld)
  BY <1>2, <1>3, Begun DEF Runners
<1>7. Balanced(0, 0, 0)'
  BY DEF Balanced
<1>8. held' = HedgeOf(z, 0, 0, 0)
  BY <1>5 DEF EnterOptions
<1>9. Hedging(z, 0, 0, 0)'
  BY <1>6, <1>7 DEF Hedging, HedgedEntry, Leg, NothingHeld, Flat, Busy, AllIdle, IdleSession
<1>10. QED
  BY <1>8, <1>9 DEF HedgedInv, HedgeOf, HedgeCells

LEMMA ExitingHedged ==
  ASSUME StrategyAssumption, kind = "hedged", HedgedInv, strain' = {}, ExitOptions
  PROVE  HedgedInv'
<1>1. PICK s \in Strikes, n \in Int, a \in Int, b \in Int : held = HedgeOf(s, n, a, b) /\ Hedging(s, n, a, b)
  BY DEF HedgedInv
<1>2. PICK order \in TradedOrders : Begin("tick", OptionExit(order))
  BY DEF ExitOptions
<1>3. session = AllIdle /\ Balanced(n, a, b)
  BY <1>1, <1>2, HedgedIdle DEF Begin
<1>4. ~cloning
  BY DEF ExitOptions
<1>5. n # 0 /\ OpenStrikes = {s} /\ ExpiryOf(s) = "monthly" /\ NetAtStrike(s) = n /\ HedgeHeld = a
  <2>1. OpenStrikes # {}
    BY DEF ExitOptions, IsOpen, OptionKinds
  <2>2. b = 0
    BY <1>3, <1>4 DEF Balanced
  <2>3. QED
    BY <1>1, <2>1, <2>2, HedgeNets
<1> DEFINE x == Leg(<<s, "monthly">>, -n)
           legs == [i \in DOMAIN order |-> Leg(<<order[i], ExpiryOf(order[i])>>, -NetAtStrike(order[i]))]
<1>6. legs = <<x>>
  <2>1. order \in [1 .. 1 -> {s}]
    BY <1>5, FS_Singleton DEF TradedOrders, Injection
  <2>2. DOMAIN order = 1 .. 1 /\ order[1] = s
    BY <2>1
  <2>3. legs = [i \in 1 .. 1 |-> x]
    BY <1>5, <2>1, <2>2
  <2> HIDE DEF x, legs
  <2>4. [i \in 1 .. 1 |-> x] = <<x>>
    OBVIOUS
  <2>5. QED
    BY <2>3, <2>4
<1>7. OptionExit(order) = HedgedExit(s, n, a)
  <2>1. HedgeExit = IF a > 0 THEN <<Leg(LegA, -a)>> ELSE <<>>
    BY <1>5 DEF HedgeExit
  <2>2. OptionExit(order) = <<x>> \o HedgeExit
    BY <1>6 DEF OptionExit
  <2> HIDE DEF x
  <2>3. <<x>> \o <<>> = <<x>>
    <3>1. <<x>> \in Seq({x})
      OBVIOUS
    <3>2. QED
      BY <3>1, ConcatEmptySeq
  <2>4. <<x>> \o <<Leg(LegA, -a)>> = <<x, Leg(LegA, -a)>>
    BY Joined
  <2>5. QED
    BY <2>1, <2>2, <2>3, <2>4 DEF HedgedExit, x
<1>8. session' = Busy("tick", HedgedExit(s, n, a), NothingHeld)
  BY <1>2, <1>3, <1>7, Begun DEF Runners
<1>9. cloning' = cloning /\ held' = held
  BY DEF ExitOptions
<1>10. Hedging(s, n, a, b)'
  BY <1>3, <1>4, <1>5, <1>8, <1>9, BalancedKept
     DEF Hedging, HedgedExit, Leg, NothingHeld, Flat, Busy, AllIdle, IdleSession
<1>11. QED
  BY <1>1, <1>9, <1>10 DEF HedgedInv, HedgeOf, HedgeCells

LEMMA RebalancingHedged ==
  ASSUME StrategyAssumption, kind = "hedged", HedgedInv, strain' = {}, Rebalance
  PROVE  HedgedInv'
<1>1. PICK s \in Strikes, n \in Int, a \in Int, b \in Int : held = HedgeOf(s, n, a, b) /\ Hedging(s, n, a, b)
  BY DEF HedgedInv
<1>2. PICK delta \in Deltas : Begin("tick", <<Leg(LegA, -delta - HedgeHeld)>>)
  BY DEF Rebalance
<1>3. session = AllIdle /\ Balanced(n, a, b)
  BY <1>1, <1>2, HedgedIdle DEF Begin
<1>4. ~cloning
  BY DEF Rebalance
<1>5. n # 0 /\ b = 0 /\ HedgeHeld = a
  <2>1. OpenStrikes # {}
    BY DEF Rebalance, IsOpen, OptionKinds
  <2>2. b = 0
    BY <1>3, <1>4 DEF Balanced
  <2>3. QED
    BY <1>1, <2>1, <2>2, HedgeNets
<1>6. PICK d \in Int : d = -delta - a /\ a + d \in Nat
  <2>1. delta \in Int /\ delta <= 0
    BY DEF Deltas, StrategyAssumption
  <2>2. -delta - a \in Int /\ a + (-delta - a) \in Nat
    BY <2>1
  <2>3. QED
    BY <2>2
<1>7. session' = Busy("tick", <<Leg(LegA, d)>>, NothingHeld)
  BY <1>2, <1>3, <1>5, <1>6, Begun DEF Runners
<1>8. cloning' = cloning /\ held' = held
  BY DEF Rebalance
<1>9. Balanced(n, a + d, 0)
  BY <1>3, <1>5, <1>6 DEF Balanced
<1>12. Balanced(n, a + d, IF cloning THEN b + d ELSE 0)'
  BY <1>4, <1>8, <1>9 DEF Balanced
<1>10. Hedging(s, n, a, b)'
  BY <1>5, <1>7, <1>12 DEF Hedging, Leg, NothingHeld, Flat, Busy, AllIdle, IdleSession
<1>11. QED
  BY <1>1, <1>8, <1>10 DEF HedgedInv, HedgeOf, HedgeCells

\* What the session at work has still to do.
LEMMA BusyReads ==
  ASSUME NEW t \in Runners, NEW todo, NEW fills, session = Busy(t, todo, fills)
  PROVE  session[t].at = "submitting" /\ session[t].todo = todo /\ session[t].fills = fills
<1>1. Busy(t, todo, fills)[t] = [at |-> "submitting", todo |-> todo, fills |-> fills]
  BY BusySessions
<1>2. QED
  BY <1>1

LEMMA OptionSubmitted ==
  ASSUME NEW t \in Runners, NEW todo, session = Busy(t, todo, NothingHeld),
         held \in [Accounts -> [Contracts -> Int]], NEW c, NEW m \in Int,
         Head(todo) = Leg(c, m), SubmitOption(t)
  PROVE  /\ held' = Booking(held, c, m)
         /\ session' = Busy(t, Tail(todo), NothingHeld)
<1>1. session[t].todo = todo /\ session[t].fills = NothingHeld
  BY BusyReads
<1>2. Leg(c, m).contract = c /\ Leg(c, m).qty = m
  BY DEF Leg
<1>3. held' = BookedIn(held, c, m)
  BY <1>1, <1>2, PlusNothing DEF SubmitOption, BookedIn
<1>4. session' = Moved(session, t, Tail(todo), NothingHeld)
  BY <1>1 DEF SubmitOption, Moved
<1>5. QED
  BY <1>3, <1>4, OptionBooked, BusyMoves

LEMMA LegLeft ==
  ASSUME NEW s, NEW n \in Int, NEW a \in Int, NEW b \in Int, NEW d \in Int,
         session' = Busy("tick", <<Leg(LegA, d)>>, NothingHeld),
         Balanced(n, a + d, IF cloning THEN b + d ELSE 0)', ~cloning' => b = 0
  PROVE  Hedging(s, n, a, b)'
  BY DEF Hedging, Leg, NothingHeld, Flat, Busy, AllIdle, IdleSession

LEMMA NoLegLeft ==
  ASSUME NEW s, NEW n \in Int, NEW a \in Int, NEW b \in Int, NEW d \in Int, NEW e \in Int,
         session' = Busy("tick", <<>>, HedgeOf(s, 0, d, e)), Balanced(n, a + d, b + e)'
  PROVE  Hedging(s, n, a, b)'
  BY DEF Hedging, HedgeOf, HedgeCells, Busy, AllIdle, IdleSession

LEMMA BookingHedged ==
  ASSUME StrategyAssumption, HedgedInv, NEW u \in Runners, SubmitOption(u)
  PROVE  HedgedInv'
<1>1. PICK s \in Strikes, n \in Int, a \in Int, b \in Int : held = HedgeOf(s, n, a, b) /\ Hedging(s, n, a, b)
  BY DEF HedgedInv
<1>2. session[u].todo # <<>> /\ IsOption(Head(session[u].todo).contract)
  BY DEF SubmitOption
<1>3. "tick" \in Runners
  BY DEF Runners
<1>4. u = "tick"
  <2>1. session # AllIdle
    BY <1>2, NobodyWorks
  <2>2. PICK todo, fills : session = Busy("tick", todo, fills)
    BY <1>1, <2>1 DEF Hedging
  <2>3. QED
    BY <1>2, <1>3, <2>2, OneWorks
<1>5. held \in [Accounts -> [Contracts -> Int]]
  BY <1>1, HedgeTyped
<1>6. cloning' = cloning
  BY DEF SubmitOption
<1>7. CASE session = AllIdle
  BY <1>2, <1>7, NobodyWorks
<1>8. CASE /\ session = Busy("tick", HedgedEntry(s), NothingHeld)
           /\ n = 0 /\ Balanced(n, a, b)
  <2>1. a = 0 /\ b = 0 /\ Qty \in Nat \ {0} /\ -Qty \in Int
    BY <1>8 DEF Balanced, StrategyAssumption
  <2>2. Head(HedgedEntry(s)) = Leg(<<s, "monthly">>, -Qty) /\ Tail(HedgedEntry(s)) = <<Leg(LegA, Qty)>>
    BY DEF HedgedEntry
  <2>3. /\ held' = Booking(held, <<s, "monthly">>, -Qty)
        /\ session' = Busy("tick", <<Leg(LegA, Qty)>>, NothingHeld)
    BY <1>3, <1>4, <1>5, <1>8, <2>1, <2>2, OptionSubmitted
  <2>4. held' = HedgeOf(s, -Qty, 0, 0)
    <3>1. held = HedgeOf(s, 0, 0, 0) /\ 0 + -Qty = -Qty
      BY <1>1, <1>8, <2>1
    <3>2. QED
      BY <2>1, <2>3, <3>1, HedgeBook
  <2>5. Balanced(-Qty, 0 + Qty, IF cloning THEN 0 + Qty ELSE 0)'
    BY <2>1 DEF Balanced
  <2>6. Hedging(s, -Qty, 0, 0)'
    <3>1. Qty \in Int
      BY <2>1
    <3>2. QED
      BY <2>1, <2>3, <2>5, <3>1, LegLeft
  <2>7. QED
    BY <2>1, <2>4, <2>6 DEF HedgedInv, HedgeOf, HedgeCells
<1>9. CASE /\ session = Busy("tick", HedgedExit(s, n, a), NothingHeld)
           /\ n # 0 /\ Balanced(n, a, b) /\ ~cloning
  <2>1. a \in Nat /\ b = 0 /\ -n \in Int
    BY <1>9 DEF Balanced
  <2>2. /\ Head(HedgedExit(s, n, a)) = Leg(<<s, "monthly">>, -n)
        /\ Tail(HedgedExit(s, n, a)) = IF a > 0 THEN <<Leg(LegA, -a)>> ELSE <<>>
    BY DEF HedgedExit
  <2>3. /\ held' = Booking(held, <<s, "monthly">>, -n)
        /\ session' = Busy("tick", Tail(HedgedExit(s, n, a)), NothingHeld)
    BY <1>3, <1>4, <1>5, <1>9, <2>1, <2>2, OptionSubmitted
  <2>4. held' = HedgeOf(s, 0, a, 0)
    <3>1. n + -n = 0
      OBVIOUS
    <3>2. QED
      BY <1>1, <2>1, <2>3, <3>1, HedgeBook
  <2>5. Hedging(s, 0, a, 0)'
    <3>1. CASE a > 0
      <4>1. session' = Busy("tick", <<Leg(LegA, -a)>>, NothingHeld)
        BY <2>2, <2>3, <3>1
      <4>2. Balanced(0, a + -a, IF cloning THEN 0 + -a ELSE 0)'
        BY <1>6, <1>9, <2>1 DEF Balanced
      <4>3. -a \in Int
        BY <2>1
      <4>4. QED
        BY <4>1, <4>2, <4>3, LegLeft
    <3>2. CASE a = 0
      <4>1. session' = Busy("tick", <<>>, HedgeOf(s, 0, 0, 0))
        <5>1. HedgeOf(s, 0, 0, 0) = NothingHeld
          BY HedgeTyped
        <5>2. Tail(HedgedExit(s, n, a)) = <<>>
          BY <2>2, <3>2
        <5>3. QED
          BY <2>3, <5>1, <5>2
      <4>2. Balanced(0, a + 0, 0 + 0)'
        BY <3>2 DEF Balanced
      <4>3. QED
        BY <2>1, <4>1, <4>2, NoLegLeft
    <3>3. QED
      BY <2>1, <3>1, <3>2
  <2>6. QED
    BY <2>1, <2>4, <2>5 DEF HedgedInv, HedgeOf, HedgeCells
<1>10. ASSUME NEW d \in Int, session = Busy("tick", <<Leg(LegA, d)>>, NothingHeld) PROVE FALSE
  <2>1. session["tick"].todo = <<Leg(LegA, d)>>
    BY <1>3, <1>10, BusyReads
  <2>2. Head(<<Leg(LegA, d)>>) = Leg(LegA, d)
    OBVIOUS
  <2>3. QED
    BY <1>2, <1>4, <2>1, <2>2, Shares DEF Leg
<1>11. ASSUME NEW fills, session = Busy("tick", <<>>, fills) PROVE FALSE
  BY <1>2, <1>3, <1>4, <1>11, BusyReads
<1>12. QED
  BY <1>1, <1>7, <1>8, <1>9, <1>10, <1>11 DEF Hedging

LEMMA FillingHedged ==
  ASSUME HedgedInv, strain' = {}, NEW u \in Runners, SubmitEquity(u)
  PROVE  HedgedInv'
<1>1. PICK s \in Strikes, n \in Int, a \in Int, b \in Int : held = HedgeOf(s, n, a, b) /\ Hedging(s, n, a, b)
  BY DEF HedgedInv
<1>2. session[u].todo # <<>> /\ ~IsOption(Head(session[u].todo).contract)
  BY DEF SubmitEquity
<1>3. "tick" \in Runners
  BY DEF Runners
<1>4. u = "tick"
  <2>1. session # AllIdle
    BY <1>2, NobodyWorks
  <2>2. PICK todo, fills : session = Busy("tick", todo, fills)
    BY <1>1, <2>1 DEF Hedging
  <2>3. QED
    BY <1>2, <1>3, <2>2, OneWorks
<1>5. held' = held /\ cloning' = cloning
  BY DEF SubmitEquity
<1>6. CASE session = AllIdle
  BY <1>2, <1>6, NobodyWorks
<1>7. ASSUME session = Busy("tick", HedgedEntry(s), NothingHeld)
              \/ session = Busy("tick", HedgedExit(s, n, a), NothingHeld)
      PROVE  FALSE
  <2>1. session["tick"].todo \in {HedgedEntry(s), HedgedExit(s, n, a)}
    BY <1>3, <1>7, BusyReads
  <2>2. /\ Head(HedgedEntry(s)).contract = <<s, "monthly">>
        /\ Head(HedgedExit(s, n, a)).contract = <<s, "monthly">>
    BY DEF HedgedEntry, HedgedExit, Leg
  <2>3. QED
    BY <1>2, <1>4, <2>1, <2>2, Shares
<1>8. ASSUME NEW d \in Int, session = Busy("tick", <<Leg(LegA, d)>>, NothingHeld),
             Balanced(n, a + d, IF cloning THEN b + d ELSE 0), ~cloning => b = 0
      PROVE  HedgedInv'
  <2> DEFINE e == IF cloning THEN d ELSE 0
  <2>1. NothingHeld \in [Accounts -> [Contracts -> Int]]
    BY HedgeTyped
  <2>2. Head(<<Leg(LegA, d)>>) = Leg(LegA, d) /\ Tail(<<Leg(LegA, d)>>) = <<>>
    OBVIOUS
  <2>3. session' = Busy("tick", <<>>, Adding(NothingHeld, LegA, d, IF cloning THEN d ELSE 0))
    <3>1. PICK todo : todo = <<Leg(LegA, d)>>
      OBVIOUS
    <3>2. session = Busy("tick", todo, NothingHeld) /\ Head(todo) = Leg(LegA, d) /\ Tail(todo) = <<>>
      BY <1>8, <2>2, <3>1
    <3>3. SubmitEquity("tick") /\ LegA \in Contracts /\ d \in Int
      BY <1>4, <1>8, Shares
    <3>4. session' = Busy("tick", Tail(todo), Adding(NothingHeld, LegA, d, IF cloning THEN d ELSE 0))
      BY <1>3, <2>1, <3>2, <3>3, EquityFilled
    <3>5. QED
      BY <3>2, <3>4
  <2>4. PICK m \in Int : m = IF cloning THEN d ELSE 0
    OBVIOUS
  <2>5. session' = Busy("tick", <<>>, HedgeOf(s, 0, d, m))
    BY <2>3, <2>4, HedgeFill
  <2>6. b + m = IF cloning THEN b + d ELSE 0
    BY <1>8, <2>4
  <2>7. Balanced(n, a + d, b + m)'
    BY <1>5, <1>8, <2>6, BalancedKept
  <2>8. Hedging(s, n, a, b)'
    BY <2>5, <2>7, NoLegLeft
  <2>9. QED
    BY <1>1, <1>5, <2>8 DEF HedgedInv, HedgeOf, HedgeCells
<1>9. ASSUME NEW fills, session = Busy("tick", <<>>, fills) PROVE FALSE
  BY <1>2, <1>3, <1>4, <1>9, BusyReads
<1>10. QED
  BY <1>1, <1>6, <1>7, <1>8, <1>9 DEF Hedging

LEMMA CommittingHedged ==
  ASSUME StrategyAssumption, HedgedInv, NEW u \in Runners, CommitSession(u)
  PROVE  HedgedInv'
<1>1. PICK s \in Strikes, n \in Int, a \in Int, b \in Int : held = HedgeOf(s, n, a, b) /\ Hedging(s, n, a, b)
  BY DEF HedgedInv
<1>2. session[u].at = "submitting" /\ session[u].todo = <<>>
  BY DEF CommitSession
<1>3. "tick" \in Runners
  BY DEF Runners
<1>4. session # AllIdle
  BY <1>2, NobodyWorks
<1>5. u = "tick"
  <2>1. PICK todo, fills : session = Busy("tick", todo, fills)
    BY <1>1, <1>4 DEF Hedging
  <2>2. QED
    BY <1>2, <1>3, <2>1, OneWorks
<1>6. ASSUME NEW todo, todo # <<>>, session = Busy("tick", todo, NothingHeld) PROVE FALSE
  BY <1>2, <1>3, <1>5, <1>6, BusyReads
<1>7. /\ HedgedEntry(s) # <<>> /\ HedgedExit(s, n, a) # <<>>
      /\ \A d : <<Leg(LegA, d)>> # <<>>
  BY DEF HedgedEntry, HedgedExit
<1>8. PICK d \in Int, e \in Int :
        session = Busy("tick", <<>>, HedgeOf(s, 0, d, e)) /\ Balanced(n, a + d, b + e)
  BY <1>1, <1>4, <1>6, <1>7 DEF Hedging
<1>9. held' = HedgeOf(s, n, a + d, b + e)
  <2>1. session["tick"].fills = HedgeOf(s, 0, d, e)
    BY <1>3, <1>8, BusyReads
  <2>2. held' = Plus(HedgeOf(s, n, a, b), HedgeOf(s, 0, d, e))
    BY <1>1, <1>5, <2>1 DEF CommitSession
  <2>3. QED
    BY <2>2, HedgePlus
<1>10. session' = AllIdle'
  BY <1>3, <1>5, <1>8, BusyEnds DEF CommitSession
<1>11. Balanced(n, a + d, b + e)'
  BY <1>8, BalancedKept DEF CommitSession
<1>12. Hedging(s, n, a + d, b + e)'
  BY <1>10, <1>11 DEF Hedging
<1>13. a + d \in Int /\ b + e \in Int
  OBVIOUS
<1>14. QED
  BY <1>9, <1>12, <1>13 DEF HedgedInv, HedgeOf, HedgeCells

LEMMA CloningHedged ==
  ASSUME StrategyAssumption, HedgedInv, strain' = {}, AddSub
  PROVE  HedgedInv'
<1>1. PICK s \in Strikes, n \in Int, a \in Int, b \in Int : held = HedgeOf(s, n, a, b) /\ Hedging(s, n, a, b)
  BY DEF HedgedInv
<1>2. held = NothingHeld /\ \A t \in Runners : session[t].at = "idle"
  BY DEF AddSub
<1>3. session' = AllIdle'
  <2>1. session["tick"].at = "idle"
    BY <1>2 DEF Runners
  <2>2. session = AllIdle
    BY <1>1, <2>1, HedgedIdle
  <2>3. QED
    BY <2>2 DEF AddSub, AllIdle, IdleSession
<1>4. held' = HedgeOf(s, 0, 0, 0)
  BY <1>2, HedgeTyped DEF AddSub
<1>5. Balanced(0, 0, 0)'
  BY DEF Balanced
<1>6. Hedging(s, 0, 0, 0)'
  BY <1>3, <1>5 DEF Hedging
<1>7. QED
  BY <1>4, <1>6 DEF HedgedInv, HedgeOf, HedgeCells

LEMMA HedgedStep ==
  ASSUME StrategyAssumption, kind = "hedged", HedgedInv, strain' = {}, StrategyNext
  PROVE  HedgedInv'
<1>1. CASE EnterOptions \/ ExitOptions \/ Rebalance \/ AddSub
  BY <1>1, EnteringHedged, ExitingHedged, RebalancingHedged, CloningHedged
<1>2. CASE EnterSpread \/ EnterBasket \/ ExitSpread \/ ForceClose
  BY <1>2 DEF EnterSpread, EnterBasket, ExitSpread, ForceClose, OptionKinds
<1>3. ASSUME NEW t \in Runners, SubmitEquity(t) \/ SubmitOption(t) \/ CommitSession(t)
      PROVE  HedgedInv'
  BY <1>3, FillingHedged, BookingHedged, CommittingHedged
<1>4. ASSUME NEW t \in Runners, RollBack(t) PROVE FALSE
  <2>1. "torn" \in strain'
    BY <1>4 DEF RollBack
  <2>2. QED
    BY <2>1
<1>5. QED
  BY <1>1, <1>2, <1>3, <1>4 DEF StrategyNext

-------------------------------------------------------------------------------
(* Every strategy                                                             *)

LEMMA CalendarStep ==
  ASSUME kind = "calendar", Untouched, strain' = {}, StrategyNext
  PROVE  Untouched'
<1>1. CASE EnterOptions
  <2>1. "expiries" \in strain'
    BY <1>1 DEF EnterOptions
  <2>2. QED
    BY <2>1
<1>2. CASE ExitOptions
  <2>1. \A c \in Contracts : Net(c) = 0
    BY DEF Net, Untouched, NothingHeld, Flat, Accounts
  <2>2. \A s \in Strikes : <<s, "weekly">> \in Contracts /\ <<s, "monthly">> \in Contracts
    BY DEF Contracts, Expiries
  <2>3. OpenStrikes = {}
    BY <2>1, <2>2 DEF OpenStrikes, NetAtStrike
  <2>4. QED
    BY <1>2, <2>3 DEF ExitOptions, IsOpen
<1>3. CASE EnterSpread \/ EnterBasket \/ ExitSpread \/ Rebalance \/ ForceClose
  BY <1>3 DEF EnterSpread, EnterBasket, ExitSpread, Rebalance, ForceClose, OptionKinds
<1>4. CASE AddSub
  BY <1>4 DEF AddSub, Untouched, NothingHeld, Flat, AllIdle, IdleSession
<1>5. ASSUME NEW t \in Runners,
             SubmitEquity(t) \/ SubmitOption(t) \/ CommitSession(t) \/ RollBack(t)
      PROVE  FALSE
  <2>1. session[t].at # "submitting" /\ session[t].todo = <<>>
    BY NobodyWorks DEF Untouched
  <2>2. QED
    BY <1>5, <2>1 DEF SubmitEquity, SubmitOption, CommitSession, RollBack
<1>6. QED
  BY <1>1, <1>2, <1>3, <1>4, <1>5 DEF StrategyNext

LEMMA FlatStarts ==
  ASSUME StrategyAssumption, StrategyInit
  PROVE  FlatInv
<1>1. held = NothingHeld /\ session = AllIdle /\ cloning = FALSE
  BY DEF StrategyInit, AllIdle
<1>2. SpreadInv
  <2>1. held = SpreadOf(0, 0) /\ Whole(0, 0)
    BY <1>1, SpreadTyped DEF Whole
  <2>2. QED
    BY <1>1, <2>1 DEF SpreadInv
<1>3. Untouched
  BY <1>1 DEF Untouched
<1>4. WeeklyInv
  <2>1. held \in [Accounts -> [Contracts -> Int]] /\ \A x \in Accounts : \A c \in Contracts : held[x][c] = 0
    BY <1>1 DEF NothingHeld, Flat
  <2>2. IdleSession \in Weeklies
    BY DEF IdleSession, Weeklies
  <2>3. session \in [Runners -> Weeklies]
    BY <1>1, <2>2 DEF AllIdle
  <2>4. QED
    BY <2>1, <2>3 DEF WeeklyInv, Weeklies
<1>5. HedgedInv
  <2>1. PICK s \in Strikes : TRUE
    BY DEF StrategyAssumption
  <2>2. held = HedgeOf(s, 0, 0, 0)
    BY <1>1, HedgeTyped
  <2>3. Balanced(0, 0, 0)
    BY DEF Balanced
  <2>4. Hedging(s, 0, 0, 0)
    BY <1>1, <2>3 DEF Hedging
  <2>5. QED
    BY <2>2, <2>4 DEF HedgedInv
<1>6. QED
  BY <1>2, <1>3, <1>4, <1>5 DEF FlatInv

\* What strained a strategy stays on record.
LEMMA StrainStays ==
  ASSUME StrategyNext
  PROVE  kind' = kind /\ strain \subseteq strain'
<1>1. CASE EnterSpread \/ EnterBasket
  BY <1>1 DEF EnterSpread, EnterBasket, OpenSpread
<1>2. CASE ExitSpread \/ EnterOptions \/ ExitOptions \/ Rebalance \/ ForceClose
  BY <1>2 DEF ExitSpread, EnterOptions, ExitOptions, Rebalance, ForceClose
<1>3. CASE AddSub
  BY <1>3 DEF AddSub
<1>4. ASSUME NEW t \in Runners,
             SubmitEquity(t) \/ SubmitOption(t) \/ CommitSession(t) \/ RollBack(t)
      PROVE  kind' = kind /\ strain \subseteq strain'
  BY <1>4 DEF SubmitEquity, SubmitOption, CommitSession, RollBack
<1>5. QED
  BY <1>1, <1>2, <1>3, <1>4 DEF StrategyNext

LEMMA FlatStep ==
  ASSUME StrategyAssumption, FlatInv, [StrategyNext]_strategyVars
  PROVE  FlatInv'
<1>1. CASE StrategyNext
  <2>1. SUFFICES ASSUME strain' = {} PROVE
          /\ kind \notin OptionKinds => SpreadInv'
          /\ kind = "calendar" => Untouched'
          /\ kind \in {"strangle", "condor"} => WeeklyInv'
          /\ kind = "hedged" => HedgedInv'
    BY <1>1, StrainStays DEF FlatInv, OptionKinds
  <2>2. strain = {}
    BY <1>1, <2>1, StrainStays
  <2>3. QED
    BY <1>1, <2>1, <2>2, SpreadStep, CalendarStep, WeeklyStep, HedgedStep DEF FlatInv
<1>2. CASE UNCHANGED strategyVars
  <2>1. /\ kind' = kind /\ held' = held /\ cloning' = cloning /\ session' = session
        /\ hedgedBy' = hedgedBy /\ strain' = strain
    BY <1>2 DEF strategyVars
  <2>2. SpreadInv => SpreadInv'
    <3>1. SUFFICES ASSUME NEW q \in Int, NEW h \in Int, held = SpreadOf(q, h), Whole(q, h), Working(q, h)
                   PROVE  SpreadInv'
      BY DEF SpreadInv, Working
    <3>2. held' = SpreadOf(q, h)' /\ Whole(q, h)'
      BY <2>1, <3>1, SpreadKept DEF Whole
    <3>3. \A t \in Runners : \A a, b \in Int :
            Spreading(t, a, b) /\ Whole(q + a, h + b) => Spreading(t, a, b)' /\ Whole(q + a, h + b)'
      <4>1. \A x, y : SpreadOf(x, y)' = SpreadOf(x, y)
        BY <2>1 DEF SpreadOf
      <4>2. \A x, y : Whole(x, y) => Whole(x, y)'
        BY <2>1 DEF Whole
      <4>3. QED
        BY <2>1, <4>1, <4>2 DEF Spreading
    <3>4. session = AllIdle => session' = AllIdle'
      BY <2>1 DEF AllIdle, IdleSession
    <3>5. QED
      BY <3>1, <3>2, <3>3, <3>4 DEF SpreadInv, Working
  <2>3. Untouched => Untouched'
    BY <2>1 DEF Untouched, AllIdle, IdleSession, NothingHeld, Flat
  <2>4. WeeklyInv => WeeklyInv'
    BY <2>1 DEF WeeklyInv, Weekly, Wing, NothingHeld, Flat
  <2>5. HedgedInv => HedgedInv'
    <3>1. SUFFICES ASSUME NEW s \in Strikes, NEW n \in Int, NEW a \in Int, NEW b \in Int,
                          held = HedgeOf(s, n, a, b), Hedging(s, n, a, b)
                   PROVE  HedgedInv'
      BY DEF HedgedInv
    <3>2. held' = HedgeOf(s, n, a, b)'
      BY <2>1, <3>1 DEF HedgeOf, HedgeCells
    <3>3. Hedging(s, n, a, b)'
      BY <2>1, <3>1 DEF Hedging, Balanced, HedgeOf, HedgeCells, HedgedEntry, HedgedExit, Leg,
         Busy, AllIdle, IdleSession, NothingHeld, Flat
    <3>4. QED
      BY <3>2, <3>3 DEF HedgedInv
  <2>6. QED
    BY <2>1, <2>2, <2>3, <2>4, <2>5 DEF FlatInv, OptionKinds
<1>3. QED
  BY <1>1, <1>2

LEMMA WholeOrNone ==
  ASSUME FlatInv, strain = {}, AtRest, ~IsOpen
  PROVE  held = NothingHeld
<1>1. "tick" \in Runners
  BY DEF Runners
<1>2. CASE kind \notin OptionKinds
  <2>1. PICK q \in Int, h \in Int : held = SpreadOf(q, h) /\ Whole(q, h)
    BY <1>2 DEF FlatInv, SpreadInv
  <2>2. Net(LegA) = 0
    BY <1>2 DEF IsOpen, SpreadHeld
  <2>3. q = 0 /\ h = 0
    BY <2>1, <2>2, SpreadNet DEF Whole
  <2>4. QED
    BY <2>1, <2>3, SpreadTyped
<1>3. CASE kind = "calendar"
  BY <1>3 DEF FlatInv, Untouched
<1>4. CASE kind \in {"strangle", "condor"}
  <2>1. WeeklyInv /\ OpenStrikes = {}
    BY <1>4 DEF FlatInv, IsOpen, OptionKinds
  <2>2. \A s \in Strikes : held["primary"][<<s, "weekly">>] = 0
    BY <2>1, WeeklyNets DEF OpenStrikes
  <2>3. \A x \in Accounts : \A c \in Contracts : held[x][c] = 0
    <3> TAKE x \in Accounts
    <3> TAKE c \in Contracts
    <3>1. CASE x # "primary" \/ c[2] # "weekly"
      BY <2>1, <3>1 DEF WeeklyInv
    <3>2. CASE x = "primary" /\ c[2] = "weekly"
      <4>1. c \in Strikes \X Expiries
        BY <3>2 DEF Contracts, LegA, LegB
      <4>2. PICK s \in Strikes : c = <<s, "weekly">>
        BY <3>2, <4>1
      <4>3. QED
        BY <2>2, <3>2, <4>2
    <3>3. QED
      BY <3>1, <3>2
  <2>4. held \in [Accounts -> [Contracts -> Int]]
    BY <2>1 DEF WeeklyInv
  <2>5. \A x \in Accounts : held[x] = Flat
    <3> TAKE x \in Accounts
    <3>1. held[x] \in [Contracts -> Int] /\ \A c \in Contracts : held[x][c] = 0
      BY <2>3, <2>4
    <3>2. QED
      BY <3>1 DEF Flat
  <2>6. QED
    BY <2>4, <2>5 DEF NothingHeld
<1>5. CASE kind = "hedged"
  <2>1. PICK s \in Strikes, n \in Int, a \in Int, b \in Int : held = HedgeOf(s, n, a, b) /\ Hedging(s, n, a, b)
    BY <1>5 DEF FlatInv, HedgedInv
  <2>2. Balanced(n, a, b)
    BY <1>1, <2>1, HedgedIdle DEF AtRest
  <2>3. n = 0
    <3>1. OpenStrikes = {}
      BY <1>5 DEF IsOpen, OptionKinds
    <3>2. QED
      BY <2>1, <3>1, HedgeNets
  <2>4. a = 0 /\ b = 0
    BY <2>2, <2>3 DEF Balanced
  <2>5. QED
    BY <2>1, <2>3, <2>4, HedgeTyped
<1>6. QED
  BY <1>2, <1>3, <1>4, <1>5 DEF OptionKinds

\* A strategy that sees itself flat holds nothing, in any leg or account, unless one
\* of the named things happened to it (pairs_service.py, live_dispatch.py): whatever
\* the sizes, ratios and strikes, and however the two threads' sessions interleave.
THEOREM FlatMeansNothingHeld == StrategySpec => []FlatHoldsNothing
<1>1. StrategyInit => FlatInv
  BY StrategyAssumption, FlatStarts
<1>2. FlatInv /\ [StrategyNext]_strategyVars => FlatInv'
  BY StrategyAssumption, FlatStep
<1>3. FlatInv => FlatHoldsNothing
  BY WholeOrNone DEF FlatHoldsNothing
<1>4. QED
  BY <1>1, <1>2, <1>3, PTL DEF StrategySpec
===============================================================================
