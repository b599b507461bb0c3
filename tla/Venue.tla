-------------------------------- MODULE Venue --------------------------------
(* A book as its participants see it: one call of the engine is one step, and *)
(* the quotes of a market maker are the calls it makes of it in a row (the    *)
(* matching itself, step by step, is the module Book).  Ids say who the owner *)
(* is, as trader_id * 10_000_000 + n does.                                    *)
EXTENDS Integers, FiniteSets, SequencesExt

CONSTANTS
  Makers,       \* the market makers
  None,
  MaxInventory  \* the position at which a maker stops quoting a side

Opposite(side) == IF side = "buy" THEN "sell" ELSE "buy"
Signed(side, qty) == IF side = "buy" THEN qty ELSE -qty

\* An order; a market order has the far edge of the band for its price.
Order(id, owner, side, qty, px, rests) ==
  [id |-> id, owner |-> owner, side |-> side, qty |-> qty, px |-> px, rests |-> rests]

\* The book is the set of resting orders, each with its place in the queue of its
\* price.  An incoming order meets those of the other side that it may trade with,
\* best price first, then the oldest.
Resting(book, owner) == {r \in book : r.owner = owner}
Better(side, p, q) == IF side = "buy" THEN p > q ELSE p < q
Met(book, o) == {r \in book : r.side # o.side /\ ~Better(r.side, o.px, r.px)}
Before(r, s) == \/ Better(r.side, r.px, s.px)
                \/ r.px = s.px /\ r.at < s.at

\* It trades with those of others until it is filled.  How much it may trade
\* before it reaches one of them, those it reaches, and those it trades with.
Quantity(S) == SumFunctionOnSet([r \in S |-> r.qty], S)
Ahead(book, o, r) == Quantity({s \in Met(book, o) : s.owner # o.owner /\ Before(s, r)})
Reached(book, o) == {r \in Met(book, o) : Ahead(book, o, r) < o.qty}
Hit(book, o) == {r \in Reached(book, o) : r.owner # o.owner}
Taken(book, o, r) == Min({r.qty, o.qty - Ahead(book, o, r)})

\* Its fills, numbered in their order.
FillsOf(book, o) ==
  LET hit == Hit(book, o) IN
  {[nth |-> 1 + Cardinality({s \in hit : Before(s, r)}),
    maker |-> r.id, makerOwner |-> r.owner, taker |-> o.id, takerOwner |-> o.owner,
    side |-> o.side, qty |-> Taken(book, o, r)] : r \in hit}

\* What is left of the book: an order of the taker's own that it reaches is
\* cancelled, one that it trades with loses what was taken.
Swept(book, o) == {r \in Reached(book, o) : r.owner = o.owner}
Trades(book, o, r) ==
  r.owner # o.owner /\ r \in Met(book, o) /\ Ahead(book, o, r) < o.qty
LeftOf(book, o, r) == r.qty - IF Trades(book, o, r) THEN Taken(book, o, r) ELSE 0
AfterTaking(book, o) ==
  {[r EXCEPT !.qty = LeftOf(book, o, r)] :
     r \in {s \in book \ Swept(book, o) : LeftOf(book, o, s) > 0}}

\* An order that comes to rest goes to the end of the queue of its price.
Queue(book, side, px) == {r \in book : r.side = side /\ r.px = px}
Rested(book, o, qty) ==
  book \cup {[id |-> o.id, owner |-> o.owner, side |-> o.side, qty |-> qty, px |-> o.px,
              at |-> 1 + Max({0} \cup {r.at : r \in Queue(book, o.side, o.px)})]}

\* Engine.submit and Engine.cancel: the book afterwards, the fills, and what
\* self-trade prevention cancelled (gone).
Outcome(o, after, fills, gone) ==
  LET left == o.qty - Quantity(fills) IN
  [book |-> IF o.rests /\ left > 0 THEN Rested(after, o, left) ELSE after,
   fills |-> fills, swept |-> {r.id : r \in gone}]
Submitted(book, o) ==
  Outcome(o, AfterTaking(book, o), FillsOf(book, o), Swept(book, o))
Without(book, ids) == {r \in book : r.id \notin ids}

\* A call of the engine, and several in a row.
Called(book, call) ==
  IF call.op = "cancel" THEN [book |-> Without(book, {call.id}), fills |-> {}, swept |-> {}]
  ELSE Submitted(book, call.order)
FollowedBy(so, next) ==
  [book |-> next.book, fills |-> so.fills \cup next.fills, swept |-> so.swept \cup next.swept]
Made(so, call) == FollowedBy(so, Called(so.book, call))
Played(book, calls) ==
  FoldLeft(Made, [book |-> book, fills |-> {}, swept |-> {}], calls)

-------------------------------------------------------------------------------
(* A market maker: what it holds, and the id and price of its live quotes.    *)
NewMaker == [inventory |-> 0, seq |-> 0, bid |-> None, ask |-> None, bidPx |-> 0, askPx |-> 0]

\* refresh_quotes first cancels an old quote that the new one would meet.
CrossesAsk(maker, bidPx) == maker.ask # None /\ bidPx >= maker.askPx
CrossesBid(maker, askPx) == maker.bid # None /\ askPx <= maker.bidPx

QuotesBid(maker) == maker.inventory < MaxInventory
QuotesAsk(maker) == maker.inventory > -MaxInventory

\* The ids of the new quotes: the next of the maker's own.
NewBid(m, maker) == <<m, maker.seq + 1>>
NewAsk(m, maker) == <<m, maker.seq + IF QuotesBid(maker) THEN 2 ELSE 1>>

\* The calls of refresh_quotes: it posts the new quotes, then cancels the old.
When(condition, call) == IF condition THEN <<call>> ELSE <<>>
QuoteCalls(m, maker, bidPx, askPx, size) ==
  LET cancel(id) == [op |-> "cancel", id |-> id]
      submit(id, side, px) == [op |-> "submit", order |-> Order(id, m, side, size, px, TRUE)]
  IN    When(CrossesAsk(maker, bidPx), cancel(maker.ask))
     \o When(CrossesBid(maker, askPx), cancel(maker.bid))
     \o When(QuotesBid(maker), submit(NewBid(m, maker), "buy", bidPx))
     \o When(QuotesAsk(maker), submit(NewAsk(m, maker), "sell", askPx))
     \o When(maker.bid # None /\ ~CrossesBid(maker, askPx), cancel(maker.bid))
     \o When(maker.ask # None /\ ~CrossesAsk(maker, bidPx), cancel(maker.ask))

\* What the maker remembers of them; the answers to the calls are not looked at.
Quoted(m, maker, bidPx, askPx) ==
  [inventory |-> maker.inventory,
   seq |-> maker.seq + Cardinality({b \in {1, 2} : IF b = 1 THEN QuotesBid(maker)
                                                          ELSE QuotesAsk(maker)}),
   bid |-> IF QuotesBid(maker) THEN NewBid(m, maker) ELSE None,
   ask |-> IF QuotesAsk(maker) THEN NewAsk(m, maker) ELSE None,
   bidPx |-> bidPx, askPx |-> askPx]

\* on_fill, for every fill of a result in which somebody has a side.
Gain(who, f) ==
    (IF f.takerOwner = who THEN Signed(f.side, f.qty) ELSE 0)
  + (IF f.makerOwner = who THEN Signed(Opposite(f.side), f.qty) ELSE 0)
Gained(who, fills) == SumFunctionOnSet([f \in fills |-> Gain(who, f)], fills)
===============================================================================
