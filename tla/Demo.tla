--------------------------------- MODULE Demo ---------------------------------
(* The interactive market of demo_server.py: one simulated market, stepped by *)
(* a timer, and visitors with a ledger of their own of what they rest in the  *)
(* book.  Everything runs on one event loop, without an await inside a step.  *)
EXTENDS Venue

CONSTANTS
  Visitors,       \* the connections
  Pairs,          \* bid and ask prices a maker's rounding can arrive at
  QuoteSize,
  CrowdOrders,    \* orders of the noise and informed traders: owner, side, qty, px, rests
  VisitorOrders,  \* orders the visitors send
  MaxOpenOrders,  \* open orders of one visitor
  MaxOrders       \* bound: orders of one run

\* Every order is for something, and nobody has the name of a visitor but itself.
ASSUME DemoAssumption ==
  /\ Makers # {} /\ Makers \cap Visitors = {}
  /\ QuoteSize \in Nat \ {0}
  /\ \A order \in CrowdOrders : order.qty \in Nat \ {0} /\ order.owner \notin Visitors
  /\ \A request \in VisitorOrders : request.qty \in Nat \ {0}

VARIABLES
  venue,      \* the engine's book
  maker,      \* the market maker of the simulation
  visitor,    \* per connection: whether it is there, its inventory, its open orders
  orders,     \* orders sent so far
  traded,     \* history: the position of each visitor by all its fills
  dropped,    \* history: ids of resting orders whose fills a step dropped
  swept       \* history: ids that self-trade prevention took away

demoVars == <<venue, maker, visitor, orders, traded, dropped, swept>>

TheMaker == CHOOSE m \in Makers : TRUE
NoneOpen == [id \in {} |-> 0]
Absent == [here |-> FALSE, inventory |-> 0, open |-> NoneOpen]

DemoInit ==
  /\ venue = {} /\ maker = NewMaker /\ orders = 0
  /\ visitor = [h \in Visitors |-> Absent]
  /\ traded = [h \in Visitors |-> 0] /\ dropped = {} /\ swept = {}

\* A visitor's open orders: by id, what the ledger says is left of each.
LeftOpen(open, fills, id) == open[id] - Quantity({f \in fills : f.maker = id})
Less(open, fills) ==
  [id \in {i \in DOMAIN open : LeftOpen(open, fills, i) > 0} |-> LeftOpen(open, fills, id)]

\* _route: the inventories of the maker and of the visitors, and what the
\* visitors have resting.
RoutedTakersOnly(fills) ==
  [h \in Visitors |-> [visitor[h] EXCEPT !.inventory =
     IF visitor[h].here
     THEN @ + Gained(h, {f \in fills : f.takerOwner = h}) ELSE @]]
Routed(fills) ==
  [h \in Visitors |->
     IF ~visitor[h].here THEN visitor[h]
     ELSE [visitor[h] EXCEPT !.inventory = @ + Gained(h, fills), !.open = Less(@, fills)]]

Traded(fills) == [h \in Visitors |-> IF visitor[h].here THEN traded[h] + Gained(h, fills) ELSE 0]

\* LiveSim.step: the maker's quotes, whose fills are not looked at, then an
\* order of the crowd, whose fills are routed.
StepTo(bidPx, askPx, crowd) ==
  LET quotes == Played(venue, QuoteCalls(TheMaker, maker, bidPx, askPx, QuoteSize))
      quoted == Quoted(TheMaker, maker, bidPx, askPx)
      taken == IF crowd = None THEN [quotes EXCEPT !.fills = {}, !.swept = {}]
               ELSE Submitted(quotes.book, Order(<<crowd.owner, orders + 1>>, crowd.owner,
                                                 crowd.side, crowd.qty, crowd.px, crowd.rests))
  IN /\ venue' = taken.book
     /\ maker' = [quoted EXCEPT !.inventory = @ + Gained(TheMaker, taken.fills)]
     /\ visitor' = Routed(taken.fills)
     /\ traded' = Traded(quotes.fills \cup taken.fills)
     /\ dropped' = dropped \cup {f.maker : f \in quotes.fills}
     /\ swept' = swept \cup taken.swept

Step ==
  /\ orders < MaxOrders /\ orders' = orders + 1
  /\ \E pair \in Pairs : \E crowd \in CrowdOrders \cup {None} : StepTo(pair[1], pair[2], crowd)

Register(h) ==
  /\ ~visitor[h].here
  /\ visitor' = [visitor EXCEPT ![h] = [Absent EXCEPT !.here = TRUE]]
  /\ UNCHANGED <<venue, maker, orders, traded, dropped, swept>>

\* submit_human_order: what is left of a limit order joins the open orders.
SubmitHumanOrder(h, request) ==
  LET id == <<h, orders + 1>>
      result == Submitted(venue, Order(id, h, request.side, request.qty, request.px, request.rests))
      left == request.qty - Quantity(result.fills)
      routed == Routed(result.fills)
  IN /\ visitor[h].here /\ orders < MaxOrders
     /\ request.rests => Cardinality(DOMAIN visitor[h].open) < MaxOpenOrders
     /\ venue' = result.book
     /\ maker' = [maker EXCEPT !.inventory = @ + Gained(TheMaker, result.fills)]
     /\ visitor' = IF request.rests /\ left > 0
                   THEN [routed EXCEPT ![h].open =
                           [i \in DOMAIN @ \cup {id} |-> IF i = id THEN left ELSE @[i]]]
                   ELSE routed
     /\ orders' = orders + 1
     /\ traded' = Traded(result.fills)
     /\ swept' = swept \cup result.swept
     /\ UNCHANGED dropped

\* cancel_human_order: an order the engine does not know stays in the ledger.
CancelHumanOrder(h, id) ==
  /\ visitor[h].here /\ id \in DOMAIN visitor[h].open
  /\ id \in {r.id : r \in venue}
  /\ venue' = Without(venue, {id})
  /\ visitor' = [visitor EXCEPT ![h].open = [i \in DOMAIN @ \ {id} |-> @[i]]]
  /\ UNCHANGED <<maker, orders, traded, dropped, swept>>

\* unregister_human: every open order is cancelled first.
Unregister(h) ==
  /\ visitor[h].here
  /\ venue' = Without(venue, DOMAIN visitor[h].open)
  /\ visitor' = [visitor EXCEPT ![h] = Absent]
  /\ traded' = [traded EXCEPT ![h] = 0]
  /\ UNCHANGED <<maker, orders, dropped, swept>>

DemoNext ==
  \/ Step
  \/ \E h \in Visitors :
       \/ Register(h) \/ Unregister(h)
       \/ \E request \in VisitorOrders : SubmitHumanOrder(h, request)
       \/ \E id \in DOMAIN visitor[h].open : CancelHumanOrder(h, id)

DemoSpec == DemoInit /\ [][DemoNext]_demoVars

-------------------------------------------------------------------------------
\* A visitor's ledger is the book's: all that rests there for a visitor is among
\* its open orders, with at least what is left, so that leaving takes all of it
\* away (unregister_human: "an orphaned resting order ... would otherwise sit on
\* the book indefinitely"); its inventory is what it traded, and its open orders
\* rest as they say, unless a quote of the maker hit one, a fill that step drops,
\* or self-trade prevention took one away.
Dropped(h) == \E id \in dropped : id[1] = h
LedgerIsTheBook ==
  \A h \in Visitors :
    LET open == visitor[h].open IN
    /\ \A r \in Resting(venue, h) : r.id \in DOMAIN open /\ open[r.id] >= r.qty
    /\ visitor[h].inventory = traded[h] \/ Dropped(h)
    /\ \A id \in DOMAIN open : id \notin dropped \cup swept =>
         \E r \in Resting(venue, h) : r.id = id /\ r.qty = open[id]
===============================================================================
