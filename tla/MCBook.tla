------------------------------- MODULE MCBook -------------------------------
(* Small instances of Book for TLC. *)
EXTENDS Book

\* Orders without a trigger price, of the given types, limits and quantities.
Plain(types, prices, qtys, tifs) ==
  [owner : Owners, side : Sides, type : types, px : prices, stop : {0},
   qty : qtys, tif : tifs]

Stops(prices, stops, qtys, tifs) ==
  [owner : Owners, side : Sides, type : {"stop_limit"}, px : prices, stop : stops,
   qty : qtys, tif : tifs]

\* One owner offers, the other bids; each protects itself with stops that
\* accept any price.  Long enough sequences of these make stops release stops.
StopOrders ==
  {o \in Plain({"limit"}, {1, 2, 3}, {1}, {"GTC"}) : o.owner = 1 <=> o.side = "sell"}
    \cup {o \in Stops({1, 3}, {1, 2, 3}, {1}, {"GTC"}) :
            \/ o.owner = 2 /\ o.side = "buy" /\ o.px = 3 /\ o.stop # 1
            \/ o.owner = 1 /\ o.side = "sell" /\ o.px = 1 /\ o.stop # 3}

\* One lot or two on either side: a taker of two may walk two levels, one on
\* each side of the trigger of a stop of the other side.
SweepOrders ==
  {o \in Plain({"limit"}, {1, 2, 3}, {1, 2}, {"GTC"}) : o.owner = 1 <=> o.side = "sell"}
    \cup {o \in StopOrders : o.type = "stop_limit"}

\* Two lots may breach a limit of two; a price two ticks from the last is
\* outside the collar; stops are released into both checks; every time in
\* force, a market order, a bad price and a zero quantity.
RuleOrders ==
  {o \in Plain({"limit"}, {1, 3}, {1, 2}, {"GTC"}) : o.px = 3 => o.qty = 2}
    \cup {o \in Plain({"limit"}, {2}, {2}, {"FOK", "IOC"}) : o.tif = "FOK" <=> o.owner = 1}
    \cup {o \in Plain({"market"}, {1}, {2}, {"GTC"}) : o.side = "buy"}
    \cup {o \in Plain({"limit"}, {1, 4}, {0, 1}, {"GTC"}) :
             (o.px = 4 <=> o.qty = 1) /\ o.owner = 1 /\ o.side = "buy"}
    \cup {o \in Stops({1, 3}, {2}, {2}, {"GTC", "FOK"}) :
            \/ o.owner = 1 /\ o.side = "buy" /\ o.px = 3
            \/ o.owner = 2 /\ o.side = "sell" /\ o.px = 1 /\ o.tif = "GTC"}

\* A caller takes the least number that names no live order: it removes the
\* permutations of order ids and keeps the reuse of an id.
LeastIds ==
  accepted' > accepted =>
    \A i \in (DOMAIN live' \ DOMAIN live) \cup (IF phase' = "match" THEN {cur'.id} ELSE {}) :
      \A j \in OrderIds : j < i => j \in DOMAIN live
=============================================================================
