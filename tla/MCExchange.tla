------------------------------ MODULE MCExchange ------------------------------
(* The places where orders are decided on and traded: the simulations, the    *)
(* interactive demo, the markets of the web application and the client they   *)
(* reach their engine through, the strategies and their backtests.  Each has  *)
(* state of its own, so TLC runs one at a time: a behaviour picks one, and    *)
(* the others stand still.                                                    *)
EXTENDS Demo, Simulation, Market, EngineClient, Strategies, Backtest

VARIABLE focus  \* the place this behaviour is about

demoAlone == <<focus, simVars, marketVars, clientVars, strategyVars, backtestVars>>
simAlone == <<focus, demoVars, marketVars, clientVars, strategyVars, backtestVars>>
marketAlone == <<focus, demoVars, simVars, clientVars, strategyVars, backtestVars>>
clientAlone == <<focus, demoVars, simVars, marketVars, strategyVars, backtestVars>>
strategiesAlone == <<focus, demoVars, simVars, marketVars, clientVars, backtestVars>>
backtestAlone == <<focus, demoVars, simVars, marketVars, clientVars, strategyVars>>
exchangeVars == <<focus, demoVars, simVars, marketVars, clientVars, strategyVars, backtestVars>>

Init ==
  /\ focus \in {"demo", "simulation", "market", "client", "strategies", "backtest"}
  /\ DemoInit /\ SimInit /\ MarketInit /\ EngineInit
  /\ IF focus = "strategies" THEN StrategyInit ELSE StrategyInit /\ kind = "pairs"
  /\ IF focus = "backtest" THEN BacktestInit ELSE BacktestInit /\ adapter = "pairs"

Next ==
  \/ focus = "demo" /\ DemoNext /\ UNCHANGED demoAlone
  \/ focus = "simulation" /\ SimNext /\ UNCHANGED simAlone
  \/ focus = "market" /\ MarketNext /\ UNCHANGED marketAlone
  \/ focus = "client" /\ EngineNext /\ UNCHANGED clientAlone
  \/ focus = "strategies" /\ StrategyNext /\ UNCHANGED strategiesAlone
  \/ focus = "backtest" /\ BacktestNext /\ UNCHANGED backtestAlone

\* The fairness of EngineSpec, where the client is the focus.
ClientDoes(A) == focus = "client" /\ A /\ UNCHANGED clientAlone
ExchangeSpec ==
  /\ Init /\ [][Next]_exchangeVars
  /\ WF_exchangeVars(ClientDoes(Serve))
  /\ \A t \in Callers : WF_exchangeVars(ClientDoes(CallGoesOn(t)))

-------------------------------------------------------------------------------
\* An order as a participant decides on it.
Wish(owner, side, qty, px, rests) ==
  [owner |-> owner, side |-> side, qty |-> qty, px |-> px, rests |-> rests]

TwoPairs == {<<1, 2>>, <<2, 3>>}
ThreePairs == {<<1, 2>>, <<2, 3>>, <<3, 4>>}
WidePairs == {<<1, 3>>, <<2, 4>>}

\* A noise trader takes at any price, an informed one rests.
DemoCrowd == {Wish("noise", "buy", 2, 3, FALSE), Wish("informed", "sell", 1, 2, TRUE)}
SimTraders == {Wish("noise", "buy", 2, 4, FALSE), Wish("informed", "sell", 1, 2, TRUE)}
MarketTraders == {Wish("noise", "buy", 2, 4, FALSE)}

VisitorWishes == {Wish("visitor", "buy", 1, 2, TRUE), Wish("visitor", "sell", 2, 2, TRUE),
                  Wish("visitor", "sell", 2, 1, FALSE)}
UserWishes == {Wish("user", "sell", 2, 3, TRUE)}

\* A market order fills in full or not at all; a ratio below zero hedges one share,
\* and in a basket it is a weight of the other sign.
AllOrNothing(n) == {0, n}
SignedRatios == {-1, 1}

\* The near leg of an options strategy is sold, the far one bought.
SoldNear(l) == IF l = "near" THEN -1 ELSE 1
===============================================================================
