------------------------------- MODULE Backtest -------------------------------
(* A backtest (backtest/engine.py): bar by bar, an adapter asks its strategy   *)
(* for orders, which fill at once and in full, and remembers by itself what    *)
(* they add up to (adapters.py), unlike the live side of the same strategies,  *)
(* which reads its rows (module Strategies).  An options position still open   *)
(* at the end of the path is closed there.                                     *)
EXTENDS Integers, FiniteSetsExt, SequencesExt

CONSTANTS
  Adapters,     \* what to run: pairs, kelly, basket, options, hedged
  Bars,         \* length of the path
  Lots, KellyLots,  \* what a strategy enters with
  HedgeRatios,  \* rounded ratios of leg B to leg A
  OptionLegs,   \* the legs of an options strategy
  LegSide(_),   \* 1 for a leg that is bought, -1 for one that is sold
  HoldBars, RebalanceBars, MinRebalance

ASSUME BacktestAssumption ==
  /\ Bars \in Nat /\ Lots \in Nat \ {0} /\ KellyLots \subseteq Nat \ {0}
  /\ \A leg \in OptionLegs : LegSide(leg) \in {1, -1}

VARIABLES
  adapter,   \* which adapter
  bar,       \* the next bar
  position,  \* what it remembers: a direction, or 1 for open options
  qtyA,      \* _position_qty_a
  entryBar, rebalanced,  \* _entry_step, _last_rebalance_step
  hedge,     \* _hedge_qty
  shares,    \* what all orders so far add up to, of the two legs
  options,   \* and of each option leg, by the bar of its entry
  finished

backtestVars == <<adapter, bar, position, qtyA, entryBar, rebalanced, hedge, shares, options,
                  finished>>

HasOptions == adapter \in {"options", "hedged"}

BacktestInit ==
  /\ adapter \in Adapters /\ bar = 1 /\ finished = FALSE
  /\ position = 0 /\ qtyA = 0 /\ entryBar = 0 /\ rebalanced = 0 /\ hedge = 0
  /\ shares = [leg \in {"a", "b"} |-> 0]
  /\ options = [b \in 1..Bars |-> [leg \in OptionLegs |-> 0]]

-------------------------------------------------------------------------------
(* PairsAdapter and BasketAdapter: evaluate.                                   *)
SecondLeg(qty, ratio) == Max({1, qty * ratio})
Trade(a, b) == shares' = [leg \in {"a", "b"} |-> shares[leg] + (IF leg = "a" THEN a ELSE b)]
TradeSpread(direction, qty, ratio) == Trade(direction * qty, -direction * SecondLeg(qty, ratio))

EnterPair ==
  /\ ~HasOptions /\ position = 0
  /\ \E direction \in {1, -1}, ratio \in HedgeRatios,
        qty \in IF adapter = "kelly" THEN KellyLots ELSE {Lots} :
       /\ TradeSpread(direction, qty, ratio)
       /\ position' = direction
       /\ qtyA' = IF adapter = "basket" THEN 0 ELSE qty
  /\ UNCHANGED <<entryBar, rebalanced, hedge, options>>

\* The quantity a strategy closes: what the adapter says is held, or its own.
Closes == IF adapter = "kelly" THEN qtyA ELSE Lots
ExitPair ==
  /\ ~HasOptions /\ position # 0
  /\ \E ratio \in HedgeRatios : TradeSpread(-position, Closes, ratio)
  /\ position' = 0 /\ qtyA' = 0
  /\ UNCHANGED <<entryBar, rebalanced, hedge, options>>

-------------------------------------------------------------------------------
(* OptionsBacktestAdapter: evaluate, and force_close at the end of the path.   *)
InitialHedge == IF adapter = "hedged" THEN Lots ELSE 0
TradeShares(qty) == Trade(qty, 0)
TradeLegs(b, sign) ==
  options' = [options EXCEPT ![b] =
    [leg \in OptionLegs |-> @[leg] + sign * LegSide(leg) * Lots]]

\* An entry that hedges counts as a rebalance.
OpenOptions ==
  /\ HasOptions /\ position = 0
  /\ TradeLegs(bar, 1) /\ TradeShares(InitialHedge)
  /\ position' = 1 /\ entryBar' = bar
  /\ hedge' = hedge + InitialHedge
  /\ rebalanced' = IF InitialHedge # 0 THEN bar ELSE rebalanced
  /\ UNCHANGED qtyA

ShouldExit == bar - entryBar >= HoldBars
ShouldRebalance ==
  ~ShouldExit /\ bar - (IF rebalanced # 0 THEN rebalanced ELSE entryBar) >= RebalanceBars

\* The hedge follows the option's delta, if it is far enough from it.
HedgeReplaced(diff) == diff
HedgeMoved(diff) == hedge + diff
RebalanceHedge ==
  /\ adapter = "hedged" /\ position = 1 /\ ShouldRebalance
  /\ \E target \in 0..(2 * Lots) :
       LET diff == target - hedge IN
       /\ (diff >= MinRebalance \/ -diff >= MinRebalance)
       /\ TradeShares(diff) /\ hedge' = HedgeMoved(diff)
  /\ rebalanced' = bar
  /\ UNCHANGED <<position, qtyA, entryBar, options>>

Forgotten == position' = 0 /\ entryBar' = 0 /\ rebalanced' = 0 /\ hedge' = 0

\* An exit sells the hedge only if there is one; the end closes it either way.
CloseOptions ==
  /\ HasOptions /\ position = 1 /\ ShouldExit
  /\ TradeLegs(entryBar, -1) /\ TradeShares(IF hedge > 0 THEN -hedge ELSE 0)
  /\ Forgotten
  /\ UNCHANGED qtyA

NoOrder == UNCHANGED <<position, qtyA, entryBar, rebalanced, hedge, shares, options>>

\* A bar without an order: an options strategy that is flat always enters, and one
\* that is due always exits.
Quiet ==
  /\ HasOptions => position = 1 /\ ~ShouldExit
  /\ NoOrder

\* _build_orders: every bar of the path in turn.
NextBar ==
  /\ bar <= Bars /\ bar' = bar + 1
  /\ \/ EnterPair \/ ExitPair \/ OpenOptions \/ RebalanceHedge \/ CloseOptions \/ Quiet
  /\ UNCHANGED <<adapter, finished>>

ForceCloseAtEnd ==
  /\ bar = Bars + 1 /\ ~finished /\ finished' = TRUE
  /\ IF HasOptions /\ position = 1
     THEN TradeLegs(entryBar, -1) /\ TradeShares(-hedge) /\ Forgotten /\ UNCHANGED qtyA
     ELSE NoOrder
  /\ UNCHANGED <<adapter, bar>>

BacktestNext == NextBar \/ ForceCloseAtEnd

BacktestSpec == BacktestInit /\ [][BacktestNext]_backtestVars

-------------------------------------------------------------------------------
\* What an adapter remembers is what its orders add up to, bar by bar: the
\* direction and size of leg A, the open option legs and their hedge; nothing is
\* left of an earlier position, and at the end an options strategy is flat
\* (adapters.py, force_close), which a pair need not be.
AdapterKnowsItsPosition ==
  IF HasOptions
  THEN /\ shares["a"] = hedge
       /\ \A b \in 1..Bars, leg \in OptionLegs :
            options[b][leg] = IF position = 1 /\ b = entryBar THEN LegSide(leg) * Lots ELSE 0
       /\ finished => position = 0 /\ hedge = 0
  ELSE /\ shares["a"] = position * (IF adapter = "basket" THEN Lots ELSE qtyA)
       /\ position = 0 <=> shares["a"] = 0
===============================================================================
