------------------------------ MODULE Strategies ------------------------------
(* The strategies with more than one leg as the tick loop runs them: pairs,    *)
(* baskets and options.  None of them keeps its position: at every tick it is  *)
(* reconstructed from the filled rows that carry the strategy's key            *)
(* (pairs_service.py, live_dispatch.py), the strategy decides on it, and the   *)
(* legs of its signal are submitted one after the other.  A sub-account clones *)
(* the equity legs; POST /pairs/close flattens a pair from another thread.     *)
EXTENDS Integers, FiniteSets, FiniteSetsExt, SequencesExt

CONSTANTS
  Kinds,         \* strategies to run: pairs, kelly, basket, calendar, strangle, condor, hedged
  Strikes,       \* strikes near the money
  Qty, KellySizes,  \* what a strategy enters with
  Ratios,        \* hedge ratios, rounded; in a basket, weights of the other sign
  Filled(_),     \* what the engine may fill of a market order
  MaxSessions    \* bound: sessions that submit

\* Nothing is entered with no quantity; hedge ratios are rounded.
ASSUME StrategyAssumption ==
  /\ Strikes # {} /\ IsFiniteSet(Strikes)
  /\ Qty \in Nat \ {0} /\ KellySizes \subseteq Nat \ {0} /\ Ratios \subseteq Int

VARIABLES
  kind,      \* the strategy
  held,      \* per account and contract, the sum of the committed filled rows
  cloning,   \* whether the sub-account is active
  session,   \* per thread: orders still to submit, fills not committed
  sessions,  \* sessions so far
  hedgedBy,   \* history: leg B of the last entry
  strain     \* history: what happened that may leave a leg behind

strategyVars == <<kind, held, cloning, session, sessions, hedgedBy, strain>>

Accounts == {"primary", "sub"}
Runners == {"tick", "close"}  \* the tick loop, and the route that closes a pair
LegA == <<0, "share">>        \* the first symbol of a spread, the underlying of an option
LegB == <<-1, "share">>       \* the other symbol
Expiries == {"weekly", "monthly"}
Contracts == {LegA, LegB} \cup (Strikes \X Expiries)
IsOption(contract) == contract[2] \in Expiries
OptionKinds == {"calendar", "strangle", "condor", "hedged"}

Flat == [c \in Contracts |-> 0]
NothingHeld == [x \in Accounts |-> Flat]
Plus(h, g) == [x \in Accounts |-> [c \in Contracts |-> h[x][c] + g[x][c]]]
IdleSession == [at |-> "idle", todo |-> <<>>, fills |-> NothingHeld]

StrategyInit ==
  /\ kind \in Kinds /\ held = NothingHeld /\ cloning = FALSE
  /\ session = [t \in Runners |-> IdleSession] /\ sessions = 0
  /\ hedgedBy = 0 /\ strain = {}

-------------------------------------------------------------------------------
(* What a session reads: rows of every account count.                          *)
Net(contract) == held["primary"][contract] + held["sub"][contract]
Sign(n) == IF n > 0 THEN 1 ELSE IF n < 0 THEN -1 ELSE 0
Magnitude(n) == Sign(n) * n

\* compute_pair_position_state, _compute_basket_position: leg A stands for all.
SpreadHeld == Net(LegA)

\* _compute_open_option_legs: a net quantity per strike, whatever the expiry.
NetAtStrike(s) == Net(<<s, "weekly">>) + Net(<<s, "monthly">>)
OpenStrikes == {s \in Strikes : NetAtStrike(s) # 0}

\* _compute_equity_hedge_state: the underlying, under the strategy's key.
HedgeHeld == Net(LegA)

IsOpen == IF kind \in OptionKinds THEN OpenStrikes # {} ELSE SpreadHeld # 0

-------------------------------------------------------------------------------
(* What the strategy decides: the orders of its legs, signed.                  *)
Leg(contract, qty) == [contract |-> contract, qty |-> qty]

\* Leg B goes against leg A at the hedge ratio; in a basket it goes by the sign of
\* its own weight.
PairHedge(direction, qty, ratio) == -direction * Max({1, qty * ratio})
BasketHedge(direction, qty, ratio) ==
  (IF ratio < 0 THEN direction ELSE -direction) * Max({1, qty * Magnitude(ratio)})

Hedge(direction, qty, ratio) ==
  IF kind = "basket" THEN BasketHedge(direction, qty, ratio) ELSE PairHedge(direction, qty, ratio)

Spread(direction, qty, ratio) ==
  <<Leg(LegA, direction * qty), Leg(LegB, Hedge(direction, qty, ratio))>>

\* An exit of pairs_kelly closes what is held; the others close what they enter.
ExitQtyFresh == IF kind = "kelly" THEN Min(KellySizes) ELSE Qty
ExitQty == IF kind = "kelly" THEN Magnitude(SpreadHeld) ELSE Qty

EntrySizes == IF kind = "kelly" THEN KellySizes ELSE {Qty}

Wing == Max(Strikes)  \* the far strike
CalendarEntry(s) == <<Leg(<<s, "weekly">>, Qty), Leg(<<s, "monthly">>, -Qty)>>
StrangleEntry(s) == <<Leg(<<s, "weekly">>, -Qty), Leg(<<Wing, "weekly">>, -Qty)>>
CondorEntry(s) == <<Leg(<<s, "weekly">>, -Qty), Leg(<<Wing, "weekly">>, Qty)>>  \* one side of two
HedgedEntry(s) == <<Leg(<<s, "monthly">>, -Qty), Leg(LegA, Qty)>>

OptionEntry(s) ==
  CASE kind = "calendar" -> CalendarEntry(s)
    [] kind = "strangle" -> StrangleEntry(s)
    [] kind = "condor" -> CondorEntry(s)
    [] kind = "hedged" -> HedgedEntry(s)

\* close_open_legs at the expiry of the latest row of each strike, in the order in
\* which the strikes were first traded; the equity hedge is sold if there is one.
ExpiryOf(s) == IF \E x \in Accounts : held[x][<<s, "monthly">>] # 0 THEN "monthly" ELSE "weekly"
TradedOrders == Injection(1..Cardinality(OpenStrikes), OpenStrikes)
HedgeExit == IF kind = "hedged" /\ HedgeHeld > 0 THEN <<Leg(LegA, -HedgeHeld)>> ELSE <<>>
OptionExit(order) ==
  [i \in DOMAIN order |-> Leg(<<order[i], ExpiryOf(order[i])>>, -NetAtStrike(order[i]))] \o HedgeExit

\* A session begins to submit what it decided from the rows it read.
Begin(t, todo) ==
  /\ session[t].at = "idle" /\ sessions < MaxSessions /\ sessions' = sessions + 1
  /\ session' = [session EXCEPT ![t] = [at |-> "submitting", todo |-> todo, fills |-> NothingHeld]]

\* Another session has submitted what this one did not see.
Overlap == IF \E t \in Runners : session[t].at # "idle" THEN {"overlap"} ELSE {}

OpenSpread(direction, qty, ratio) ==
  /\ Begin("tick", Spread(direction, qty, ratio))
  /\ hedgedBy' = Hedge(direction, qty, ratio)
  /\ strain' = strain \cup Overlap
  /\ UNCHANGED <<kind, held, cloning>>

EnterSpread ==
  /\ kind \in {"pairs", "kelly"} /\ ~IsOpen
  /\ \E direction \in {1, -1}, qty \in EntrySizes, ratio \in Ratios : OpenSpread(direction, qty, ratio)

EnterBasket ==
  /\ kind = "basket" /\ ~IsOpen
  /\ \E direction \in {1, -1}, ratio \in Ratios : OpenSpread(direction, Qty, ratio)

\* The exit takes the hedge ratio of its own bar.
ExitSpread ==
  /\ kind \notin OptionKinds /\ IsOpen
  /\ \E ratio \in Ratios :
       LET direction == -Sign(SpreadHeld) IN
       /\ Begin("tick", Spread(direction, ExitQty, ratio))
       /\ strain' = strain \cup Overlap
            \cup (IF Hedge(direction, ExitQty, ratio) # -hedgedBy THEN {"drift"} ELSE {})
            \cup (IF kind = "kelly" /\ cloning THEN {"clones"} ELSE {})
  /\ UNCHANGED <<kind, held, cloning, hedgedBy>>

EnterOptions ==
  /\ kind \in OptionKinds /\ ~IsOpen
  /\ \E s \in Strikes \ (IF kind \in {"strangle", "condor"} THEN {Wing} ELSE {}) :
       Begin("tick", OptionEntry(s))
  /\ strain' = strain \cup (IF kind = "calendar" THEN {"expiries"} ELSE {})
  /\ UNCHANGED <<kind, held, cloning, hedgedBy>>

\* The holding period has elapsed.
ExitOptions ==
  /\ kind \in OptionKinds /\ IsOpen
  /\ \E order \in TradedOrders : Begin("tick", OptionExit(order))
  /\ strain' = strain \cup (IF kind = "hedged" /\ cloning THEN {"clones"} ELSE {})
  /\ UNCHANGED <<kind, held, cloning, hedgedBy>>

\* The hedge is due: it is moved against the delta of the open options.
Deltas == -(2 * Qty)..0
Rebalance ==
  /\ kind = "hedged" /\ IsOpen
  /\ \E delta \in Deltas :
       /\ -delta # HedgeHeld
       /\ Begin("tick", <<Leg(LegA, -delta - HedgeHeld)>>)
  /\ strain' = strain \cup (IF cloning THEN {"clones"} ELSE {})
  /\ UNCHANGED <<kind, held, cloning, hedgedBy>>

\* POST /pairs/close: against what the rows of the strategy hold of each leg.
Closing(contract) == IF Net(contract) = 0 THEN <<>> ELSE <<Leg(contract, -Net(contract))>>
OpenLegs == Closing(LegA) \o Closing(LegB)
ForceClose ==
  /\ kind = "pairs" /\ SpreadHeld # 0
  /\ Begin("close", OpenLegs)
  /\ strain' = strain \cup Overlap \cup (IF cloning THEN {"clones"} ELSE {})
  /\ UNCHANGED <<kind, held, cloning, hedgedBy>>

-------------------------------------------------------------------------------
(* Submitting.                                                                 *)

\* submit_paper_order: a market order, and its clone.
WithFill(fills, contract, n, clone) ==
  [fills EXCEPT !["primary"][contract] = @ + n, !["sub"][contract] = @ + clone]
SubmitEquity(t) ==
  /\ session[t].todo # <<>> /\ ~IsOption(Head(session[t].todo).contract)
  /\ LET order == Head(session[t].todo)
         n == Magnitude(order.qty)
     IN \E f \in Filled(n), g \in IF cloning THEN Filled(n) ELSE {0} :
          /\ session' = [session EXCEPT
               ![t].todo = Tail(@),
               ![t].fills = WithFill(@, order.contract, Sign(order.qty) * f, Sign(order.qty) * g)]
          /\ strain' = strain \cup (IF f # n \/ (cloning /\ g # n) THEN {"partial"} ELSE {})
  /\ UNCHANGED <<kind, held, cloning, sessions, hedgedBy>>

\* submit_option_paper_order: filled at once, and committed with what the session
\* has submitted before.
SubmitOption(t) ==
  /\ session[t].todo # <<>> /\ IsOption(Head(session[t].todo).contract)
  /\ LET order == Head(session[t].todo) IN
       held' = [Plus(held, session[t].fills) EXCEPT !["primary"][order.contract] = @ + order.qty]
  /\ session' = [session EXCEPT ![t].todo = Tail(@), ![t].fills = NothingHeld]
  /\ UNCHANGED <<kind, cloning, sessions, hedgedBy, strain>>

CommitSession(t) ==
  /\ session[t].at = "submitting" /\ session[t].todo = <<>>
  /\ held' = Plus(held, session[t].fills)
  /\ session' = [session EXCEPT ![t] = IdleSession]
  /\ UNCHANGED <<kind, cloning, sessions, hedgedBy, strain>>

\* An exception of the engine or the process's end rolls back what is not committed.
RollBack(t) ==
  /\ session[t].at = "submitting"
  /\ session' = [session EXCEPT ![t] = IdleSession]
  /\ strain' = strain \cup (IF kind = "hedged" THEN {"torn"} ELSE {})
  /\ UNCHANGED <<kind, held, cloning, sessions, hedgedBy>>

\* POST /account/sub: a sub-account is active from the start.
AddSub ==
  /\ ~cloning /\ cloning' = TRUE
  /\ strain' = IF held = NothingHeld /\ \A t \in Runners : session[t].at = "idle"
               THEN strain ELSE strain \cup {"clones"}
  /\ UNCHANGED <<kind, held, session, sessions, hedgedBy>>

StrategyNext ==
  \/ EnterSpread \/ EnterBasket \/ ExitSpread \/ EnterOptions \/ ExitOptions \/ Rebalance
  \/ ForceClose \/ AddSub
  \/ \E t \in Runners : SubmitEquity(t) \/ SubmitOption(t) \/ CommitSession(t) \/ RollBack(t)

StrategySpec == StrategyInit /\ [][StrategyNext]_strategyVars

-------------------------------------------------------------------------------
AtRest == \A t \in Runners : session[t].at = "idle"

\* A strategy that sees itself flat holds nothing, in any leg or account: its exits
\* unwind what its entries opened (pairs_kelly.py, "Closing must unwind EXACTLY
\* what was opened").  It takes a partial fill, a hedge ratio that moved, two
\* sessions at once, a sub-account whose clones count as the strategy's own, two
\* expiries at one strike, or an exit rolled back after its option was committed,
\* to leave a leg behind.
FlatHoldsNothing == strain = {} /\ AtRest /\ ~IsOpen => held = NothingHeld

\* The position of a strategy is reconstructed from its filled rows
\* (live_dispatch.py, "reconstructs a strategy's current open-position state from
\* real filled Order rows"): with options on its book it is open.
OptionsAreSeen ==
  AtRest /\ (\E s \in Strikes, e \in Expiries : Net(<<s, e>>) # 0) => IsOpen
===============================================================================
