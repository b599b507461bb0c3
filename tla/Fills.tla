-------------------------------- MODULE Fills --------------------------------
(* Positions, average cost and profit as accounting.py derives them from the  *)
(* filled rows of the order table.  A walk keeps, per symbol, the signed      *)
(* quantity and its cost, which is the code's avg_px times the quantity.      *)
(* Money is an integer number of units; where the code divides, a unit is     *)
(* the rounding.                                                              *)
EXTENDS Integers, FiniteSets, SequencesExt

CONSTANTS Symbols, Subs, Strategies, None

Sides == {"buy", "sell"}
Statuses ==
  {"pending_confirmation", "submitted", "filled", "partially_filled", "rejected", "cancelled"}

\* The status of a row after the engine answered a submit.
StatusOf(accepted, filled, qty) ==
  IF ~accepted THEN "rejected"
  ELSE IF filled = qty THEN "filled"
  ELSE IF filled > 0 THEN "partially_filled" ELSE "submitted"

\* An order row: the fields that the accounts and the routes read.
Row(sub, strategy, symbol, side, qty, filled, px, status, at) ==
  [sub |-> sub, strategy |-> strategy, symbol |-> symbol, side |-> side, qty |-> qty,
   filled |-> filled, px |-> px, status |-> status, at |-> at]

OrderRows ==
  [sub : Subs \cup {None}, strategy : Strategies \cup {None}, symbol : Symbols, side : Sides,
   qty : Nat, filled : Nat, px : Int, status : Statuses, at : Nat]

IsFill(row) == row.status \in {"filled", "partially_filled"} /\ row.filled > 0

Magnitude(n) == IF n < 0 THEN -n ELSE n
Signed(row) == IF row.side = "buy" THEN row.filled ELSE -row.filled

Walks ==
  [cash : Int, qty : [Symbols -> Int], cost : [Symbols -> Int], realized : [Symbols -> Int],
   last : Nat]

EmptyWalk(cash) ==
  [cash |-> cash, qty |-> [s \in Symbols |-> 0], cost |-> [s \in Symbols |-> 0],
   realized |-> [s \in Symbols |-> 0], last |-> 0]

\* The fill opens a position or adds to one in its own direction.
Opens(prev, signed) == prev = 0 \/ (prev > 0) = (signed > 0)

\* The part of the cost that leaves the position with the quantity it closes.
CostOut(prev, cost, signed) ==
  IF Magnitude(signed) >= Magnitude(prev) THEN cost
  ELSE (cost * Magnitude(signed)) \div Magnitude(prev)

\* What a fill that reduces, closes or flips a position earns.
Realized(prev, cost, signed, px) ==
  (IF prev > 0 THEN 1 ELSE -1) * Min({Magnitude(signed), Magnitude(prev)}) * px
    - CostOut(prev, cost, signed)

\* A flip that keeps the old average price.
NewCostKept(prev, cost, signed, px) ==
  IF Opens(prev, signed) THEN cost + signed * px
  ELSE cost - CostOut(prev, cost, signed)
NewCost(prev, cost, signed, px) ==
  IF Opens(prev, signed) THEN cost + signed * px
  ELSE IF Magnitude(signed) > Magnitude(prev) THEN (prev + signed) * px
  ELSE cost - CostOut(prev, cost, signed)

\* One fill folded into a walk (_apply_fill).
ApplyFill(walk, id, row) ==
  LET s == row.symbol
      signed == Signed(row)
      prev == walk.qty[s]
      cost == walk.cost[s]
      earned == IF Opens(prev, signed) THEN 0 ELSE Realized(prev, cost, signed, row.px)
  IN [cash |-> walk.cash - signed * row.px,
      qty |-> [walk.qty EXCEPT ![s] = prev + signed],
      cost |-> [walk.cost EXCEPT ![s] = NewCost(prev, cost, signed, row.px)],
      realized |-> [walk.realized EXCEPT ![s] = @ + earned],
      last |-> id]

\* The fills with the given ids folded in by id: the latest one comes last.
Walk(walk, table, ids) ==
  MapThenFoldSet(LAMBDA i, w : ApplyFill(w, i, table[i]), walk, LAMBDA i : i, Max, ids)

\* Which rows a view of the account is over: the primary book, one sub-account,
\* one strategy, or everything.
Scopes == {"all", "primary"} \cup Subs \cup Strategies
InScope(scope, row) ==
  \/ scope = "all"
  \/ scope = "primary" /\ row.sub = None
  \/ scope \in Subs /\ row.sub = scope
  \/ scope \in Strategies /\ row.strategy = scope

\* What a walk says of the account at the given prices.
ValueAtCost(walk) == walk.cash + MapThenSumSet(LAMBDA s : walk.cost[s], Symbols)
TotalRealized(walk) == MapThenSumSet(LAMBDA s : walk.realized[s], Symbols)
Unrealized(walk, mark) ==
  MapThenSumSet(LAMBDA s : walk.qty[s] * mark[s] - walk.cost[s],
                {s \in Symbols : walk.qty[s] # 0})
=============================================================================
