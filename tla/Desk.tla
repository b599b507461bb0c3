--------------------------------- MODULE Desk ---------------------------------
(* The paper desk of one user on one symbol: the tick loop of main.py, which   *)
(* runs the strategies, the execution algorithms, the brackets and the circuit *)
(* breaker in turn, and the routes of the thread pool that submit and cancel   *)
(* orders, close the pair, cancel brackets, start algorithms and lift a halt   *)
(* meanwhile.  All of them meet in the database, and none waits for another: a *)
(* step here is what a session reads together, or what it commits.  A call of  *)
(* the engine is part of the step that reads what its answer is recorded with. *)
EXTENDS Integers, FiniteSets, FiniteSetsExt, Functions

CONSTANTS
  Threads,        \* the thread pool
  Subs,           \* the sub-accounts the user may create
  Primary,        \* the primary book
  Scaled(_, _),   \* quantity of a sub-account's clone: max(1, round(qty * multiplier))
  Prices, StartPrice,  \* what the marks may be; the first one
  OrderRequests,  \* bodies of POST /orders: side, qty, px (0: market), stop and take (0: none)
  AlgoRequests,   \* bodies of POST /orders/algo: side, total, horizon, algo
  Signals,        \* what a strategy may emit: side and qty, and whether it trades the pair
  StartingCash, DrawdownPct,
  MaxEvents,      \* bound: orders, signals, closes, algorithms, sub-accounts, restarts
  MaxStart        \* bound: bars before the one at which a parent order starts

ASSUME DeskAssumption ==
  /\ Primary \notin Subs
  /\ MaxEvents \in Nat
  /\ StartingCash \in Nat \ {0}
  /\ Prices \subseteq Nat /\ StartPrice \in Nat
  /\ OrderRequests \subseteq [side : {"buy", "sell"}, qty : Nat \ {0}, px : Int,
                              stop : Int, take : Int]
  /\ AlgoRequests \subseteq [side : {"buy", "sell"}, total : Nat, horizon : Nat \ {0},
                             algo : {"twap", "vwap"}]
  /\ Signals \subseteq [side : {"buy", "sell"}, qty : Nat \ {0}, pair : BOOLEAN]

VARIABLES
  price,      \* the last mark of the symbol
  account,    \* position and cash of each scope, as the committed rows give them
  legs,       \* what the rows of the pair's strategy add up to, in all scopes
  rests,      \* rows that are partially filled, and what their fill did
  dropped,    \* what cancelled rows had done (see below)
  subs,       \* the sub-accounts that exist
  brackets,   \* the table of brackets
  parent,     \* the parent order of an execution algorithm
  halted,     \* RiskSettings.trading_halted
  loop,       \* the tick loop: its phase and what its session read
  route,      \* what each thread is doing
  events,     \* what has been counted so far
  history     \* what the properties except (see below)

books == <<account, legs, rests, dropped>>
vars == <<price, books, subs, brackets, parent, halted, loop, route, events, history>>

Scopes == {Primary} \cup Subs
BracketIds == 1..MaxEvents  \* of orders and of their brackets: the event
Opposite(side) == IF side = "buy" THEN "sell" ELSE "buy"
Signed(side, qty) == IF side = "buy" THEN qty ELSE -qty
Magnitude(n) == IF n < 0 THEN -n ELSE n

\* A signed quantity for every scope; what the engine may fill of it; the
\* accounts with these fills in their rows; all scopes together.
Nothing == [s \in Scopes |-> 0]
Between(n) == IF n < 0 THEN n..0 ELSE 0..n
Fillable(want) ==
  {f \in [Scopes -> UNION {Between(want[s]) : s \in Scopes}] :
     \A s \in Scopes : f[s] \in Between(want[s])}
Booked(fills, px) ==
  [s \in Scopes |-> [pos |-> account[s].pos + fills[s],
                     cash |-> account[s].cash - fills[s] * px]]
Altogether(fills) == MapThenSumSet(LAMBDA s : fills[s], Scopes)
OnPrimary(n) == [Nothing EXCEPT ![Primary] = n]

Bracket(side, qty, stop, take, status, closings) ==
  [side |-> side, qty |-> qty, stop |-> stop, take |-> take, status |-> status,
   closings |-> closings]
NoBracket == Bracket("buy", 0, 0, 0, "none", 0)
Becomes(b, status, closings) ==
  Bracket(brackets[b].side, brackets[b].qty, brackets[b].stop, brackets[b].take, status,
          closings)
Parent(side, total, horizon, algo, sent, elapsed, status, disturbed) ==
  [side |-> side, total |-> total, horizon |-> horizon, algo |-> algo, sent |-> sent,
   elapsed |-> elapsed, status |-> status, disturbed |-> disturbed]
NoParent == Parent("buy", 0, 1, "twap", 0, 0, "none", FALSE)
ParentWith(sent, elapsed, status, disturbed) ==
  Parent(parent.side, parent.total, parent.horizon, parent.algo, sent, elapsed, status,
         disturbed)
Active == {b \in BracketIds : brackets[b].status = "active"}
ActiveOf(side) == {b \in Active : brackets[b].side = side}

\* What a fill does to position and cash.
Effect(pos, cash) == [pos |-> pos, cash |-> cash]

\* What is missing in the rows of the primary book because their orders were
\* cancelled: the position, the proceeds of sales, and what of it a cached
\* snapshot, which has folded these rows before, still counts as cash.
Dropped(pos, sales, seen) == [pos |-> pos, sales |-> sales, seen |-> seen]

\* The position that was traded, whatever the rows tell.
Traded == account[Primary].pos + dropped.pos

\* The loop's session: the phase, fills of the engine, brackets to cancel,
\* brackets to close, the quantity of a slice, and whether it trades the pair.
Session(at, fills, cancels, closes, sliced, pair) ==
  [at |-> at, fills |-> fills, cancels |-> cancels, closes |-> closes, sliced |-> sliced,
   pair |-> pair]
Phase(at) == Session(at, Nothing, {}, {}, 0, FALSE)
Idle == [op |-> "idle"]

\* Histories: brackets that had changed when a route cancelled them; whether a route
\* committed a fill while another session was open, or dropped one while the loop was
\* flattening what it had read; whether a bracketed order traded against the position;
\* whether a purchase was not held against the cash.
History(contested, overlapped, mixed, unchecked) ==
  [contested |-> contested, overlapped |-> overlapped, mixed |-> mixed,
   unchecked |-> unchecked]
NoHistory == History({}, FALSE, FALSE, FALSE)
Unheld(bought) ==
  History(history.contested, history.overlapped, history.mixed, history.unchecked \/ bought)

LoopIsOpen == loop.at \in {"signal", "slice", "closing", "liquidating"}
OpenBeside(t) == LoopIsOpen \/ \E u \in Threads \ {t} : route[u].op = "committing"

Counted == events < MaxEvents /\ events' = events + 1

Init ==
  /\ price = StartPrice /\ halted = FALSE /\ subs = {}
  /\ account = [s \in Scopes |-> [pos |-> 0, cash |-> StartingCash]]
  /\ legs = 0
  /\ rests = [b \in BracketIds |-> Effect(0, 0)]
  /\ dropped = Dropped(0, 0, 0)
  /\ brackets = [b \in BracketIds |-> NoBracket]
  /\ parent = NoParent
  /\ loop = Phase("tick")
  /\ route = [t \in Threads |-> Idle]
  /\ events = 0
  /\ history = NoHistory

-------------------------------------------------------------------------------
(* An order submitted by the loop (submit_paper_order).  Every sub-account     *)
(* gets a clone; a fill of the primary book cancels the brackets it closes.    *)
ClonedToAll(side, qty) ==
  [s \in Scopes |-> IF s = Primary THEN Signed(side, qty)
                    ELSE IF s \in subs THEN Signed(side, Scaled(s, qty)) ELSE 0]

\* The brackets of the fill's own side.
ClosedByEntry(signed) ==
  CASE signed > 0 -> ActiveOf("buy")
    [] signed < 0 -> ActiveOf("sell")
    [] OTHER -> {}

\* cancel_brackets_closed_elsewhere: which brackets a primary fill cancels.
ClosedElsewhere(signed) ==
  CASE signed > 0 -> ActiveOf("sell")
    [] signed < 0 -> ActiveOf("buy")
    [] OTHER -> {}

Cancelled(ids) ==
  [b \in BracketIds |-> IF b \in ids THEN Becomes(b, "cancelled", brackets[b].closings)
                        ELSE brackets[b]]

\* The loop's session commits what it has done in the phase.
CommitLoop(at) ==
  /\ account' = Booked(loop.fills, price)
  /\ legs' = IF loop.pair THEN legs + Altogether(loop.fills) ELSE legs
  /\ brackets' = Cancelled(loop.cancels)
  /\ loop' = Phase(at)
  /\ history' = Unheld(loop.fills[Primary] > 0)

-------------------------------------------------------------------------------
(* The tick loop.                                                              *)

\* A parent order that is being created, and a bar later; past its horizon, one bar
\* is like another.
Starting(request, elapsed) == [op |-> "starting", request |-> request, elapsed |-> elapsed]
Later(r) ==
  Starting(r.request, IF r.elapsed > r.request.horizon THEN r.elapsed ELSE r.elapsed + 1)

\* step_all: a bar passes; its mark is the new price.
Tick ==
  /\ loop.at = "tick"
  /\ price' \in Prices
  /\ parent' = IF parent.status # "active" THEN parent
               ELSE ParentWith(parent.sent, parent.elapsed + 1, "active", parent.disturbed)
  /\ route' = [t \in Threads |-> IF route[t].op = "starting" THEN Later(route[t]) ELSE route[t]]
  /\ loop' = Phase("strategies")
  /\ UNCHANGED <<books, subs, brackets, halted, events, history>>

\* run_strategies_once: an enabled strategy may signal, unless trading is
\* halted; one that is not enabled does not.
Signal ==
  /\ loop.at = "strategies" /\ ~halted
  /\ \E s \in Signals : \E f \in Fillable(ClonedToAll(s.side, s.qty)) :
       loop' = Session("signal", f, ClosedElsewhere(f[Primary]), {}, 0, s.pair)
  /\ Counted
  /\ UNCHANGED <<price, books, subs, brackets, parent, halted, route, history>>

NoSignal ==
  /\ loop.at = "strategies"
  /\ loop' = Phase("algos")
  /\ UNCHANGED <<price, books, subs, brackets, parent, halted, route, events,
                 history>>

CommitSignal ==
  /\ loop.at = "signal" /\ CommitLoop("algos")
  /\ UNCHANGED <<price, rests, dropped, subs, parent, halted, route, events>>

\* How much of the parent a bar sends: TWAP an equal share, VWAP the share of
\* the bar's volume in a trailing window, the last bar what is left.
IsFinalBar == parent.elapsed = parent.horizon
SliceQtyFloor == {parent.total \div parent.horizon}
SliceQty ==
  IF IsFinalBar THEN {parent.total - parent.sent}
  ELSE IF parent.algo = "twap" THEN {parent.total \div parent.horizon}
  ELSE 0..parent.total

\* A halt skips the bars of a parent order; it does not stop its clock.
SkipsNothing == FALSE
SkipsSlices == halted

Advanced(qty) ==
  ParentWith(IF qty > 0 THEN parent.sent + qty ELSE parent.sent, parent.elapsed,
             IF IsFinalBar THEN "completed" ELSE parent.status, parent.disturbed)
Paused ==
  ParentWith(parent.sent, parent.elapsed, IF IsFinalBar THEN "completed" ELSE parent.status,
             parent.disturbed \/ IsFinalBar)
Overrun == ParentWith(parent.sent, parent.elapsed, "completed", parent.disturbed)

\* run_algo_orders_once, with a slice to send.
Slice ==
  /\ loop.at = "algos" /\ parent.status = "active"
  /\ parent.elapsed \in 1..parent.horizon /\ ~SkipsSlices
  /\ \E q \in SliceQty :
       \E f \in Fillable(ClonedToAll(parent.side, IF q > 0 THEN q ELSE 0)) :
         loop' = Session("slice", f, ClosedElsewhere(f[Primary]), {}, q, FALSE)
  /\ UNCHANGED <<price, books, subs, brackets, parent, halted, route, events,
                 history>>

\* run_algo_orders_once otherwise: no bar has passed, trading is halted, or the
\* horizon is over.
NoSlice ==
  /\ loop.at = "algos"
  /\ ~(parent.status = "active" /\ parent.elapsed \in 1..parent.horizon /\ ~SkipsSlices)
  /\ parent' = IF parent.status # "active" \/ parent.elapsed <= 0 THEN parent
               ELSE IF parent.elapsed > parent.horizon THEN Overrun ELSE Paused
  /\ loop' = Phase("brackets")
  /\ UNCHANGED <<price, books, subs, brackets, halted, route, events, history>>

CommitSlice ==
  /\ loop.at = "slice" /\ CommitLoop("brackets")
  /\ parent' = Advanced(loop.sliced)
  /\ UNCHANGED <<price, rests, dropped, subs, halted, route, events>>

\* check_trigger: a stop is on the losing side of the entry, a take on the other.
Triggered(b) ==
  LET br == brackets[b] IN
  IF br.side = "buy"
  THEN (br.stop # 0 /\ price <= br.stop) \/ (br.take # 0 /\ price >= br.take)
  ELSE (br.stop # 0 /\ price >= br.stop) \/ (br.take # 0 /\ price <= br.take)

\* monitor_brackets reads the active brackets; it closes each one that fires
\* without another look at its row.
ReadBrackets ==
  /\ loop.at = "brackets"
  /\ LET firing == {b \in Active : Triggered(b)} IN
       loop' = IF firing = {} THEN Phase("breaker")
               ELSE Session("closing", Nothing, {}, firing, 0, FALSE)
  /\ UNCHANGED <<price, books, subs, brackets, parent, halted, route, events,
                 history>>

\* _close_bracket for each of them, and the commit: a bracket is marked whatever
\* the engine filled of its order.
FireAgain(b) == Becomes(b, brackets[b].status, brackets[b].closings + 1)
Fire(b) == Becomes(b, "triggered", brackets[b].closings + 1)
CloseBrackets ==
  /\ loop.at = "closing"
  /\ \E filled \in [loop.closes -> 0..Max({brackets[b].qty : b \in loop.closes})] :
       /\ \A b \in loop.closes : filled[b] <= brackets[b].qty
       /\ LET signed == [b \in loop.closes |-> Signed(Opposite(brackets[b].side), filled[b])]
              net == MapThenSumSet(LAMBDA b : signed[b], loop.closes)
          IN /\ account' = Booked(OnPrimary(net), price)
             /\ history' = Unheld(\E b \in loop.closes : signed[b] > 0)
  /\ brackets' = [b \in BracketIds |-> IF b \in loop.closes THEN Fire(b) ELSE brackets[b]]
  /\ loop' = Phase("breaker")
  /\ UNCHANGED <<price, legs, rests, dropped, subs, parent, halted, route, events>>

\* check_circuit_breaker: the loss or gain of all scopes against the start.
Equity == StartingCash + MapThenSumSet(
            LAMBDA s : account[s].cash - StartingCash + account[s].pos * price, Scopes)
DrawdownReached == 100 * Magnitude(Equity - StartingCash) >= DrawdownPct * StartingCash

\* Only the trip itself flattens.
MustFlattenOnTrip == ~halted /\ DrawdownReached
MustFlatten == halted \/ DrawdownReached

\* Each scope is to be flattened from the positions the session read.
ReadPositions ==
  /\ loop.at = "breaker"
  /\ halted' = (halted \/ DrawdownReached)
  /\ loop' = IF MustFlatten
             THEN Session("liquidating", [s \in Scopes |->
                    IF s = Primary \/ s \in subs THEN -account[s].pos ELSE 0], {}, {}, 0, FALSE)
             ELSE Phase("tick")
  /\ UNCHANGED <<price, books, subs, brackets, parent, route, events, history>>

\* _liquidate_every_position: market orders that may fill in part only.
LiquidateWith(fills) ==
  /\ loop.at = "liquidating"
  /\ account' = Booked(fills, price)
  /\ brackets' = Cancelled(ClosedElsewhere(fills[Primary]))
  /\ loop' = Phase("tick")
  /\ history' = Unheld(fills[Primary] > 0)
  /\ UNCHANGED <<price, legs, rests, dropped, subs, parent, halted, route, events>>

Liquidate == \E f \in Fillable(loop.fills) : LiquidateWith(f)

\* The engine filled something of every order.
LiquidateSome ==
  \E f \in Fillable(loop.fills) :
    LiquidateWith(f) /\ \A s \in Scopes : loop.fills[s] # 0 => f[s] # 0

-------------------------------------------------------------------------------
(* The routes.                                                                 *)

\* submit_order: trading is not halted and the estimated cost is within the cash,
\* as a cached snapshot tells it.
Estimate(order) == order.qty * (IF order.px = 0 THEN price ELSE order.px)
CashSeen == account[Primary].cash + dropped.seen
HasCashForOne(order) == order.side = "sell" \/ price <= CashSeen
HasCash(order) == order.side = "sell" \/ Estimate(order) <= CashSeen

\* An order on its way: before the engine, and with its fills, before the commit.
\* "late" tells that trading was halted when it was checked; "raced" that a
\* purchase has been recorded since, or that nothing was checked at all.
Ordering(id, order, estimate, raced, late) ==
  [op |-> "ordering", id |-> id, order |-> order, estimate |-> estimate, raced |-> raced,
   late |-> late]
Committing(id, order, estimate, raced, late, fills, px, cancels) ==
  [op |-> "committing", id |-> id, order |-> order, estimate |-> estimate, raced |-> raced,
   late |-> late, fills |-> fills, px |-> px, cancels |-> cancels]
Raced(r) ==
  IF r.op = "ordering" THEN Ordering(r.id, r.order, r.estimate, TRUE, r.late)
  ELSE Committing(r.id, r.order, r.estimate, TRUE, r.late, r.fills, r.px, r.cancels)
OnItsWay(t) == route[t].op \in {"ordering", "committing"}

CheckOrder(t) ==
  /\ route[t].op = "idle" /\ ~halted
  /\ \E order \in OrderRequests :
       /\ HasCash(order)
       /\ route' = [route EXCEPT ![t] =
            Ordering(events + 1, order, Estimate(order), FALSE, halted)]
  /\ Counted
  /\ UNCHANGED <<price, books, subs, brackets, parent, halted, loop, history>>

\* What the engine makes of the order: a limit order fills at its limit or better.
Marketable(order) ==
  order.px = 0 \/ IF order.side = "buy" THEN price <= order.px ELSE price >= order.px

\* The engine's fills, and the brackets they close; the row of an order that has
\* filled nothing changes nothing here.
Answered(t, id, order, estimate, raced, late, fills) ==
  route' = [route EXCEPT ![t] =
    IF fills = Nothing THEN Idle
    ELSE Committing(id, order, estimate, raced, late, fills, price,
                    ClosedElsewhere(fills[Primary]))]

FillOrder(t) ==
  /\ route[t].op = "ordering"
  /\ LET order == route[t].order IN
     \E filled \in IF Marketable(order) THEN 0..order.qty ELSE {0} :
       Answered(t, route[t].id, order, route[t].estimate, route[t].raced, route[t].late,
                OnPrimary(Signed(order.side, filled)))
  /\ UNCHANGED <<price, books, subs, brackets, parent, halted, loop, events, history>>

\* force_close (POST /pairs/close): what the rows of the pair's strategy add up to
\* is sold or bought back like a signal of the loop, halted or not.
NoOrder == [side |-> "buy", qty |-> 0, px |-> 0, stop |-> 0, take |-> 0]

ReadLegs(t) ==
  /\ route[t].op = "idle" /\ legs # 0
  /\ route' = [route EXCEPT ![t] = [op |-> "unwinding", legs |-> legs]]
  /\ Counted
  /\ UNCHANGED <<price, books, subs, brackets, parent, halted, loop, history>>

CloseLegs(t) ==
  /\ route[t].op = "unwinding"
  /\ LET n == route[t].legs IN
     \E f \in Fillable(ClonedToAll(IF n > 0 THEN "sell" ELSE "buy", Magnitude(n))) :
       Answered(t, 0, NoOrder, 0, TRUE, FALSE, f)
  /\ UNCHANGED <<price, books, subs, brackets, parent, halted, loop, events, history>>

\* A bracket for what was filled, where the order asks for one.
Bracketed(order) == order.stop # 0 \/ order.take # 0
NewBracket(order, filled) ==
  Bracket(order.side, filled, order.stop, order.take, "active", 0)
WithBracket(id, order, filled, table) ==
  IF filled = 0 \/ ~Bracketed(order) THEN table
  ELSE [b \in BracketIds |-> IF b = id THEN NewBracket(order, filled) ELSE table[b]]

\* A limit order that is filled in part rests in the engine.
WithRest(id, order, filled, px) ==
  [b \in BracketIds |->
     IF b = id /\ order.px # 0 /\ filled < order.qty
     THEN Effect(Signed(order.side, filled), -Signed(order.side, filled) * px)
     ELSE rests[b]]

\* The commit of a route's fills.
CommitFills(t) ==
  /\ route[t].op = "committing"
  /\ LET r == route[t]
         signed == r.fills[Primary]
         filled == Magnitude(signed)
     IN
     /\ account' = Booked(r.fills, r.px)
     /\ legs' = IF r.order = NoOrder THEN legs + Altogether(r.fills) ELSE legs
     /\ rests' = WithRest(r.id, r.order, filled, r.px)
     /\ brackets' = WithBracket(r.id, r.order, filled, Cancelled(r.cancels))
     /\ route' = [u \in Threads |->
          IF u = t THEN Idle
          ELSE IF OnItsWay(u) /\ signed > 0 THEN Raced(route[u])
          ELSE route[u]]
     /\ history' = History(
          history.contested \cup {b \in r.cancels : brackets[b].status # "active"},
          history.overlapped \/ OpenBeside(t),
          history.mixed \/ (Bracketed(r.order)
                            /\ IF r.order.side = "buy" THEN Traded < 0 ELSE Traded > 0),
          history.unchecked \/ (signed > 0 /\ (r.raced \/ filled * r.px > r.estimate)))
  /\ UNCHANGED <<price, dropped, subs, parent, halted, loop, events>>

\* cancel_order (DELETE /orders/{id}), halted or not: the rest leaves the engine, and
\* the row counts no more, whatever had been filled of it.
CancelOrder(id) ==
  /\ rests[id].pos # 0
  /\ account' = [account EXCEPT ![Primary] =
       Effect(account[Primary].pos - rests[id].pos, account[Primary].cash - rests[id].cash)]
  /\ rests' = [rests EXCEPT ![id] = Effect(0, 0)]
  /\ \E folded \in BOOLEAN :
       dropped' = Dropped(dropped.pos + rests[id].pos,
                          dropped.sales + (IF rests[id].cash > 0 THEN rests[id].cash ELSE 0),
                          dropped.seen + (IF folded THEN rests[id].cash ELSE 0))
  /\ history' = History(history.contested,
       history.overlapped \/ loop.at = "liquidating", history.mixed, history.unchecked)
  /\ UNCHANGED <<price, legs, subs, brackets, parent, halted, loop, route, events>>

\* DELETE /orders/brackets/{id} reads the row, and later writes its status.
ReadBracket(t, b) ==
  /\ route[t].op = "idle" /\ b \in Active
  /\ route' = [route EXCEPT ![t] = [op |-> "deleting", bracket |-> b]]
  /\ UNCHANGED <<price, books, subs, brackets, parent, halted, loop, events,
                 history>>

DeleteBracket(t) ==
  /\ route[t].op = "deleting"
  /\ LET b == route[t].bracket IN
     /\ brackets' = Cancelled({b})
     /\ history' = History(
          history.contested \cup (IF brackets[b].status # "active" THEN {b} ELSE {}),
          history.overlapped, history.mixed, history.unchecked)
  /\ route' = [route EXCEPT ![t] = Idle]
  /\ UNCHANGED <<price, books, subs, parent, halted, loop, events>>

\* submit_algo_order (POST /orders/algo): trading is not halted, and the bar at which
\* the order starts is read; the order is there when it is committed.
ReadBar(t) ==
  /\ route[t].op = "idle" /\ ~halted
  /\ \E a \in AlgoRequests : route' = [route EXCEPT ![t] = Starting(a, 0)]
  /\ Counted
  /\ UNCHANGED <<price, books, subs, brackets, parent, halted, loop, history>>

\* Its last bar may have been sliced by then, and it will never see one.
Missed(a, elapsed) ==
  \/ elapsed > a.horizon
  \/ elapsed = a.horizon /\ loop.at \notin {"strategies", "signal", "algos"}

CommitAlgo(t) ==
  /\ route[t].op = "starting" /\ parent.status = "none"
  /\ LET a == route[t].request
         elapsed == route[t].elapsed
     IN parent' = Parent(a.side, a.total, a.horizon, a.algo, 0, elapsed, "active",
                         Missed(a, elapsed))
  /\ route' = [route EXCEPT ![t] = Idle]
  /\ UNCHANGED <<price, books, subs, brackets, halted, loop, events, history>>

\* POST /risk/reset-halt and POST /account/sub.
ResetHalt ==
  /\ halted /\ halted' = FALSE
  /\ UNCHANGED <<price, books, subs, brackets, parent, loop, route, events,
                 history>>

CreateSub(s) ==
  /\ s \notin subs /\ subs' = subs \cup {s}
  /\ Counted
  /\ UNCHANGED <<price, books, brackets, parent, halted, loop, route, history>>

\* The process restarts: sessions are rolled back, the bars count from zero,
\* though a parent order remembers the bar at which it started.
Restart ==
  /\ Counted
  /\ \E start \in 0..MaxStart :
       parent' = IF parent.status # "active" THEN parent
                 ELSE ParentWith(parent.sent, -start, "active", TRUE)
  /\ loop' = Phase("tick")
  /\ route' = [t \in Threads |-> Idle]
  /\ price' = StartPrice
  /\ dropped' = Dropped(dropped.pos, dropped.sales, 0)
  /\ UNCHANGED <<account, legs, rests, subs, brackets, halted, history>>

LoopStep ==
  \/ Tick \/ Signal \/ NoSignal \/ CommitSignal \/ Slice \/ NoSlice \/ CommitSlice
  \/ ReadBrackets \/ CloseBrackets \/ ReadPositions \/ Liquidate

Next ==
  \/ LoopStep
  \/ \E t \in Threads : \/ CheckOrder(t) \/ FillOrder(t) \/ CommitFills(t)
                        \/ ReadLegs(t) \/ CloseLegs(t)
                        \/ DeleteBracket(t) \/ \E b \in BracketIds : ReadBracket(t, b)
                        \/ ReadBar(t) \/ CommitAlgo(t)
  \/ \E id \in BracketIds : CancelOrder(id)
  \/ ResetHalt \/ Restart
  \/ \E s \in Subs : CreateSub(s)

\* The loop is a task that always runs on; the market maker quotes at every
\* step, so a market order that is repeated is filled a little now and then.
Spec == Init /\ [][Next]_vars
FairSpec == Spec /\ WF_vars(LoopStep) /\ SF_vars(LiquidateSome)

-------------------------------------------------------------------------------
\* Each active bracket watches a position that is still there: together they are
\* no larger than what was traded (main.py: "monitor_brackets only ever sees brackets
\* that are still genuinely watching an intact position").  It takes a fill a route
\* commits while another session is open, or a bracketed order that trades against
\* the position, to break this; the rows may tell less where a DELETE dropped some.
Watched(side) == MapThenSumSet(LAMBDA b : brackets[b].qty, ActiveOf(side))
ActiveCovered ==
  ~history.overlapped /\ ~history.mixed =>
    /\ Watched("buy") <= Max({0, Traded})
    /\ Watched("sell") <= Max({0, -Traded})

\* A bracket closes its position once, across restarts and rollbacks, and its row
\* tells so unless a route had read the row before and cancels it.
ClosesOnce ==
  \A b \in BracketIds :
    /\ brackets[b].closings <= 1
    /\ brackets[b].status = "triggered" => brackets[b].closings = 1
    /\ brackets[b].closings = 1 /\ b \notin history.contested => brackets[b].status = "triggered"

\* The cash is overdrawn by no more than the sales a DELETE dropped from the rows, or
\* by purchases that were not held against it: two routes checked the same cash, the
\* price slipped above the estimate, or the loop or a close of the pair bought
\* (submit_order, "Insufficient buying power").
OverdraftNeedsARace ==
  account[Primary].cash + dropped.sales < 0 => history.unchecked

\* A TWAP order that ran to its end has sent its total, in the bars or at the end
\* (slicer.py, "guarantees sum(slices) == total_qty exactly"), unless its last bar
\* fell in a halt or before its commit, or the process restarted, which counts its
\* bars anew.
TotalSent ==
  parent.algo = "twap" /\ ~parent.disturbed =>
    /\ parent.sent <= parent.total
    /\ parent.status = "completed" => parent.sent = parent.total

\* Under a halt, positions only shrink: a route that was checked before, or a close of
\* the pair that is no part of what each scope holds, may still make them grow, and a
\* DELETE makes the rows tell something else (slicer.py, "a halted account should not
\* keep quietly slicing a parent order out from under the halt").
RowsTell == dropped.pos = 0
Unwinds(r) == \A s \in Scopes : r.fills[s] \in Between(-account[s].pos)
HaltOnlyReduces ==
  [][halted /\ ~history.overlapped' /\ ~history.mixed /\ RowsTell /\ RowsTell'
       /\ (\A t \in Threads :
             route[t].op = "committing" => route[t].late \/ Unwinds(route[t]))
     => \A s \in Scopes : Magnitude(account'[s].pos) <= Magnitude(account[s].pos)]_vars

\* A halt ends with every position flat, unless it is lifted before
\* (check_circuit_breaker, "keep attempting to flatten any residual position").
Flat == \A s \in subs \cup {Primary} : account[s].pos = 0
HaltFlattens == halted ~> Flat \/ ~halted
===============================================================================
