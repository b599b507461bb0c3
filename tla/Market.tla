-------------------------------- MODULE Market --------------------------------
(* A market of the web application (SymbolMarket): the tick loop steps it,    *)
(* call by call of the engine, while routes on other threads submit to the    *)
(* same engine and read what the market keeps of its past: the owners of      *)
(* recent orders, the recent fills, prices and volumes.  None of these has a  *)
(* lock.  That two calls may take each other's answers is in EngineClient.    *)
EXTENDS Venue

CONSTANTS
  Routes,        \* threads that submit or read
  Steps,         \* bid and ask prices of the maker's quotes
  LotSize,       \* its quote size
  AgentOrders,   \* orders of the simulated traders: owner, side, qty, px, rests
  UserOrders,    \* orders of the web application's user
  Unknown,       \* UNKNOWN_OWNER
  MaxTracked,    \* MAX_TRACKED_ORDER_OWNERS
  MaxRecent,     \* recent fills kept
  MaxVolumes,    \* recent volumes kept
  MaxEntered,    \* bound: orders of one run
  MaxSteps       \* bound: steps of one run

\* The windows keep something, and every order is for something, at a price.
ASSUME MarketAssumption ==
  /\ MaxTracked \in Nat \ {0} /\ MaxRecent \in Nat \ {0} /\ MaxVolumes \in Nat \ {0}
  /\ LotSize \in Nat \ {0} /\ \A q \in Steps : q[1] \in Int /\ q[2] \in Int
  /\ \A o \in AgentOrders \cup UserOrders :
       o.qty \in Nat \ {0} /\ o.px \in Int /\ o.side \in {"buy", "sell"}

VARIABLES
  depth,     \* the engine's book
  quotes,    \* what the maker remembers; nobody calls its on_fill here
  ownerOf,   \* _order_owner: ids and owners, oldest first
  recent,    \* recent_fills
  stepNo, prices,  \* _step_count; how many prices are recorded, the first at step 0
  volumes,   \* recent_volume: the step each belongs to
  stepping,  \* the tick loop: its phase and the maker's calls still to make
  call,      \* per thread, a submit under way
  bars,      \* per route, a read of the history
  entered, trades  \* history: every id entered, every fill with its step

marketVars == <<depth, quotes, ownerOf, recent, stepNo, prices, volumes, stepping, call, bars,
                entered, trades>>

Loop == "loop"
Free == [at |-> "free"]

MarketInit ==
  /\ depth = {} /\ quotes = NewMaker /\ ownerOf = <<>> /\ recent = <<>>
  /\ stepNo = 0 /\ prices = 1 /\ volumes = <<>>
  /\ stepping = [at |-> "rest", todo |-> <<>>]
  /\ call = [t \in Routes \cup {Loop} |-> Free]
  /\ bars = [t \in Routes |-> Free]
  /\ entered = <<>> /\ trades = <<>>

\* The last entries of a list with a largest length.
Newest(s, n) == SubSeq(s, Max({1, Len(s) - n + 1}), Len(s))

-------------------------------------------------------------------------------
(* tracking_submit: the owner is noted, the engine is called, the fills noted. *)
Enter(t, order) ==
  /\ call[t] = Free /\ Len(entered) < MaxEntered
  /\ call' = [call EXCEPT ![t] = [at |-> "entered", order |-> order]]
  /\ ownerOf' = Newest(Append(ownerOf, [id |-> order.id, owner |-> order.owner]), MaxTracked)
  /\ entered' = Append(entered, order.id)

\* The fills of an answer, as it lists them.
Listed(fills) == [n \in 1..Cardinality(fills) |-> CHOOSE f \in fills : f.nth = n]

CallEngine(t) ==
  /\ call[t].at = "entered"
  /\ LET done == Submitted(depth, call[t].order) IN
       /\ depth' = done.book
       /\ call' = [call EXCEPT ![t] = [at |-> "answered", fills |-> Listed(done.fills)]]
  /\ UNCHANGED <<quotes, ownerOf, recent, stepNo, prices, volumes, stepping, bars, entered,
                 trades>>

Owner(id) ==
  IF \E e \in ToSet(ownerOf) : e.id = id
  THEN (CHOOSE e \in ToSet(ownerOf) : e.id = id).owner ELSE Unknown

Fill(f, at, takerOwner, makerOwner) ==
  [step |-> at, taker |-> f.taker, maker |-> f.maker, side |-> f.side, qty |-> f.qty,
   takerOwner |-> takerOwner, makerOwner |-> makerOwner]

RecordFills(t) ==
  /\ call[t].at = "answered"
  /\ LET fills == call[t].fills
         now == [i \in DOMAIN fills |-> Fill(fills[i], stepNo, fills[i].takerOwner, fills[i].makerOwner)]
         noted == [i \in DOMAIN fills |->
           Fill(fills[i], stepNo, Owner(fills[i].taker), Owner(fills[i].maker))]
     IN /\ recent' = Newest(recent \o noted, MaxRecent)
        /\ trades' = trades \o now
  /\ call' = [call EXCEPT ![t] = Free]
  /\ UNCHANGED <<depth, quotes, ownerOf, stepNo, prices, volumes, stepping, bars, entered>>

-------------------------------------------------------------------------------
(* The tick loop: the maker's quotes, the traders, the mark and the volume.    *)
BeginStep ==
  /\ stepping.at = "rest" /\ stepNo < MaxSteps /\ stepNo' = stepNo + 1
  /\ \E q \in Steps :
       /\ stepping' = [at |-> "quoting", todo |-> QuoteCalls("maker", quotes, q[1], q[2], LotSize)]
       /\ quotes' = Quoted("maker", quotes, q[1], q[2])
  /\ UNCHANGED <<depth, ownerOf, recent, prices, volumes, call, bars, entered, trades>>

MakerCancels ==
  /\ stepping.todo # <<>> /\ call[Loop] = Free /\ Head(stepping.todo).op = "cancel"
  /\ depth' = Without(depth, {Head(stepping.todo).id})
  /\ stepping' = [stepping EXCEPT !.todo = Tail(@)]
  /\ UNCHANGED <<quotes, ownerOf, recent, stepNo, prices, volumes, call, bars, entered, trades>>

MakerSubmits ==
  /\ stepping.todo # <<>> /\ Head(stepping.todo).op = "submit"
  /\ Enter(Loop, Head(stepping.todo).order)
  /\ stepping' = [stepping EXCEPT !.todo = Tail(@)]
  /\ UNCHANGED <<depth, quotes, recent, stepNo, prices, volumes, bars, trades>>

TraderActs ==
  /\ stepping.at = "quoting" /\ stepping.todo = <<>>
  /\ \E o \in AgentOrders :
       Enter(Loop, Order(<<o.owner, Len(entered) + 1>>, o.owner, o.side, o.qty, o.px, o.rests))
  /\ UNCHANGED <<depth, quotes, recent, stepNo, prices, volumes, stepping, bars, trades>>

RecordPrice ==
  /\ stepping.at = "quoting" /\ stepping.todo = <<>> /\ call[Loop] = Free
  /\ prices' = prices + 1 /\ stepping' = [stepping EXCEPT !.at = "priced"]
  /\ UNCHANGED <<depth, quotes, ownerOf, recent, stepNo, volumes, call, bars, entered, trades>>

RecordVolume ==
  /\ stepping.at = "priced"
  /\ volumes' = Newest(Append(volumes, stepNo), MaxVolumes)
  /\ stepping' = [stepping EXCEPT !.at = "rest"]
  /\ UNCHANGED <<depth, quotes, ownerOf, recent, stepNo, prices, call, bars, entered, trades>>

-------------------------------------------------------------------------------
(* The routes.                                                                 *)
SubmitOrder(t) ==
  /\ \E o \in UserOrders :
       Enter(t, Order(<<"user", Len(entered) + 1>>, "user", o.side, o.qty, o.px, o.rests))
  /\ UNCHANGED <<depth, quotes, recent, stepNo, prices, volumes, stepping, bars, trades>>

\* GET /market/history: the prices, the last of which is of step prices - 1, then
\* the volumes, padded in front: the last of each make the last bar.
ReadPrices(t) ==
  /\ bars[t].at # "priced"
  /\ bars' = [bars EXCEPT ![t] = [at |-> "priced", price |-> prices - 1]]
  /\ UNCHANGED <<depth, quotes, ownerOf, recent, stepNo, prices, volumes, stepping, call, entered,
                 trades>>

LatestVolume == IF volumes = <<>> THEN 0 ELSE volumes[Len(volumes)]
PaddedAfter == IF Len(volumes) < prices THEN 0 ELSE LatestVolume
VolumeOfLastBar == LatestVolume

ReadVolumes(t) ==
  /\ bars[t].at = "priced"
  /\ bars' = [bars EXCEPT ![t] =
       [at |-> "read", price |-> bars[t].price, volume |-> VolumeOfLastBar,
        raced |-> stepping.at = "priced" \/ prices - 1 # bars[t].price]]
  /\ UNCHANGED <<depth, quotes, ownerOf, recent, stepNo, prices, volumes, stepping, call, entered,
                 trades>>

\* GET /leaderboard since a time so many steps back: what an owner's position has
\* changed by, from all retained fills and from those up to then; and what it says
\* of its window.
After(fills, cutoff) == {f \in ToSet(fills) : f.step > cutoff}
UpTo(cutoff) == {f \in ToSet(recent) : f.step <= cutoff}
Change(owner, cutoff) == Gained(owner, ToSet(recent)) - Gained(owner, UpTo(cutoff))
AtCapacity == Len(recent) = MaxRecent
CoverageLate(cutoff) == ~(AtCapacity /\ recent[1].step > cutoff + 1)
CoverageComplete(cutoff) == ~(AtCapacity /\ recent[1].step > cutoff)

MarketNext ==
  \/ BeginStep \/ MakerCancels \/ MakerSubmits \/ TraderActs \/ RecordPrice \/ RecordVolume
  \/ \E t \in Routes \cup {Loop} : CallEngine(t) \/ RecordFills(t)
  \/ \E t \in Routes : SubmitOrder(t) \/ ReadPrices(t) \/ ReadVolumes(t)

MarketSpec == MarketInit /\ [][MarketNext]_marketVars

-------------------------------------------------------------------------------
\* A recorded fill names its two owners, or says that it does not know one whose
\* order was entered so long ago that it is no longer tracked; and a leaderboard
\* that calls its window complete counts all that an owner traded since its cutoff.
FillsAreAttributed ==
  /\ \A f \in ToSet(recent) : \A side \in {<<f.taker, f.takerOwner>>, <<f.maker, f.makerOwner>>} :
       \/ side[2] = side[1][1]
       \/ /\ side[2] = Unknown
          /\ \E i \in DOMAIN entered : entered[i] = side[1] /\ Len(entered) - i >= MaxTracked
  /\ \A cutoff \in -1..stepNo : CoverageComplete(cutoff) =>
       \/ \E f \in After(recent, cutoff) : Unknown \in {f.takerOwner, f.makerOwner}
       \/ \A f \in ToSet(trades) : \A owner \in {f.takerOwner, f.makerOwner} :
            Change(owner, cutoff) = Gained(owner, After(trades, cutoff))

\* A history pairs each price with the volume of its own step, unless a step
\* ended between its two reads or was between its own two records.
BarsPairUp ==
  \A t \in Routes : bars[t].at = "read" /\ ~bars[t].raced => bars[t].volume = bars[t].price
===============================================================================
