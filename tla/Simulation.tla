------------------------------ MODULE Simulation ------------------------------
(* A simulated market with several makers, as simulate.py and compare_makers  *)
(* run it: in every step each maker renews its quotes, then each trader may   *)
(* send an order, whose fills are routed to the makers they concern.          *)
EXTENDS Venue

CONSTANTS
  Quotable,    \* bid and ask prices a maker's rounding can arrive at
  Size,        \* quote size
  TraderOrders,  \* what a noise or an informed trader may send: owner, side, qty, px, rests
  MaxTurns     \* bound: turns of one run

\* A maker never quotes a crossed or locked market, every order is for something, no
\* trader is a maker, and no order has None for its id.
ASSUME SimulationAssumption ==
  /\ \A q \in Quotable : q[1] \in Int /\ q[2] \in Int /\ q[1] < q[2]
  /\ Size \in Nat \ {0}
  /\ \A order \in TraderOrders : order.qty \in Nat \ {0} /\ order.owner \notin Makers
  /\ None \notin Makers \X Nat

VARIABLES
  floor,     \* the engine's book
  desks,     \* per maker, what it remembers
  waiting,   \* makers that have not quoted in this step
  turns,     \* turns taken so far
  net,       \* history: what each maker traded
  unseen,    \* history: makers with a side in a fill of another maker's quotes
  metItself  \* history: makers whose new quotes met their own

simVars == <<floor, desks, waiting, turns, net, unseen, metItself>>

SimInit ==
  /\ floor = {} /\ desks = [m \in Makers |-> NewMaker]
  /\ waiting = Makers /\ turns = 0
  /\ net = [m \in Makers |-> 0] /\ unseen = {} /\ metItself = {}

Turn == turns < MaxTurns /\ turns' = turns + 1
Parties(fills) == {f.makerOwner : f \in fills} \cup {f.takerOwner : f \in fills}

\* A maker renews its quotes, at prices of its own formula.
RefreshQuotes(m, bidPx, askPx) ==
  LET played == Played(floor, QuoteCalls(m, desks[m], bidPx, askPx, Size)) IN
  /\ m \in waiting /\ waiting' = waiting \ {m}
  /\ floor' = played.book
  /\ desks' = [desks EXCEPT ![m] = Quoted(m, @, bidPx, askPx)]
  /\ net' = [x \in Makers |-> net[x] + Gained(x, played.fills)]
  /\ unseen' = unseen \cup (Parties(played.fills) \cap Makers)
  /\ metItself' = metItself \cup {id[1] : id \in played.swept}
  /\ Turn

\* A trader's order, or none: the resting and the aggressing maker both book it.
TakerOnly(fills, m) == Gained(m, {f \in fills : f.takerOwner = m})
Booked(fills, m) == Gained(m, fills)

Act(order) ==
  LET done == Submitted(floor, Order(<<order.owner, turns + 1>>, order.owner,
                                     order.side, order.qty, order.px, order.rests))
  IN /\ waiting = {}
     /\ floor' = done.book
     /\ desks' = [m \in Makers |-> [desks[m] EXCEPT !.inventory = @ + Booked(done.fills, m)]]
     /\ net' = [m \in Makers |-> net[m] + Gained(m, done.fills)]
     /\ Turn
     /\ UNCHANGED <<waiting, unseen, metItself>>

NextStep ==
  /\ waiting = {} /\ waiting' = Makers
  /\ UNCHANGED <<floor, desks, turns, net, unseen, metItself>>

SimNext ==
  \/ \E m \in Makers : \E q \in Quotable : RefreshQuotes(m, q[1], q[2])
  \/ \E order \in TraderOrders : Act(order)
  \/ NextStep

SimSpec == SimInit /\ [][SimNext]_simVars

-------------------------------------------------------------------------------
\* A maker has nothing in the book but its last two quotes; it never meets itself
\* (agents.py: "never risk a self-trade"); and its inventory is what it traded,
\* unless it had a side in a fill of somebody's new quotes, which refresh_quotes
\* does not look at.
MakersOwnTheirQuotes ==
  \A m \in Makers :
    /\ {r.id : r \in Resting(floor, m)} \subseteq {desks[m].bid, desks[m].ask}
    /\ desks[m].inventory = net[m] \/ m \in unseen
    /\ m \notin metItself
===============================================================================
