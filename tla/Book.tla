-------------------------------- MODULE Book --------------------------------
(***************************************************************************)
(* The limit order book of internal/book (book.go, stops.go): one          *)
(* instrument, strict price-time priority, stop-limit orders, immediate-   *)
(* or-cancel and fill-or-kill, cancel-oldest self-trade prevention, a      *)
(* price collar and a position limit.                                      *)
(*                                                                         *)
(* The book is sequential: a caller runs one Submit or Cancel to           *)
(* completion.  A Submit is nevertheless a long computation (it walks the  *)
(* opposite side, then releases the stops its trades activated, each of    *)
(* which is submitted in turn by a nested call), so it is modelled as the  *)
(* small steps of that computation:                                        *)
(*   - phase says where the innermost submit() is: "match" in              *)
(*     matchAgainst, "trigger" in the loop of runTriggers, "idle" when no  *)
(*     call is running;                                                    *)
(*   - cur is the order the innermost submit() is matching;                *)
(*   - stack holds the loop counter of every runTriggers call in progress. *)
(*                                                                         *)
(* Time priority is kept here as an arrival number on each order; module   *)
(* BookList keeps the queues, the arena and the index as the code does.    *)
(***************************************************************************)
EXTENDS Integers, FiniteSets, SequencesExt

CONSTANTS
  OrderIds,        \* order ids the callers use; an id may be reused once dead
  Owners,          \* participants
  Orders,          \* the orders callers submit: records without an id
  MinPx, MaxPx, Tick,
  Capacity,        \* slots of the arena: orders live at once
  PriceCollarBps,  \* 0 disables the collar
  PositionLimit,   \* 0 disables the limit
  MaxCascades,     \* maxTriggerCascades
  MaxSubmits       \* bound on accepted submits, for model checking only

Sides == {"buy", "sell"}
Types == {"limit", "market", "stop_limit"}
TIFs  == {"GTC", "IOC", "FOK"}

ASSUME BookAssumption ==
  /\ MinPx \in Int /\ MaxPx \in Int /\ MinPx < MaxPx
  /\ Tick \in Nat \ {0} /\ (MaxPx - MinPx) % Tick = 0
  /\ Capacity \in Nat \ {0}
  /\ PriceCollarBps \in Nat /\ PositionLimit \in Nat
  /\ IsFiniteSet(Owners)
  /\ MaxCascades \in Nat \ {0} /\ MaxSubmits \in Nat
  /\ Orders \subseteq [owner : Owners, side : Sides, type : Types, px : Int,
                       stop : Int, qty : Int, tif : TIFs]

VARIABLES
  live,       \* the index and the arena: [id -> node], its domain the live ids
  arrSeq,     \* arrival numbers handed out
  hasLast, lastPx,
  positions,  \* net filled quantity per owner
  fills,      \* fills of the running Submit, in order
  phase, cur, stack,
  result,     \* what the last completed call returned
  accepted,   \* number of accepted submits, bounded by MaxSubmits
  entry,      \* history: the book when the running Submit began
  released,   \* history: stops the running Submit has released
  capped,     \* history: a runTriggers loop gave up at MaxCascades
  reached     \* history: parked stops whose trigger price has traded

book == <<live, arrSeq, hasLast, lastPx, positions>>
history == <<entry, released, capped, reached>>
vars == <<book, fills, phase, cur, stack, result, accepted, history>>

NoTask == <<>>
NoEntry == <<>>

-----------------------------------------------------------------------------
(* Prices and sides *)

ValidPx(p) == p \in MinPx .. MaxPx /\ (p - MinPx) % Tick = 0

Opposite(side) == IF side = "buy" THEN "sell" ELSE "buy"

Signed(side, q) == IF side = "buy" THEN q ELSE -q

Abs(n) == IF n < 0 THEN -n ELSE n

\* Mutant of Crosses: the comparison in matchAgainst made strict.
CrossesStrictly(side, limit, p) == IF side = "buy" THEN p < limit ELSE p > limit

\* A taker on this side with this limit trades at price p.
Crosses(side, limit, p) == IF side = "buy" THEN p <= limit ELSE p >= limit

\* The last trade has reached a stop: upward for a buy, downward for a sell.
Triggered(side, stopPx, last) == IF side = "buy" THEN last >= stopPx ELSE last <= stopPx

-----------------------------------------------------------------------------
(* The two kinds of queue: resting orders and parked stops *)

Without(id) == Restrict(live, DOMAIN live \ {id})
With(id, n) == [i \in DOMAIN live \cup {id} |-> IF i = id THEN n ELSE live[i]]

HasRoom == Cardinality(DOMAIN live) < Capacity

Resting(side) == {i \in DOMAIN live : ~live[i].pending /\ live[i].side = side}
Parked(side)  == {i \in DOMAIN live : live[i].pending /\ live[i].side = side}

\* Resting orders a taker may walk, its own orders included.
Reachable(side, limit) ==
  {i \in Resting(Opposite(side)) : Crosses(side, limit, live[i].level)}

\* Mutant of Precedes: arrival decides whatever the price.
PrecedesByArrival(side, i, j) == live[i].seq < live[j].seq

\* i is served before j by a taker on this side: better price, then arrival.
Precedes(side, i, j) ==
  \/ live[i].level # live[j].level /\ Crosses(side, live[j].level, live[i].level)
  \/ live[i].level = live[j].level /\ live[i].seq < live[j].seq

\* The head of the best level: the order matchAgainst looks at next.
IsMaker(m) ==
  /\ m \in Reachable(cur.side, cur.px)
  /\ \A j \in Reachable(cur.side, cur.px) \ {m} : Precedes(cur.side, m, j)

\* Mutant of Available: the taker's own resting quantity is counted.
AvailableCountingOwn(side, owner, limit) ==
  MapThenSumSet(LAMBDA i : live[i].qty, Reachable(side, limit))

\* available: what a taker could fill, its own resting orders left out.
Available(side, owner, limit) ==
  MapThenSumSet(LAMBDA i : live[i].qty,
                {i \in Reachable(side, limit) : live[i].owner # owner})

\* popTriggered: activated buy stops from the lowest trigger up, then sell
\* stops from the highest down, first come first served at one trigger.
Activated(side) == {i \in Parked(side) : hasLast /\ Triggered(side, live[i].level, lastPx)}

IsTriggered(m) ==
  LET side == live[m].side
  IN  /\ m \in Activated("buy") \cup Activated("sell")
      /\ Activated("buy") # {} => side = "buy"
      /\ \A j \in Activated(side) \ {m} : Precedes(side, m, j)

NoneTriggered == Activated("buy") \cup Activated("sell") = {}

-----------------------------------------------------------------------------
(* The checks at the head of submit() *)

\* Quantity, identity and band.
WellFormed(id, o) ==
  /\ o.qty > 0
  /\ id \notin DOMAIN live
  /\ o.type # "market" => ValidPx(o.px)
  /\ o.type = "stop_limit" => ValidPx(o.stop)

\* Mutant of Parks: a stop the market has already passed is parked too.
ParksAlways(o) == o.type = "stop_limit"

\* A stop is parked unless the market is already through its trigger.
Parks(o) == o.type = "stop_limit" /\ ~(hasLast /\ Triggered(o.side, o.stop, lastPx))

\* What submit() goes on with: a passed stop is a limit order; a market order
\* is a limit order at the far edge of the band that never rests.
Effective(o) ==
  [owner |-> o.owner, side |-> o.side, qty |-> o.qty,
   type  |-> IF o.type = "market" THEN "market" ELSE "limit",
   px    |-> IF o.type # "market" THEN o.px
             ELSE IF o.side = "buy" THEN MaxPx ELSE MinPx,
   tif   |-> IF o.type = "market" /\ o.tif = "GTC" THEN "IOC" ELSE o.tif]

WithinPriceCollar(px) == Abs(px - lastPx) * 10000 <= lastPx * PriceCollarBps

\* Mutant of WithinPositionLimit: a sell counted as a buy.
WithinPositionLimitUnsigned(o) == Abs(positions[o.owner] + o.qty) <= PositionLimit

WithinPositionLimit(o) == Abs(positions[o.owner] + Signed(o.side, o.qty)) <= PositionLimit

\* Mutant of Moved: the maker's side of the fill is forgotten.
MovedTakerOnly(taker, maker, side, q) ==
  [positions EXCEPT ![taker] = @ + Signed(side, q)]

\* applyPositionDelta on both sides of a fill, the taker being on this side.
Moved(taker, maker, side, q) ==
  [positions EXCEPT ![taker] = @ + Signed(side, q), ![maker] = @ - Signed(side, q)]

Admissible(o) ==
  /\ o.type = "limit" /\ PriceCollarBps > 0 /\ hasLast => WithinPriceCollar(o.px)
  /\ PositionLimit > 0 => WithinPositionLimit(o)
  /\ o.tif = "FOK" => Available(o.side, o.owner, o.px) >= o.qty

Task(id, o) == [id |-> id, owner |-> o.owner, side |-> o.side, px |-> o.px,
                qty |-> o.qty, rem |-> o.qty, tif |-> o.tif]

Node(o, level, qty, pending) ==
  [owner |-> o.owner, side |-> o.side, px |-> o.px, level |-> level, qty |-> qty,
   seq |-> arrSeq + 1, tif |-> o.tif, pending |-> pending]

-----------------------------------------------------------------------------
Init ==
  /\ live = <<>> /\ arrSeq = 0
  /\ hasLast = FALSE /\ lastPx = 0
  /\ positions = [o \in Owners |-> 0]
  /\ fills = <<>> /\ phase = "idle" /\ cur = NoTask /\ stack = <<>>
  /\ result = "none" /\ accepted = 0
  /\ entry = NoEntry /\ released = 0 /\ capped = FALSE /\ reached = {}

(***************************************************************************)
(* Calls from the idle book                                                *)
(***************************************************************************)

\* A submit refused by its checks.
RejectSubmit(id, o) ==
  /\ phase = "idle"
  /\ ~(WellFormed(id, o) /\ (Parks(o) \/ Admissible(Effective(o))))
  /\ result' = "rejected"
  /\ UNCHANGED <<book, fills, phase, cur, stack, accepted, history>>

\* park: neither the collar nor the position limit is consulted, and no
\* trigger is run.
Park(id, o) ==
  /\ phase = "idle" /\ accepted < MaxSubmits
  /\ WellFormed(id, o) /\ Parks(o) /\ HasRoom
  /\ live' = With(id, Node(o, o.stop, o.qty, TRUE))
  /\ arrSeq' = arrSeq + 1
  /\ result' = "none" /\ accepted' = accepted + 1
  /\ UNCHANGED <<hasLast, lastPx, positions, fills, phase, cur, stack, history>>

ParkFull(id, o) ==
  /\ phase = "idle"
  /\ WellFormed(id, o) /\ Parks(o) /\ ~HasRoom
  /\ result' = "book_full"
  /\ UNCHANGED <<book, fills, phase, cur, stack, accepted, history>>

\* An admitted order starts matching.
Take(id, o) ==
  /\ phase = "idle" /\ accepted < MaxSubmits
  /\ WellFormed(id, o) /\ ~Parks(o) /\ Admissible(Effective(o))
  /\ phase' = "match" /\ cur' = Task(id, Effective(o))
  /\ result' = "none" /\ accepted' = accepted + 1
  /\ entry' = book
  /\ UNCHANGED <<book, fills, stack, released, capped, reached>>

\* Cancel removes a resting or a parked order alike.
Cancel(id) ==
  /\ phase = "idle" /\ id \in DOMAIN live
  /\ live' = Without(id)
  /\ reached' = reached \ {id}
  /\ result' = "none"
  /\ UNCHANGED <<arrSeq, hasLast, lastPx, positions, fills, phase, cur, stack,
                 accepted, entry, released, capped>>

CancelUnknown(id) ==
  /\ phase = "idle" /\ id \notin DOMAIN live
  /\ result' = "rejected"
  /\ UNCHANGED <<book, fills, phase, cur, stack, accepted, history>>

(***************************************************************************)
(* matchAgainst and consume, one resting order at a time                   *)
(***************************************************************************)

\* The resting order is filled at its own price; it leaves when exhausted.
Fill(m) ==
  /\ phase = "match" /\ cur.rem > 0 /\ IsMaker(m)
  /\ live[m].owner # cur.owner
  /\ LET n == live[m]
         q == Min({cur.rem, n.qty})
     IN  /\ fills' = Append(fills, [taker |-> cur.id, maker |-> m, px |-> n.px,
                                    qty |-> q, side |-> cur.side, limit |-> cur.px])
         /\ live' = IF q = n.qty THEN Without(m) ELSE [live EXCEPT ![m].qty = @ - q]
         /\ cur' = [cur EXCEPT !.rem = @ - q]
         /\ hasLast' = TRUE /\ lastPx' = n.px
         /\ positions' = Moved(cur.owner, n.owner, cur.side, q)
         /\ reached' = reached \cup {i \in DOMAIN live : live[i].pending
                           /\ Triggered(live[i].side, live[i].level, n.px)}
  /\ UNCHANGED <<arrSeq, phase, stack, result, accepted, entry, released, capped>>

\* Mutant of CancelOwn: the taker's own order is passed over and left in place.
SkipOwn(m) ==
  /\ phase = "match" /\ cur.rem > 0 /\ IsMaker(m)
  /\ live[m].owner = cur.owner
  /\ UNCHANGED vars

\* Self-trade prevention: the taker's own resting order is cancelled.
CancelOwn(m) ==
  /\ phase = "match" /\ cur.rem > 0 /\ IsMaker(m)
  /\ live[m].owner = cur.owner
  /\ live' = Without(m)
  /\ UNCHANGED <<arrSeq, hasLast, lastPx, positions, fills, phase, cur, stack,
                 result, accepted, history>>

MatchDone == phase = "match" /\ (cur.rem = 0 \/ Reachable(cur.side, cur.px) = {})

\* runTriggers is entered with a loop counter of its own.
EnterRunTriggers ==
  /\ phase' = "trigger" /\ cur' = NoTask /\ stack' = Append(stack, 0)

\* rest: the remainder of a good-till-cancelled order joins its level's tail.
Rest ==
  /\ MatchDone /\ cur.rem > 0 /\ cur.tif = "GTC" /\ HasRoom
  /\ live' = With(cur.id, Node(cur, cur.px, cur.rem, FALSE))
  /\ arrSeq' = arrSeq + 1
  /\ EnterRunTriggers
  /\ UNCHANGED <<hasLast, lastPx, positions, fills, result, accepted, history>>

\* Nothing is left, or the remainder may not rest and is dropped.
Drop ==
  /\ MatchDone /\ (cur.rem = 0 \/ cur.tif # "GTC")
  /\ EnterRunTriggers
  /\ UNCHANGED <<book, fills, result, accepted, history>>

\* The call returns to its caller, which may start another.
Answer(r) ==
  /\ phase' = "idle" /\ result' = r
  /\ fills' = <<>> /\ entry' = NoEntry /\ released' = 0

\* Mutant of RestFull: arrSeq incremented before the free slot is looked for.
RestFullNumbered ==
  /\ MatchDone /\ cur.rem > 0 /\ cur.tif = "GTC" /\ ~HasRoom /\ stack = <<>>
  /\ cur' = NoTask /\ Answer("book_full") /\ accepted' = accepted - 1
  /\ arrSeq' = arrSeq + 1
  /\ UNCHANGED <<live, hasLast, lastPx, positions, stack, capped, reached>>

\* No slot for the remainder: submit returns before it runs the triggers, to
\* the caller or to the runTriggers loop that released this stop.
RestFull ==
  /\ MatchDone /\ cur.rem > 0 /\ cur.tif = "GTC" /\ ~HasRoom
  /\ cur' = NoTask
  /\ IF stack = <<>>
     THEN Answer("book_full") /\ accepted' = accepted - 1
     ELSE phase' = "trigger" /\ UNCHANGED <<fills, result, accepted, entry, released>>
  /\ UNCHANGED <<book, stack, capped, reached>>

(***************************************************************************)
(* runTriggers                                                             *)
(***************************************************************************)

Cascade == stack[Len(stack)]
NextCascade == stack' = [stack EXCEPT ![Len(stack)] = @ + 1]

ReleaseNext(m) ==
  /\ phase = "trigger" /\ Cascade < MaxCascades
  /\ m \in DOMAIN live /\ IsTriggered(m)
  /\ live' = Without(m)
  /\ reached' = reached \ {m}
  /\ released' = released + 1
  /\ NextCascade

\* The stop as the limit order runTriggers submits.
AsLimit(m) == [owner |-> live[m].owner, side |-> live[m].side, type |-> "limit",
               px |-> live[m].px, qty |-> live[m].qty, tif |-> live[m].tif]

\* A released stop is submitted by a nested call.
Release(m) ==
  /\ ReleaseNext(m)
  /\ Admissible(AsLimit(m))
  /\ phase' = "match" /\ cur' = Task(m, AsLimit(m))
  /\ UNCHANGED <<arrSeq, hasLast, lastPx, positions, fills, result, accepted,
                 entry, capped>>

\* The reason a released stop is refused for is dropped with the stop.
ReleaseRefused(m) ==
  /\ ReleaseNext(m)
  /\ ~Admissible(AsLimit(m))
  /\ UNCHANGED <<arrSeq, hasLast, lastPx, positions, fills, phase, cur, result,
                 accepted, entry, capped>>

\* The loop ends, on a quiet market or at the cap, and control goes back to
\* the loop that released this stop or to the caller.
Return ==
  /\ phase = "trigger" /\ (NoneTriggered \/ Cascade = MaxCascades)
  /\ stack' = Front(stack)
  /\ capped' = ~NoneTriggered
  /\ IF Len(stack) = 1
     THEN Answer(result)
     ELSE UNCHANGED <<phase, result, fills, entry, released>>
  /\ UNCHANGED <<book, cur, accepted, reached>>

-----------------------------------------------------------------------------
Call == \E id \in OrderIds :
  \/ \E o \in Orders : \/ RejectSubmit(id, o) \/ Park(id, o)
                       \/ ParkFull(id, o) \/ Take(id, o)
  \/ Cancel(id) \/ CancelUnknown(id)

\* The steps of a call in progress.
Internal ==
  \/ \E m \in DOMAIN live : Fill(m) \/ CancelOwn(m) \/ Release(m) \/ ReleaseRefused(m)
  \/ Rest \/ Drop \/ RestFull \/ Return

Next == Call \/ Internal

Spec == Init /\ [][Next]_vars

\* A call that has begun is run to its end by the goroutine that made it.
FairSpec == Spec /\ WF_vars(Internal)

-----------------------------------------------------------------------------
(* Properties *)

Prices == {p \in MinPx .. MaxPx : ValidPx(p)}

Nodes == [owner : Owners, side : Sides, px : Prices, level : Prices, qty : Nat \ {0},
          seq : Nat \ {0}, tif : TIFs, pending : BOOLEAN]

Tasks == [id : OrderIds, owner : Owners, side : Sides, px : Prices,
          qty : Nat \ {0}, rem : Nat, tif : TIFs]

\* The live orders fit the arena.
LiveOK ==
  /\ DOMAIN live \subseteq OrderIds
  /\ \A i \in DOMAIN live : live[i] \in Nodes
  /\ IsFiniteSet(DOMAIN live) /\ Cardinality(DOMAIN live) <= Capacity

MarketOK ==
  /\ arrSeq \in Nat
  /\ hasLast \in BOOLEAN
  /\ lastPx \in Int /\ (hasLast => lastPx \in Prices)
  /\ positions \in [Owners -> Int]

FillRecords == [taker : OrderIds, maker : OrderIds, px : Prices, qty : Nat \ {0},
                side : Sides, limit : Prices]

\* What each phase says of the order being matched and of the stack.
CallOK ==
  /\ phase \in {"idle", "match", "trigger"}
  /\ phase = "match" => cur \in Tasks /\ cur.id \notin DOMAIN live
  /\ phase # "match" => cur = NoTask
  /\ stack \in Seq(0 .. MaxCascades)
  /\ phase = "idle" => stack = <<>>
  /\ phase = "trigger" => stack # <<>>

ReplyOK ==
  /\ fills \in Seq(FillRecords)
  /\ result \in {"none", "rejected", "book_full"}
  /\ accepted \in Int /\ released \in Nat

HistoryOK ==
  /\ capped \in BOOLEAN
  /\ \A i \in reached : i \in DOMAIN live /\ live[i].pending

TypeOK == LiveOK /\ MarketOK /\ CallOK /\ ReplyOK /\ HistoryOK

\* The visible book never shows a bid at or above an ask, not even between two
\* steps of a submit (invariants.go, "a book may touch but never cross").
NotCrossed ==
  \A b \in Resting("buy"), s \in Resting("sell") : live[b].level < live[s].level

\* Matching moves quantity between owners and never makes or destroys it
\* (invariants.go, "positions do not net to zero").
PositionsNetToZero == MapThenSumSet(LAMBDA o : positions[o], Owners) = 0

\* Between two calls no parked stop is one the last price has activated, unless
\* a runTriggers loop gave up at its cap: a stop is never stranded behind the
\* market (stops.go, "the loop runs until the market goes quiet").
StopsQuiet == phase = "idle" /\ ~capped => NoneTriggered

\* A fill-or-kill order that passed its check is filled entirely: when nothing
\* more can be matched nothing is left of it, whatever self-trade prevention
\* cancelled on the way (stops.go, available).
FOKAllOrNothing == MatchDone /\ cur.tif = "FOK" => cur.rem = 0

\* The fills of an order never take its owner past the position limit, even
\* when the order is a stop released in a cascade (book.go, withinPositionLimit).
TakerWithinLimit ==
  phase = "match" /\ PositionLimit > 0
    => Abs(positions[cur.owner] + Signed(cur.side, cur.rem)) <= PositionLimit

\* The fills of one taker come at prices that never improve as it walks the
\* book, none worse than its limit.
FillsWalkTheBook ==
  \A i \in DOMAIN fills :
    /\ Crosses(fills[i].side, fills[i].limit, fills[i].px)
    /\ \A j \in 1 .. i : fills[j].taker = fills[i].taker
                         => Crosses(fills[i].side, fills[i].px, fills[j].px)

\* A submit that is refused, for whatever reason and however late, leaves the
\* book as it found it: the write-ahead log omits refused submits and replay
\* depends on it (wal.go, "a submit that was rejected never touched book state").
RejectIsNoOp ==
  [][phase' = "idle" /\ result' # "none"
       => book' = IF phase = "idle" THEN book ELSE entry]_vars

\* Every call returns: self-trade prevention, partial fills and cascades of
\* stops cannot keep the matching path busy for ever.
EveryCallReturns == phase # "idle" ~> phase = "idle"

\* What the comment on maxTriggerCascades says: one submit releases at most
\* that many stops.  Every nested submit starts a counter of its own.
CascadeBounded == released <= MaxCascades

\* What the comment on park says: a stop is held until its trigger price
\* trades.  Only the last price of a sweep is compared with the triggers.
ParkedUntilTraded == phase = "idle" /\ ~capped => reached = {}
=============================================================================
