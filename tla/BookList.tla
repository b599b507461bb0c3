------------------------------ MODULE BookList ------------------------------
(***************************************************************************)
(* The storage of the order book (arena.go, and link, unlink, rest, park,  *)
(* levelFor of book.go and stops.go), run in step with Book.               *)
(*                                                                         *)
(* Orders live in an arena of slots threaded by a free list; each price    *)
(* level is a doubly linked queue of slots; a bitmap per side finds the    *)
(* best level; an index finds an order's slot.  Every action is an action  *)
(* of Book together with what the code does to that storage.  Which order  *)
(* is matched or released next is decided by the storage, as in the code.  *)
(* Book's live is the meaning the storage must keep.                       *)
(***************************************************************************)
EXTENDS Book, Bitmap

VARIABLE store   \* [nodes, free, used, levels, maps, index]

listVars == <<vars, store>>

NilHandle == -1
Handles == 0 .. Capacity - 1

TickOf(p) == (p - MinPx) \div Tick
NTicks == TickOf(MaxPx) + 1

\* The four level arrays: visible and stop orders, of either side.
Arrays == Sides \X BOOLEAN

EmptyLevel == [head |-> NilHandle, tail |-> NilHandle, total |-> 0, count |-> 0]

\* A free slot holds nothing but the next free slot.
FreeSlot(next) == [next |-> next]

NewStore ==
  [nodes  |-> [h \in Handles |-> FreeSlot(IF h = Capacity - 1 THEN NilHandle ELSE h + 1)],
   free   |-> 0,
   used   |-> 0,
   levels |-> [a \in Arrays |-> [t \in 0 .. NTicks - 1 |-> EmptyLevel]],
   maps   |-> [a \in Arrays |-> NewBitmap(NTicks)],
   index  |-> <<>>]

-----------------------------------------------------------------------------
(* Operations on the storage *)

\* rest and park: take a slot and link it at the tail of the level of n.
Enqueue(s, id, n) ==
  LET h    == s.free
      a    == <<n.side, n.pending>>
      t    == TickOf(n.level)
      lv   == s.levels[a][t]
      slot == [id |-> id, px |-> n.px, qty |-> n.qty, seq |-> n.seq, tick |-> t,
               owner |-> n.owner, side |-> n.side, tif |-> n.tif, pending |-> n.pending,
               prev |-> lv.tail, next |-> NilHandle]
      linked == IF lv.tail = NilHandle THEN s.nodes
                ELSE [s.nodes EXCEPT ![lv.tail].next = h]
  IN  [s EXCEPT !.free  = s.nodes[h].next,
                !.used  = @ + 1,
                !.nodes = [linked EXCEPT ![h] = slot],
                !.levels[a][t] =
                   [head  |-> IF lv.tail = NilHandle THEN h ELSE lv.head, tail |-> h,
                    total |-> lv.total + n.qty, count |-> lv.count + 1],
                !.maps[a] = SetBit(@, t),
                !.index = [i \in DOMAIN @ \cup {id} |-> IF i = id THEN h ELSE @[i]]]

\* Mutant of Relinked: the back link of the slot behind is left as it was.
RelinkedForward(nodes, n) ==
  IF n.prev = NilHandle THEN nodes ELSE [nodes EXCEPT ![n.prev].next = n.next]

\* The neighbours of a slot n that leaves its queue are linked to each other.
Relinked(nodes, n) ==
  LET ahead == IF n.prev = NilHandle THEN nodes ELSE [nodes EXCEPT ![n.prev].next = n.next]
  IN  IF n.next = NilHandle THEN ahead ELSE [ahead EXCEPT ![n.next].prev = n.prev]

\* unlink, from tick t of array a; the bitmap is the one of the slot's kind.
Unlink(s, a, t, h) ==
  LET n    == s.nodes[h]
      lv   == s.levels[a][t]
      head == IF n.prev = NilHandle THEN n.next ELSE lv.head
      tail == IF n.next = NilHandle THEN n.prev ELSE lv.tail
  IN  [s EXCEPT !.nodes = Relinked(@, n),
                !.levels[a][t] =
                   [head  |-> IF lv.count = 1 THEN NilHandle ELSE head,
                    tail  |-> IF lv.count = 1 THEN NilHandle ELSE tail,
                    total |-> lv.total - n.qty, count |-> lv.count - 1],
                !.maps[<<a[1], n.pending>>] =
                   IF lv.count = 1 THEN ClearBit(@, n.tick) ELSE @]

\* Mutant of ReleaseSlot: the slot is not put back on the free list.
ReleaseSlotLeak(s, h) == [s EXCEPT !.nodes[h] = FreeSlot(s.free), !.used = @ - 1]

\* release: the slot goes to the front of the free list.
ReleaseSlot(s, h) ==
  [s EXCEPT !.nodes[h] = FreeSlot(s.free), !.free = h, !.used = @ - 1]

\* What every removal does: unlink, delete from the index, release.
Removed(s, a, t, h) ==
  LET id == s.nodes[h].id
  IN  ReleaseSlot([Unlink(s, a, t, h) EXCEPT
                     !.index = Restrict(@, DOMAIN @ \ {id})], h)

\* levelFor: the level a live slot is queued on.
RemovedById(s, id) ==
  LET n == s.nodes[s.index[id]]
  IN  Removed(s, <<n.side, n.pending>>, n.tick, s.index[id])

\* Mutant of Reduced: the level's aggregate is not adjusted.
ReducedSlotOnly(s, a, t, h, q) == [s EXCEPT !.nodes[h].qty = @ - q]

\* consume: q lots of the slot are filled.
Reduced(s, a, t, h, q) ==
  [s EXCEPT !.nodes[h].qty = @ - q, !.levels[a][t].total = @ - q]

-----------------------------------------------------------------------------
(* Lookups *)

\* Mutant of BestTick: a taker starts at the far end of the opposite side.
BestTickFar(s, takerSide) ==
  IF takerSide = "buy" THEN MaxBit(s.maps[<<"sell", FALSE>>])
  ELSE MinBit(s.maps[<<"buy", FALSE>>])

\* The best tick of the side a taker trades against, -1 if that side is empty.
BestTick(s, takerSide) ==
  IF takerSide = "buy" THEN MinBit(s.maps[<<"sell", FALSE>>])
  ELSE MaxBit(s.maps[<<"buy", FALSE>>])

\* Whether a tick the bitmap found is at or inside the taker's limit.
Inside(takerSide, limit, t) ==
  t >= 0 /\ IF takerSide = "buy" THEN t <= TickOf(limit) ELSE t >= TickOf(limit)

\* The slot matchAgainst looks at next, NilHandle when it stops walking.
Frontier(s, takerSide, limit) ==
  LET t == BestTick(s, takerSide)
  IN  IF Inside(takerSide, limit, t) THEN s.levels[<<Opposite(takerSide), FALSE>>][t].head
      ELSE NilHandle

\* popTriggered: buy stops from the lowest trigger, then sell stops from the
\* highest.
TriggeredSlot(s) ==
  LET buy  == MinBit(s.maps[<<"buy", TRUE>>])
      sell == MaxBit(s.maps[<<"sell", TRUE>>])
      last == TickOf(lastPx)
  IN  IF ~hasLast THEN NilHandle
      ELSE IF buy >= 0 /\ buy <= last THEN s.levels[<<"buy", TRUE>>][buy].head
      ELSE IF sell >= 0 /\ sell >= last THEN s.levels[<<"sell", TRUE>>][sell].head
      ELSE NilHandle

\* The sequence x, succ[x], succ[succ[x]], ... before the first value that has
\* no successor, cut off after n values.
Iterates(succ, x, n) ==
  MapThenFoldSet(LAMBDA k, c : LET v == IF c = <<>> THEN x ELSE succ[Last(c)]
                               IN  IF v \in DOMAIN succ THEN Append(c, v) ELSE c,
                 <<>>, LAMBDA k : k, Max, 1 .. n)

\* Slots from a first one, following next.
Following(s, first) == Iterates([h \in Handles |-> s.nodes[h].next], first, Capacity + 1)

\* The slots of a level from its head.
Chain(s, a, t) == Following(s, s.levels[a][t].head)

\* The ticks available walks: from the best one, by nextAbove or nextBelow.
WalkedTicks(s, takerSide, limit) ==
  LET m    == s.maps[<<Opposite(takerSide), FALSE>>]
      succ == [t \in {u \in 0 .. NTicks - 1 : Inside(takerSide, limit, u)} |->
                 IF takerSide = "buy" THEN NextAbove(m, t) ELSE NextBelow(m, t)]
  IN  Range(Iterates(succ, BestTick(s, takerSide), NTicks + 1))

\* available: the slots of those levels that belong to somebody else.
WalkedQty(s, takerSide, owner, limit) ==
  LET onLevel(t) ==
        MapThenSumSet(LAMBDA h : s.nodes[h].qty,
          {h \in Range(Chain(s, <<Opposite(takerSide), FALSE>>, t)) : s.nodes[h].owner # owner})
  IN  MapThenSumSet(onLevel, WalkedTicks(s, takerSide, limit))

-----------------------------------------------------------------------------
ListInit == Init /\ store = NewStore

\* Calls and returns that leave the storage alone.
ListKeep ==
  /\ \/ \E id \in OrderIds : \/ \E o \in Orders : RejectSubmit(id, o) \/ Take(id, o)
                             \/ CancelUnknown(id)
     \/ Drop \/ Return
  /\ UNCHANGED store

\* alloc finds no free slot.
ListFull ==
  /\ store.free = NilHandle
  /\ RestFull \/ \E id \in OrderIds, o \in Orders : ParkFull(id, o)
  /\ UNCHANGED store

ListPark == \E id \in OrderIds, o \in Orders :
  /\ store.free # NilHandle /\ Park(id, o)
  /\ store' = Enqueue(store, id, Node(o, o.stop, o.qty, TRUE))

ListRest ==
  /\ store.free # NilHandle /\ Rest
  /\ store' = Enqueue(store, cur.id, Node(cur, cur.px, cur.rem, FALSE))

ListCancel == \E id \in DOMAIN store.index :
  /\ Cancel(id)
  /\ store' = RemovedById(store, id)

\* consume, at the head of the best level: either self-trade prevention or a fill.
ListConsume ==
  LET h == Frontier(store, cur.side, cur.px)
      a == <<Opposite(cur.side), FALSE>>
      t == BestTick(store, cur.side)
      n == store.nodes[h]
      q == Min({cur.rem, n.qty})
      left == Reduced(store, a, t, h, q)
  IN  /\ phase = "match" /\ cur.rem > 0 /\ h # NilHandle
      /\ \/ /\ CancelOwn(n.id)
            /\ store' = Removed(store, a, t, h)
         \/ /\ Fill(n.id)
            /\ store' = IF q = n.qty THEN Removed(left, a, t, h) ELSE left

ListRelease ==
  LET h == TriggeredSlot(store)
  IN  /\ phase = "trigger" /\ h # NilHandle
      /\ Release(store.nodes[h].id) \/ ReleaseRefused(store.nodes[h].id)
      /\ store' = RemovedById(store, store.nodes[h].id)

ListNext ==
  \/ ListKeep \/ ListFull \/ ListPark \/ ListRest
  \/ ListCancel \/ ListConsume \/ ListRelease

ListSpec == ListInit /\ [][ListNext]_listVars

-----------------------------------------------------------------------------
(* Properties *)

\* The live orders a level should hold.
OnLevel(a, t) ==
  {i \in DOMAIN live : /\ live[i].side = a[1] /\ live[i].pending = a[2]
                       /\ TickOf(live[i].level) = t}

\* The linked queues hold exactly the live orders, each level in arrival order,
\* linked both ways, every slot carrying its order's data (invariants.go, the
\* walk of checkSide).
QueuesHoldTheBook ==
  \A a \in Arrays, t \in 0 .. NTicks - 1 :
    LET c == Chain(store, a, t)
        n(k) == store.nodes[c[k]]
    IN  /\ {n(k).id : k \in DOMAIN c} = OnLevel(a, t)
        /\ \A k \in DOMAIN c : \A j \in 1 .. k - 1 : live[n(j).id].seq < live[n(k).id].seq
        /\ store.levels[a][t].tail = IF c = <<>> THEN NilHandle ELSE c[Len(c)]
        /\ \A k \in DOMAIN c :
             /\ n(k).prev = IF k = 1 THEN NilHandle ELSE c[k - 1]
             /\ n(k).tick = t
             /\ \A f \in {"px", "qty", "seq", "owner", "side", "tif", "pending"} :
                  n(k)[f] = live[n(k).id][f]

\* The order matched next and the stop released next have priority over every
\* other: the storage decides as price-time priority demands.
HeadsHavePriority ==
  /\ phase = "match" =>
       LET h == Frontier(store, cur.side, cur.px)
       IN  IF h = NilHandle THEN Reachable(cur.side, cur.px) = {} ELSE IsMaker(store.nodes[h].id)
  /\ LET h == TriggeredSlot(store)
     IN  IF h = NilHandle THEN NoneTriggered ELSE IsTriggered(store.nodes[h].id)

\* No slot leaks and none is handed out twice: the free list holds each slot
\* that no live order has, once (invariants.go, index/arena divergence).
ArenaExact ==
  LET free == Following(store, store.free)
  IN  /\ Len(free) = Cardinality(Range(free))
      /\ DOMAIN store.index = DOMAIN live
      /\ \A i \in DOMAIN live : store.nodes[store.index[i]].id = i
      /\ Range(free) = Handles \ Range(store.index)
      /\ store.used = Cardinality(DOMAIN live)

\* The aggregates shown to depth readers are the sums of the queues, and the
\* bitmaps, summaries included, mark exactly the levels that are not empty.
AggregatesExact ==
  \A a \in Arrays :
    /\ WellSummarised(store.maps[a], NTicks)
    /\ \A t \in 0 .. NTicks - 1 :
         LET c  == Chain(store, a, t)
             lv == store.levels[a][t]
         IN  /\ lv.count = Len(c)
             /\ lv.total = MapThenSumSet(LAMBDA h : store.nodes[h].qty, Range(c))
             /\ IsSet(store.maps[a], t) <=> lv.count > 0

\* Every walk over the bitmaps is exact, so that fill-or-kill counts all that is
\* available and nothing else.
WalksExact ==
  /\ \A a \in Arrays : LookupsExact(store.maps[a], NTicks)
  /\ \A side \in Sides, owner \in Owners, limit \in Prices :
       WalkedQty(store, side, owner, limit) = Available(side, owner, limit)
=============================================================================
