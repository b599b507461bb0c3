------------------------------ MODULE Accounting ------------------------------
(* The order table and the views resumed from it: the four caches of          *)
(* accounting.py, each behind its own lock, asked for by routes on several    *)
(* threads while others insert and cancel orders.  A database session sees    *)
(* what is committed; the caches live as long as the process.  SQLite lets    *)
(* one session write at a time; with PostgreSQL several insert at once and    *)
(* commit in any order (db.py).  Time passes in beats, several to a second.   *)
EXTENDS Fills

CONSTANTS
  Threads,       \* the thread pool
  Views,         \* the cached views, one per key of a cache
  ScopeOf(_), KindOf(_),  \* the rows a view is over; the cache it is kept in
  NewRows,       \* the orders that may be inserted, without their time
  History,       \* the prices of a symbol at the steps of its market, if it has one
  Second,        \* beats of the clock in a second
  OneWriter,     \* the database is SQLite
  StartingCash,
  MaxRows, MaxClock  \* bounds: orders; beats

\* What a cache keeps of a view: a walk, and the points of a list or a curve.
Points ==
  [id : Nat, closes : BOOLEAN, at : Nat, amount : Int, realized : Int, equity : Int]
Entries == [walk : Walks, trail : Seq(Points)]

\* An order that rests untouched has no fill (StatusOf).
ASSUME AccountingAssumption ==
  /\ IsFiniteSet(Symbols) /\ StartingCash \in Int /\ None \notin Entries
  /\ NewRows \subseteq {row \in OrderRows : row.status = "submitted" => row.filled = 0}
  /\ History \in [Symbols -> Seq(Int)]
  /\ Second \in Nat \ {0} /\ OneWriter \in BOOLEAN

VARIABLES
  rows,      \* the order table, indexed by id
  visible,   \* ids whose insert is committed
  cache,     \* per view: a walk, and a trail with one entry per fill
  thread,    \* what each thread is doing
  clock,     \* the wall clock, in beats
  booted,    \* when the process started
  step,      \* the market's step counter, which starts with the process
  slept,     \* how long the market loop has slept
  everFilled, erased,  \* history: ids that were fills; those cancelled since
  late,      \* history: fills committed after one of a higher id
  skew       \* history: the furthest the market was behind the clock of the
             \* process, or a route behind the clock it read

orders == <<rows, visible, everFilled, erased, late>>
time == <<clock, booted, step, slept, skew>>
vars == <<orders, cache, thread, time>>
Kinds == {"account", "realizations", "pnl_curve", "equity_curve"}

Answering(v) == {s \in Range(thread) : s.op = "folding" /\ s.view = v}
Walked(walk) == [walk EXCEPT !.last = 0]
Idle == [op |-> "idle"]
EmptyEntry == [walk |-> EmptyWalk(StartingCash), trail |-> <<>>]

\* No lock: two threads fold the same fills into one walk.
Unlocked(kind) == FALSE

\* One thread at most is between query and fold of a kind: its lock.
Locked(kind) == \E v \in Views : Answering(v) # {} /\ KindOf(v) = kind

-------------------------------------------------------------------------------
Truncated(beats) ==
  IF beats >= 0 THEN beats \div Second ELSE -((-beats) \div Second)

\* Mutant of StepAt: the latest price, whatever time is asked for.
StepNow(at, now) == step

\* The step a past time is looked up at: one step back from the latest for each
\* whole second between then and the time the route started.
StepAt(at, now) == Max({0, Min({step - Truncated(now - at), step})})

\* The account's value at the prices of a step; a position without recorded
\* prices counts at its cost.
MarkToMarket(walk, k) ==
  LET worth == [s \in Symbols |-> IF History[s] = <<>> THEN walk.cost[s]
                                  ELSE walk.qty[s] * History[s][1 + k]]
  IN walk.cash + MapThenSumSet(LAMBDA s : worth[s], {s \in Symbols : walk.qty[s] # 0})

\* What a cache keeps of a fill besides the walk: nothing, the fills that
\* realize, or a point of a curve for each.
Keeps(kind, closes) ==
  \/ kind = "realizations" /\ closes
  \/ kind \in {"pnl_curve", "equity_curve"}

FoldEntry(kind, entry, id, k) ==
  LET row == rows[id]
      walk == ApplyFill(entry.walk, id, row)
      closes == ~Opens(entry.walk.qty[row.symbol], Signed(row))
      point == [id |-> id, closes |-> closes, at |-> row.at,
                amount |-> TotalRealized(walk) - TotalRealized(entry.walk),
                realized |-> StartingCash + TotalRealized(walk),
                equity |-> MarkToMarket(walk, k)]
  IN [walk |-> walk,
      trail |-> IF Keeps(kind, closes) THEN Append(entry.trail, point) ELSE entry.trail]

\* The fills folded in by id, each at the prices of its step.
FoldEntries(kind, entry, ids, steps) ==
  MapThenFoldSet(LAMBDA i, e : FoldEntry(kind, e, i, steps[i]), entry, LAMBDA i : i, Max, ids)

Filled(scope) == {i \in visible : IsFill(rows[i]) /\ InScope(scope, rows[i])}

-------------------------------------------------------------------------------
(* Orders: a session inserts a row, which takes the next id, and commits it   *)
(* later or rolls it back.  SQLite's writer holds the write lock meanwhile;   *)
(* elsewhere sessions overlap, and commit in another order than their ids'.   *)
Inserting == {t \in Threads : thread[t].op = "inserting"}
MayWrite == OneWriter => Inserting = {}

Insert(t, row) ==
  /\ thread[t].op = "idle" /\ MayWrite /\ Len(rows) < MaxRows
  /\ rows' = Append(rows, [row EXCEPT !.at = clock])
  /\ thread' = [thread EXCEPT ![t] = [op |-> "inserting", id |-> Len(rows) + 1]]
  /\ UNCHANGED <<visible, everFilled, erased, late, cache, time>>

Commit(t) ==
  /\ thread[t].op = "inserting"
  /\ LET id == thread[t].id IN
       /\ visible' = visible \cup {id}
       /\ IF IsFill(rows[id])
          THEN /\ everFilled' = everFilled \cup {id}
               /\ late' = IF \E j \in everFilled : j > id THEN late \cup {id} ELSE late
          ELSE UNCHANGED <<everFilled, late>>
  /\ thread' = [thread EXCEPT ![t] = Idle]
  /\ UNCHANGED <<rows, erased, cache, time>>

\* The row is never seen; its id is left out.
Rollback(t) ==
  /\ thread[t].op = "inserting"
  /\ thread' = [thread EXCEPT ![t] = Idle]
  /\ UNCHANGED <<orders, cache, time>>

\* DELETE /orders/{id} of an order that rests in whole or in part.
CancelOrder(id) ==
  /\ MayWrite
  /\ id \in visible /\ rows[id].status \in {"submitted", "partially_filled"}
  /\ rows' = [rows EXCEPT ![id].status = "cancelled"]
  /\ erased' = IF rows[id].filled > 0 THEN erased \cup {id} ELSE erased
  /\ UNCHANGED <<visible, everFilled, late, cache, thread, time>>

-------------------------------------------------------------------------------
(* A cached view: the route reads the clock, waits for the lock of its kind,  *)
(* looks for the row of the watermark, fetches the rows after it, folds those *)
(* that are fills, and stores the entry.                                      *)
WatermarkExists(view) ==
  LET last == cache[view].walk.last IN
  last # 0 => last \in visible /\ InScope(ScopeOf(view), rows[last])

Resumable(view) == cache[view] # None /\ WatermarkExists(view)
Base(view) == IF Resumable(view) THEN cache[view] ELSE EmptyEntry
NewFills(view) == {i \in Filled(ScopeOf(view)) : i > Base(view).walk.last}

Ask(t, view) ==
  /\ thread[t].op = "idle"
  /\ thread' = [thread EXCEPT ![t] = [op |-> "asking", view |-> view, now |-> clock]]
  /\ UNCHANGED <<orders, cache, time>>

Query(t) ==
  /\ thread[t].op = "asking"
  /\ LET view == thread[t].view  base == Base(view)  new == NewFills(view) IN
       /\ ~Locked(KindOf(view))
       /\ thread' = [thread EXCEPT ![t] =
            [op |-> "folding", view |-> view, now |-> thread[t].now,
             resumed |-> Resumable(view), new |-> new,
             says |-> Walked(Walk(base.walk, rows, new))]]
  /\ UNCHANGED <<orders, cache, time>>

\* The walk is changed in place: the fills go into what is cached by now.
Fold(t) ==
  /\ thread[t].op = "folding"
  /\ LET v == thread[t].view
         entry == IF thread[t].resumed THEN cache[v] ELSE EmptyEntry
         steps == [i \in thread[t].new |-> StepAt(rows[i].at, thread[t].now)]
     IN cache' = [cache EXCEPT ![v] = FoldEntries(KindOf(v), entry, thread[t].new, steps)]
  /\ thread' = [thread EXCEPT ![t] = Idle]
  /\ UNCHANGED <<orders, time>>

-------------------------------------------------------------------------------
\* When the loop makes step k if it is never late: the first one at once.
Made(k) == Second * Max({0, k - 1})
Behind == clock - booted - Made(step)
Waiting == {t \in Threads : thread[t].op \in {"asking", "folding"}}

\* The market makes a step: the loop has slept a second since the last one.
Tick ==
  /\ slept = Second
  /\ \A s \in Symbols : History[s] # <<>> => step + 1 < Len(History[s])
  /\ step' = step + 1 /\ slept' = 0
  /\ UNCHANGED <<orders, cache, thread, clock, booted, skew>>

\* Time passes, for the loop too, which may oversleep.
Beat ==
  /\ clock < MaxClock
  /\ clock' = clock + 1
  /\ slept' = IF slept < Second THEN slept + 1 ELSE slept
  /\ skew' = Max({skew, Behind + 1} \cup {clock + 1 - thread[t].now : t \in Waiting})
  /\ UNCHANGED <<orders, cache, thread, booted, step>>

\* The server restarts: caches and threads are gone and the market starts anew;
\* the committed orders stay.
Restart ==
  /\ cache' = [v \in Views |-> None]
  /\ thread' = [t \in Threads |-> Idle]
  /\ booted' = clock /\ step' = 0 /\ slept' = Second /\ skew' = 0
  /\ UNCHANGED <<orders, clock>>

Init ==
  /\ rows = <<>> /\ visible = {} /\ everFilled = {} /\ erased = {} /\ late = {}
  /\ cache = [v \in Views |-> None]
  /\ thread = [t \in Threads |-> Idle]
  /\ clock = 0 /\ booted = 0 /\ step = 0 /\ slept = Second /\ skew = 0

Next ==
  \/ \E t \in Threads : \/ \E row \in NewRows : Insert(t, row)
                        \/ Commit(t) \/ Rollback(t) \/ Query(t) \/ Fold(t)
                        \/ \E v \in Views : Ask(t, v)
  \/ \E id \in visible : CancelOrder(id)
  \/ Tick \/ Beat \/ Restart

Spec == Init /\ [][Next]_vars

-------------------------------------------------------------------------------
\* The views implement the ledger.  While a route folds, its view says what the
\* table it queried makes of it.
Statements ==
  [v \in Views |->
     IF Answering(v) # {} THEN (CHOOSE s \in Answering(v) : TRUE).says
     ELSE IF cache[v] = None THEN None ELSE Walked(cache[v].walk)]

Promise == INSTANCE Ledger WITH
  Start <- StartingCash, InOrder <- OneWriter, table <- rows, fills <- everFilled,
  cancelled <- erased, overtaken <- late, shown <- Statements

\* Every view counts every fill exactly once, whatever is asked when, by how
\* many threads, and across restarts; a fill may be missing only if its row was
\* cancelled or, where several sessions write at once, committed after one of
\* a higher id (accounting.py, get_cached_account_snapshot: "incremental, not a
\* shortcut around correctness").
ImplementsLedger == Promise!LedgerSpec

\* Money is neither made nor lost by averaging, reducing and flipping: cash and
\* the positions at cost are the starting cash and what was realized.
ValueIsConserved ==
  \A v \in Views : cache[v] # None =>
    ValueAtCost(cache[v].walk) = StartingCash + TotalRealized(cache[v].walk)

\* Step k is the one of a time, but for how late the loop and the routes were
\* and the second that is cut off.
Near(at, k) ==
  /\ k \in 0 .. step
  /\ Made(k) >= at - booted - skew
  /\ k = 0 \/ Made(k) < at - booted + skew + Second

\* A list that was resumed over many calls is the one that a full walk gives,
\* point by point, if no fill was cancelled or overtaken: each point of it is
\* marked at one step of the market, for all positions the same, near the time
\* of its fill (get_cached_equity_curve: "correct as long as the caller's own
\* price_lookup always answers the same historical price", which the lookup
\* does up to the cut-off second).
ListsAreFresh ==
  erased = {} /\ late = {} =>
    \A v \in Views : cache[v] # None =>
      LET ids == {i \in Filled(ScopeOf(v)) : i <= cache[v].walk.last} IN
        \E steps \in [ids -> 0 .. step] :
          /\ \A i \in ids : Near(rows[i].at, steps[i])
          /\ cache[v] = FoldEntries(KindOf(v), EmptyEntry, ids, steps)
===============================================================================
