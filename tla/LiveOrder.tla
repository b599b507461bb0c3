----------------------------- MODULE LiveOrder -----------------------------
(***************************************************************************)
(* Live orders of one user: the routes of routers/orders.py that submit,   *)
(* confirm and cancel them, and the broker session of broker/angelone.py   *)
(* they share. The routes run in FastAPI's thread pool, so two of them     *)
(* interleave at every database access and every call of the broker. The  *)
(* broker, its answers and the crash of the process are external.          *)
(***************************************************************************)
EXTENDS Naturals, Sequences, FiniteSets

CONSTANTS Orders,     \* live orders the user makes
          Handlers,   \* threads that run a route
          MaxPlaced   \* bound: orders the broker accepts

ASSUME LiveAssumption == Orders # {} /\ MaxPlaced \in Nat

VARIABLES rows,      \* the table of orders: status and broker_order_id (0: null)
          placed,    \* the orders the broker accepted; the index is the broker's order id
          handler,   \* what each thread is doing
          session,   \* the adapter's SmartConnect client
          feed,      \* the live feed's handler, which calls ensure_session
          halted,    \* RiskSettings.trading_halted
          doubt      \* history: orders whose routes overlapped, lost an answer or were cut off

vars == <<rows, placed, handler, session, feed, halted, doubt>>

Idle == [at |-> "idle", order |-> CHOOSE o \in Orders : TRUE, stage |-> "none",
         ref |-> 0, barred |-> FALSE]

\* Sessions: no client yet, a client that never logged in, tokens the broker
\* no longer takes, tokens it takes.
Sessions == {"none", "blank", "dead", "live"}

\* The stages of _call in which fn() is tried; "lock" waits for _call_lock.
Locked == {"fresh", "refresh", "relogin"}
Trying == {"first", "retry"} \union Locked

InFlight(o) == \E h \in Handlers : handler[h].at # "idle" /\ handler[h].order = o
SemaphoreFree == \A h \in Handlers : handler[h].stage = "none"
LockFree == feed = "idle" /\ \A h \in Handlers : handler[h].stage \notin Locked

PlacedFor(o) == {i \in DOMAIN placed : placed[i].order = o}
WorkingFor(o) == {i \in PlacedFor(o) : placed[i].state = "working"}

Init == /\ rows = [o \in Orders |-> [status |-> "none", ref |-> 0]]
        /\ placed = <<>>
        /\ handler = [h \in Handlers |-> Idle]
        /\ session = "none"
        /\ feed = "idle"
        /\ halted = FALSE
        /\ doubt = {}

----------------------------------------------------------------------------
(* The routes.                                                             *)

\* POST /orders with mode "live" stops at a pending row.
SubmitLive(o) ==
    /\ rows[o].status = "none" /\ ~halted
    /\ rows' = [rows EXCEPT ![o] = [status |-> "pending", ref |-> 0]]
    /\ UNCHANGED <<placed, handler, session, feed, halted, doubt>>

\* A thread takes a request about o; what it read of the row is not read again.
Begin(h, o, at) ==
    /\ handler[h].at = "idle"
    /\ handler' = [handler EXCEPT ![h] = [at |-> at, order |-> o, stage |-> "none",
                                          ref |-> rows[o].ref, barred |-> halted]]
    /\ doubt' = IF InFlight(o) THEN doubt \union {o} ELSE doubt
    /\ UNCHANGED <<rows, placed, session, feed, halted>>

ConfirmableTwice(status) == status \in {"pending", "submitted"}
Confirmable(status) == status = "pending"

BeginConfirm(h, o) == Confirmable(rows[o].status) /\ Begin(h, o, "halt")

\* A pending row is only flipped; a submitted one is withdrawn at the broker first.
FlipAlways(status) == "flip"
CancelRoute(status) == IF status = "pending" THEN "flip" ELSE "withdraw"

BeginCancel(h, o) == /\ rows[o].status \in {"pending", "submitted"}
                     /\ Begin(h, o, CancelRoute(rows[o].status))

Return(h) == handler' = [handler EXCEPT ![h] = Idle]
Become(h, at, stage, ref) ==
    handler' = [handler EXCEPT ![h] = [at |-> at, order |-> handler[h].order, stage |-> stage,
                                       ref |-> ref, barred |-> handler[h].barred]]
Goto(h, at) == Become(h, at, "none", handler[h].ref)
Stay(h, stage) == Become(h, handler[h].at, stage, handler[h].ref)

MayDispatchUnchecked == TRUE
MayDispatch == ~halted

\* raise_if_trading_halted.
CheckHalt(h) ==
    /\ handler[h].at = "halt"
    /\ IF MayDispatch THEN Goto(h, "resolve") ELSE Return(h)
    /\ UNCHANGED <<rows, placed, session, feed, halted, doubt>>

\* get_adapter_for_user raises: the credential is missing or incomplete.
NoAdapter(h) ==
    /\ handler[h].at \in {"resolve", "withdraw"} /\ handler[h].stage = "none"
    /\ Return(h)
    /\ UNCHANGED <<rows, placed, session, feed, halted, doubt>>

\* A cached equity symbol, or an option contract of the instrument master.
ResolveLocally(h) ==
    /\ handler[h].at = "resolve" /\ handler[h].stage = "none"
    /\ Goto(h, "place") \/ Goto(h, "reject")
    /\ UNCHANGED <<rows, placed, session, feed, halted, doubt>>

\* What a route writes in the end, each in a commit that may fail.
Written(h) ==
    CASE handler[h].at = "submit" -> [status |-> "submitted", ref |-> handler[h].ref]
      [] handler[h].at = "reject" ->
            [status |-> "rejected", ref |-> rows[handler[h].order].ref]
      [] handler[h].at \in {"flip", "withdrawn"} ->
            [status |-> "cancelled", ref |-> rows[handler[h].order].ref]

Commit(h) ==
    /\ handler[h].at \in {"submit", "reject", "flip", "withdrawn"}
    /\ rows' = [rows EXCEPT ![handler[h].order] = Written(h)]
    /\ Return(h)
    /\ UNCHANGED <<placed, session, feed, halted, doubt>>

CutOff(hs) == {handler[h].order : h \in {g \in hs : handler[g].at \in {"submit", "withdrawn"}}}

CommitFails(h) ==
    /\ handler[h].at \in {"submit", "reject", "flip", "withdrawn"}
    /\ doubt' = doubt \union CutOff({h})
    /\ Return(h)
    /\ UNCHANGED <<rows, placed, session, feed, halted>>

----------------------------------------------------------------------------
(* _call: the semaphore, the tries of fn() and the session between them.   *)

EnterCall(h) ==
    /\ handler[h].at \in {"resolve", "place", "withdraw"}
    /\ handler[h].stage = "none"
    /\ SemaphoreFree
    /\ Stay(h, IF session = "none" THEN "lock" ELSE "first")
    /\ UNCHANGED <<rows, placed, session, feed, halted, doubt>>

TakeLock(h) ==
    /\ handler[h].stage = "lock" /\ LockFree
    /\ Stay(h, IF session = "none" THEN "fresh" ELSE "refresh")
    /\ UNCHANGED <<rows, placed, session, feed, halted, doubt>>

\* login() builds the client before the broker answers; _refresh() needs a token.
AfterLogin == {"live", IF session = "none" THEN "blank" ELSE session}
Renewed(stage) == CASE stage \in {"first", "retry"} -> {session}
                    [] stage = "refresh" -> IF session = "blank" THEN {session}
                                                                 ELSE {session, "live"}
                    [] stage \in {"fresh", "relogin"} -> AfterLogin

\* What follows an exception of fn() or of the renewal before it.
RetryForever(stage, limited) ==
    CASE stage = "first" -> IF limited THEN "retry" ELSE "lock"
      [] stage \in {"fresh", "relogin"} -> "refresh"
      [] stage = "refresh" -> "relogin"
      [] stage = "retry" -> "raise"
AfterFailure(stage, limited) ==
    CASE stage = "first" -> IF limited THEN "retry" ELSE "lock"
      [] stage = "fresh" -> "refresh"
      [] stage = "refresh" -> "relogin"
      [] stage \in {"retry", "relogin"} -> "raise"

Raised(h) == IF handler[h].at = "withdraw" THEN Return(h) ELSE Goto(h, "reject")

Fail(h, limited) ==
    LET next == AfterFailure(handler[h].stage, limited) IN
    IF next = "raise" THEN Raised(h) ELSE Stay(h, next)

\* What the broker does with a request it takes.
Marked(i, state) == [placed EXCEPT ![i] = [order |-> placed[i].order, state |-> state]]
Accept(h) == /\ Len(placed) < MaxPlaced
             /\ placed' = Append(placed, [order |-> handler[h].order, state |-> "working"])
Withdrawable(h) == handler[h].ref \in WorkingFor(handler[h].order)
Withdraw(h) == /\ Withdrawable(h)
               /\ placed' = Marked(handler[h].ref, "cancelled")

\* placeOrder without an order id is a refusal, whatever else the answer says.
RefusalTaken(h) == Goto(h, "submit")
Refusal(h) == Goto(h, "reject")

Answer(h) ==
    /\ doubt' = doubt
    /\ \/ /\ handler[h].at = "resolve"
          /\ Goto(h, "place") \/ Goto(h, "reject")
          /\ UNCHANGED placed
       \/ /\ handler[h].at = "place"
          /\ \/ /\ Accept(h)
                /\ Become(h, "submit", "none", Len(placed) + 1)
             \/ Refusal(h) /\ UNCHANGED placed
       \/ /\ handler[h].at = "withdraw"
          /\ \/ Withdraw(h) /\ Goto(h, "withdrawn")
             \/ ~Withdrawable(h) /\ Return(h) /\ UNCHANGED placed

\* The broker acts and its answer is lost, so fn() raises.
LoseAnswer(h) ==
    /\ \/ handler[h].at = "place" /\ Accept(h)
       \/ handler[h].at = "withdraw" /\ Withdraw(h)
    /\ doubt' = doubt \union {handler[h].order}
    /\ Fail(h, FALSE)

\* The renewal fails, the broker does not take the session, or the request is lost.
NotTaken(h) == Fail(h, FALSE) /\ UNCHANGED <<placed, doubt>>
RateLimited(h) == Fail(h, TRUE) /\ UNCHANGED <<placed, doubt>>

Attempt(h) ==
    /\ handler[h].stage \in Trying
    /\ session' \in Renewed(handler[h].stage)
    /\ \/ NotTaken(h)
       \/ session' = "live" /\ (Answer(h) \/ LoseAnswer(h) \/ RateLimited(h))
    /\ UNCHANGED <<rows, feed, halted>>

----------------------------------------------------------------------------
(* The live feed's ensure_session, and what happens around the routes.     *)

EnsureSession ==
    /\ LockFree /\ session = "none"
    /\ feed' = "login" /\ session' = "blank"
    /\ UNCHANGED <<rows, placed, handler, halted, doubt>>

FeedLogin ==
    /\ feed = "login"
    /\ feed' = "idle" /\ session' \in AfterLogin
    /\ UNCHANGED <<rows, placed, handler, halted, doubt>>

Expire == /\ session = "live" /\ session' = "dead"
          /\ UNCHANGED <<rows, placed, handler, feed, halted, doubt>>

Fill(i) == /\ placed[i].state = "working"
           /\ placed' = Marked(i, "filled")
           /\ UNCHANGED <<rows, handler, session, feed, halted, doubt>>

\* The circuit breaker trips; POST /risk/reset-halt resumes.
Trip == /\ ~halted /\ halted' = TRUE
        /\ UNCHANGED <<rows, placed, handler, session, feed, doubt>>
ResetHalt == /\ halted /\ halted' = FALSE
             /\ handler' = [h \in Handlers |-> [handler[h] EXCEPT !.barred = FALSE]]
             /\ UNCHANGED <<rows, placed, session, feed, doubt>>

\* The process dies and starts again: the database and the broker stay.
Crash == /\ handler' = [h \in Handlers |-> Idle]
         /\ session' = "none" /\ feed' = "idle"
         /\ doubt' = doubt \union CutOff(Handlers)
         /\ UNCHANGED <<rows, placed, halted>>

----------------------------------------------------------------------------
InCall(h) == EnterCall(h) \/ TakeLock(h) \/ Attempt(h)
Step(h) == \/ CheckHalt(h) \/ NoAdapter(h) \/ ResolveLocally(h)
           \/ Commit(h) \/ CommitFails(h) \/ InCall(h)

Next == \/ \E o \in Orders : SubmitLive(o)
        \/ \E h \in Handlers, o \in Orders : BeginConfirm(h, o) \/ BeginCancel(h, o)
        \/ \E h \in Handlers : Step(h)
        \/ EnsureSession \/ FeedLogin \/ Expire
        \/ \E i \in DOMAIN placed : Fill(i)
        \/ Trip \/ ResetHalt \/ Crash

Spec == Init /\ [][Next]_vars

\* Threads run, and every request to the broker ends in an answer or an exception.
FairSpec == Spec /\ (\A h \in Handlers : WF_vars(InCall(h))) /\ WF_vars(FeedLogin)

----------------------------------------------------------------------------
(* Types.                                                                  *)

Statuses == {"none", "pending", "submitted", "rejected", "cancelled"}
Places == {"idle", "halt", "resolve", "place", "submit", "reject", "flip", "withdraw", "withdrawn"}

\* Type invariant of the table, the broker, the threads and the session: order
\* ids are the broker's, and only a request to the broker holds the semaphore.
TypeOK ==
    /\ rows \in [Orders -> [status : Statuses, ref : Nat]]
    /\ placed \in Seq([order : Orders, state : {"working", "filled", "cancelled"}])
    /\ handler \in [Handlers -> [at : Places, order : Orders, ref : Nat, barred : BOOLEAN,
                                 stage : {"none", "lock"} \union Trying]]
    /\ session \in Sessions
    /\ feed \in {"idle", "login"}
    /\ halted \in BOOLEAN
    /\ doubt \subseteq Orders
    /\ \A o \in Orders : rows[o].ref <= Len(placed)
    /\ \A h \in Handlers : /\ handler[h].ref <= Len(placed)
                           /\ handler[h].stage # "none" =>
                                handler[h].at \in {"resolve", "place", "withdraw"}

----------------------------------------------------------------------------
(* Safety.                                                                 *)

\* broker_order_id is the proof that an order reached the broker: a submitted
\* row names an order that the broker took for it, whatever overlapped or failed
\* (models/trading.py:134, place_order's check of the id).
SubmittedIsProven ==
    \A o \in Orders : rows[o].status = "submitted" => rows[o].ref \in PlacedFor(o)

\* An order reaches the broker at most once, through any number of confirms,
\* refreshes, logins and retries, unless routes about it overlapped, an answer
\* about it was lost or the commit after it was cut off.
PlacedOnce == \A o \in Orders \ doubt : Cardinality(PlacedFor(o)) <= 1

\* With no route in flight the row tells what the broker has, under the same
\* proviso: nothing for a pending or a rejected row, the order of the row's id
\* for a submitted one, nothing working for a cancelled one.
BrokerAgrees ==
    \A o \in Orders \ doubt : ~InFlight(o) =>
        CASE rows[o].status \in {"none", "pending", "rejected"} -> PlacedFor(o) = {}
          [] rows[o].status = "submitted" -> PlacedFor(o) = {rows[o].ref}
          [] rows[o].status = "cancelled" -> WorkingFor(o) = {}

\* A route that began while trading was halted places nothing unless the halt is
\* reset meanwhile (confirm_live_order's second raise_if_trading_halted).
HaltHolds ==
    [][\A h \in Handlers : Len(placed') > Len(placed) /\ handler'[h] # handler[h]
                              => ~handler[h].barred]_vars

\* cancel_order's comment: a pending live order that is cancelled never reached
\* the broker, so nothing is left there to cancel: once every route has
\* returned, no order of a cancelled row is working.
CancelledNotWorking ==
    \A o \in Orders : rows[o].status = "cancelled" /\ ~InFlight(o) => WorkingFor(o) = {}

----------------------------------------------------------------------------
(* Liveness.                                                               *)

\* A thread inside _call leaves it: the semaphore and the lock are given back on
\* every path, and the live feed's login cannot block it for ever.
SemaphoreReturns ==
    \A h \in Handlers : handler[h].stage # "none" ~> handler[h].stage = "none"
=============================================================================
