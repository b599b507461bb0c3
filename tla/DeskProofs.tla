------------------------------ MODULE DeskProofs ------------------------------
(* Theorems about Desk, for any number of threads, prices and events.         *)
EXTENDS Desk, Sums

-------------------------------------------------------------------------------
(* The inductive invariant *)

\* What the histories of a bracket may be: its events are behind, and only a
\* contested one that was closed may say something else than "triggered".
BracketsSound ==
  \A b \in BracketIds :
    /\ brackets[b].closings \in {0, 1}
    /\ brackets[b].status \in {"none", "active"} => brackets[b].closings = 0
    /\ brackets[b].status = "triggered" => brackets[b].closings = 1
    /\ brackets[b].closings = 1 /\ b \notin history.contested => brackets[b].status = "triggered"
    /\ b > events => brackets[b].status = "none"

\* The brackets the loop's session is about to cancel or to close were active
\* when it read them: they may be cancelled by now, but nobody else closes them.
LoopSound ==
  \A b \in loop.cancels \cup loop.closes :
    b \in BracketIds /\ brackets[b].closings = 0 /\ brackets[b].status # "none"

\* An order of a route that is on its way, which is not a close of the pair, has a
\* number of its own and no bracket yet.
OwnOrder(t) == OnItsWay(t) /\ route[t].order # NoOrder

OrdersSound ==
  \A t \in Threads : OwnOrder(t) =>
    /\ route[t].id \in Nat /\ 1 <= route[t].id /\ route[t].id <= events
    /\ brackets[route[t].id].status = "none"
    /\ \A u \in Threads : u # t /\ OwnOrder(u) => route[u].id # route[t].id

\* The brackets a route is about to cancel were active when it read them.
CancelsSound ==
  \A t \in Threads : route[t].op = "committing" =>
    \A b \in route[t].cancels : b \in BracketIds /\ brackets[b].status # "none"

DeletesSound ==
  \A t \in Threads : route[t].op = "deleting" =>
    /\ route[t].bracket \in BracketIds
    /\ brackets[route[t].bracket].status # "none"

EventsCounted == events \in Nat /\ events <= MaxEvents
RouteIsFunction == route = [t \in Threads |-> route[t]]

IInv ==
  /\ EventsCounted /\ RouteIsFunction
  /\ BracketsSound /\ LoopSound /\ OrdersSound /\ CancelsSound /\ DeletesSound

-------------------------------------------------------------------------------
LEMMA ConstantsTyped == MaxEvents \in Nat
BY DeskAssumption

LEMMA InvInit == Init => IInv
<1> SUFFICES ASSUME Init
             PROVE  IInv
  OBVIOUS
<1>1. \A b \in BracketIds : brackets[b].status = "none" /\ brackets[b].closings = 0
  BY DEF Init, NoBracket, Bracket
<1>2. loop.cancels = {} /\ loop.closes = {}
  BY DEF Init, Phase, Session
<1>3. \A t \in Threads : route[t].op = "idle"
  BY DEF Init, Idle
<1>4. EventsCounted /\ RouteIsFunction
  BY ConstantsTyped DEF Init, EventsCounted, RouteIsFunction
<1> QED
  BY <1>1, <1>2, <1>3, <1>4
     DEF IInv, BracketsSound, LoopSound, OrdersSound, CancelsSound, DeletesSound, OwnOrder, OnItsWay

LEMMA ActiveIsUnclosed ==
  ASSUME IInv, NEW b \in Active
  PROVE  b \in BracketIds /\ brackets[b].closings = 0 /\ brackets[b].status # "none"
BY DEF IInv, Active, BracketsSound

LEMMA ElsewhereIsActive ==
  ASSUME NEW signed
  PROVE  ClosedElsewhere(signed) \subseteq Active
BY DEF ClosedElsewhere, ActiveOf

\* What a step may do to bracket b.
Kept(b) == brackets'[b].status = brackets[b].status /\ brackets'[b].closings = brackets[b].closings
Withdrawn(b) ==
  /\ brackets'[b].status = "cancelled" /\ brackets'[b].closings = brackets[b].closings
  /\ brackets[b].status # "none"
  /\ brackets[b].closings = 0 \/ b \in history'.contested
ClosedNow(b) ==
  /\ brackets'[b].status = "triggered" /\ brackets'[b].closings = 1
  /\ brackets[b].status # "none"
Opened(b) ==
  /\ brackets'[b].status = "active" /\ brackets'[b].closings = 0
  /\ brackets[b].status = "none" /\ b <= events

LEMMA BracketsEvolve ==
  ASSUME IInv, events' \in Nat, events <= events', history.contested \subseteq history'.contested,
         \A b \in BracketIds : Kept(b) \/ Withdrawn(b) \/ ClosedNow(b) \/ Opened(b)
  PROVE  BracketsSound'
<1> SUFFICES ASSUME NEW b \in BracketIds
             PROVE  /\ brackets'[b].closings \in {0, 1}
                    /\ brackets'[b].status \in {"none", "active"} => brackets'[b].closings = 0
                    /\ brackets'[b].status = "triggered" => brackets'[b].closings = 1
                    /\ brackets'[b].closings = 1 /\ b \notin history'.contested
                         => brackets'[b].status = "triggered"
                    /\ b > events' => brackets'[b].status = "none"
  BY DEF BracketsSound, BracketIds
<1>1. b \in Nat /\ events \in Nat
  BY ConstantsTyped DEF BracketIds, IInv, EventsCounted
<1>2. b > events' => b > events
  BY <1>1
<1>3. CASE Kept(b)
  BY <1>2, <1>3 DEF IInv, BracketsSound, Kept
<1>4. CASE Withdrawn(b)
  BY <1>2, <1>4 DEF IInv, BracketsSound, Withdrawn
<1>5. CASE ClosedNow(b)
  BY <1>2, <1>5 DEF IInv, BracketsSound, ClosedNow
<1>6. CASE Opened(b)
  BY <1>1, <1>2, <1>6 DEF IInv, BracketsSound, Opened
<1> QED
  BY <1>3, <1>4, <1>5, <1>6

-------------------------------------------------------------------------------
(* The steps of the loop *)

\* What a route may become in a step that leaves the brackets alone, and gives out no
\* new number: something without brackets; or its order, or a close of the pair, with
\* active brackets to cancel.
Calm(t) ==
  \/ route'[t] = route[t]
  \/ route'[t].op \in {"idle", "unwinding", "starting"}
  \/ /\ route'[t].op = "committing" /\ route'[t].cancels \subseteq Active
     /\ route'[t].order = NoOrder \/ (OwnOrder(t) /\ route'[t].id = route[t].id)

\* A step that leaves the brackets alone; the session and the routes may have read
\* brackets that are active.
LEMMA CalmKeepsInv ==
  ASSUME IInv, UNCHANGED brackets, history'.contested = history.contested,
         events' = events \/ Counted,
         loop' = loop \/ (loop'.cancels \subseteq Active /\ loop'.closes \subseteq Active),
         RouteIsFunction', \A t \in Threads : Calm(t)
  PROVE  IInv'
<1>1. events' \in Nat /\ events <= events' /\ events' <= MaxEvents
  BY ConstantsTyped DEF IInv, EventsCounted, Counted
<1>2. EventsCounted'
  BY <1>1 DEF EventsCounted
<1>3. BracketsSound'
  BY <1>1, BracketsEvolve DEF Kept
<1>4. LoopSound'
  BY ActiveIsUnclosed DEF IInv, LoopSound, BracketIds
<1>5. \A t \in Threads : OwnOrder(t)' => OwnOrder(t) /\ route'[t].id = route[t].id
  BY DEF Calm, OwnOrder, OnItsWay
<1>6. OrdersSound'
  <2> SUFFICES ASSUME NEW t \in Threads, OwnOrder(t)'
               PROVE  /\ route'[t].id \in Nat /\ 1 <= route'[t].id /\ route'[t].id <= events'
                      /\ brackets'[route'[t].id].status = "none"
                      /\ \A u \in Threads : u # t /\ OwnOrder(u)' => route'[u].id # route'[t].id
    BY DEF OrdersSound
  <2>1. OwnOrder(t) /\ route'[t].id = route[t].id
    BY <1>5
  <2>2. /\ route[t].id \in Nat /\ 1 <= route[t].id /\ route[t].id <= events
        /\ brackets[route[t].id].status = "none"
        /\ \A u \in Threads : u # t /\ OwnOrder(u) => route[u].id # route[t].id
    BY <2>1 DEF IInv, OrdersSound
  <2> QED
    BY <1>1, <1>5, <2>1, <2>2 DEF IInv, EventsCounted
<1>7. CancelsSound'
  <2> SUFFICES ASSUME NEW t \in Threads, route'[t].op = "committing", NEW b \in route'[t].cancels
               PROVE  b \in BracketIds /\ brackets[b].status # "none"
    BY DEF CancelsSound, BracketIds
  <2>1. CASE route'[t] = route[t]
    BY <2>1 DEF IInv, CancelsSound
  <2>2. CASE route'[t] # route[t]
    BY <2>2, ActiveIsUnclosed DEF Calm
  <2> QED
    BY <2>1, <2>2
<1>8. DeletesSound'
  BY DEF Calm, IInv, DeletesSound, BracketIds
<1> QED
  BY <1>2, <1>3, <1>4, <1>6, <1>7, <1>8 DEF IInv

\* In particular one that leaves the routes alone.
LEMMA QuietKeepsInv ==
  ASSUME IInv, UNCHANGED <<brackets, route>>, history'.contested = history.contested,
         events' = events \/ Counted,
         loop' = loop \/ (loop'.cancels \subseteq Active /\ loop'.closes \subseteq Active)
  PROVE  IInv'
<1>1. RouteIsFunction'
  BY DEF IInv, RouteIsFunction
<1>2. \A t \in Threads : Calm(t)
  BY DEF Calm
<1> QED
  BY <1>1, <1>2, CalmKeepsInv

\* A step of the loop that cancels or closes brackets which nobody has closed, and
\* ends the session.
LEMMA CommitKeepsInv ==
  ASSUME IInv, UNCHANGED <<route, events>>, history'.contested = history.contested,
         loop'.cancels = {}, loop'.closes = {},
         \A b \in BracketIds : Kept(b) \/ Withdrawn(b) \/ ClosedNow(b)
  PROVE  IInv'
<1>1. EventsCounted' /\ RouteIsFunction'
  BY DEF IInv, EventsCounted, RouteIsFunction
<1>2. BracketsSound'
  BY BracketsEvolve DEF IInv, EventsCounted
<1>3. LoopSound'
  BY DEF LoopSound
<1>4. \A b \in BracketIds : brackets'[b].status = "none" <=> brackets[b].status = "none"
  BY DEF Kept, Withdrawn, ClosedNow
<1>5. \A n \in Nat : 1 <= n /\ n <= events => n \in BracketIds
  BY ConstantsTyped DEF IInv, EventsCounted, BracketIds
<1>6. OrdersSound'
  BY <1>4, <1>5 DEF IInv, OrdersSound, OwnOrder, OnItsWay
<1>7. CancelsSound' /\ DeletesSound'
  BY <1>4 DEF IInv, CancelsSound, DeletesSound, BracketIds
<1> QED
  BY <1>1, <1>2, <1>3, <1>6, <1>7 DEF IInv

LEMMA CancelledWithdraws ==
  ASSUME NEW ids, brackets' = Cancelled(ids),
         \A b \in ids : brackets[b].closings = 0 /\ brackets[b].status # "none"
  PROVE  \A b \in BracketIds : Kept(b) \/ Withdrawn(b)
BY DEF Cancelled, Becomes, Bracket, Kept, Withdrawn

LEMMA LoopKeepsInv == IInv /\ LoopStep => IInv'
<1> SUFFICES ASSUME IInv, LoopStep
             PROVE  IInv'
  OBVIOUS
<1>0. CASE Tick
  <2>1. /\ UNCHANGED <<brackets, events, history>>
        /\ loop'.cancels = {} /\ loop'.closes = {}
        /\ route' = [t \in Threads |-> IF route[t].op = "starting" THEN Later(route[t]) ELSE route[t]]
    BY <1>0 DEF Tick, Phase, Session
  <2>2. RouteIsFunction' /\ \A t \in Threads : Calm(t)
    BY <2>1 DEF RouteIsFunction, Calm, Later, Starting
  <2> QED
    BY <2>1, <2>2, CalmKeepsInv
<1>1. CASE NoSignal \/ NoSlice
  BY <1>1, QuietKeepsInv DEF NoSignal, NoSlice, Phase, Session
<1>2. CASE Signal
  BY <1>2, QuietKeepsInv, ElsewhereIsActive DEF Signal, Session
<1>3. CASE Slice
  BY <1>3, QuietKeepsInv, ElsewhereIsActive DEF Slice, Session
<1>4. CASE ReadBrackets
  BY <1>4, QuietKeepsInv DEF ReadBrackets, Phase, Session
<1>5. CASE ReadPositions
  BY <1>5, QuietKeepsInv DEF ReadPositions, Phase, Session
<1>6. CASE CommitSignal \/ CommitSlice
  <2>1. /\ brackets' = Cancelled(loop.cancels)
        /\ loop'.cancels = {} /\ loop'.closes = {}
        /\ history'.contested = history.contested
        /\ UNCHANGED <<route, events>>
    BY <1>6 DEF CommitSignal, CommitSlice, CommitLoop, Phase, Session, Unheld, History
  <2>2. \A b \in loop.cancels : brackets[b].closings = 0 /\ brackets[b].status # "none"
    BY DEF IInv, LoopSound
  <2> QED
    BY <2>1, <2>2, CancelledWithdraws, CommitKeepsInv
<1>7. CASE Liquidate
  <2>1. PICK fills : LiquidateWith(fills)
    BY <1>7 DEF Liquidate
  <2>2. /\ brackets' = Cancelled(ClosedElsewhere(fills[Primary]))
        /\ loop'.cancels = {} /\ loop'.closes = {}
        /\ history'.contested = history.contested
        /\ UNCHANGED <<route, events>>
    BY <2>1 DEF LiquidateWith, Phase, Session, Unheld, History
  <2>3. \A b \in ClosedElsewhere(fills[Primary]) :
          brackets[b].closings = 0 /\ brackets[b].status # "none"
    BY ElsewhereIsActive, ActiveIsUnclosed
  <2> QED
    BY <2>2, <2>3, CancelledWithdraws, CommitKeepsInv
<1>8. CASE CloseBrackets
  <2>1. /\ brackets' = [b \in BracketIds |-> IF b \in loop.closes THEN Fire(b) ELSE brackets[b]]
        /\ loop'.cancels = {} /\ loop'.closes = {}
        /\ history'.contested = history.contested
        /\ UNCHANGED <<route, events>>
    BY <1>8 DEF CloseBrackets, Phase, Session, Unheld, History
  <2>2. \A b \in BracketIds : Kept(b) \/ ClosedNow(b)
    BY <2>1 DEF IInv, LoopSound, Fire, Becomes, Bracket, Kept, ClosedNow
  <2> QED
    BY <2>1, <2>2, CommitKeepsInv
<1> QED
  BY <1>0, <1>1, <1>2, <1>3, <1>4, <1>5, <1>6, <1>7, <1>8 DEF LoopStep

-------------------------------------------------------------------------------
(* The routes *)

LEMMA CheckKeepsInv ==
  ASSUME IInv, NEW t \in Threads, CheckOrder(t)
  PROVE  IInv'
<1> DEFINE n == events + 1
<1>1. PICK order : route' = [route EXCEPT ![t] = Ordering(n, order, Estimate(order), FALSE, halted)]
  BY DEF CheckOrder
<1>2. /\ events' = n /\ events \in Nat /\ n \in BracketIds
      /\ UNCHANGED <<brackets, loop, history>>
  BY ConstantsTyped DEF CheckOrder, Counted, IInv, EventsCounted, BracketIds
<1>3. brackets[n].status = "none"
  BY <1>2 DEF IInv, BracketsSound
<1>4. /\ RouteIsFunction'
      /\ \A u \in Threads :
           route'[u] = IF u = t THEN Ordering(n, order, Estimate(order), FALSE, halted) ELSE route[u]
  BY <1>1 DEF IInv, RouteIsFunction
<1>5. EventsCounted'
  BY <1>2, ConstantsTyped DEF EventsCounted, BracketIds
<1>6. BracketsSound'
  BY <1>2, BracketsEvolve DEF Kept
<1>7. LoopSound'
  BY <1>2 DEF IInv, LoopSound, BracketIds
<1>8. OrdersSound'
  BY <1>2, <1>3, <1>4 DEF IInv, OrdersSound, OwnOrder, OnItsWay, Ordering
<1>9. CancelsSound' /\ DeletesSound'
  BY <1>2, <1>4 DEF IInv, CancelsSound, DeletesSound, Ordering, BracketIds
<1> QED
  BY <1>4, <1>5, <1>6, <1>7, <1>8, <1>9 DEF IInv

\* The engine's answer to an order, or to a close of the pair.
LEMMA AnswerKeepsInv ==
  ASSUME IInv, NEW t \in Threads, NEW id, NEW order, NEW estimate, NEW raced, NEW late, NEW fills,
         Answered(t, id, order, estimate, raced, late, fills),
         order = NoOrder \/ (OnItsWay(t) /\ route[t].order = order /\ route[t].id = id),
         UNCHANGED <<brackets, loop, events, history>>
  PROVE  IInv'
<1> DEFINE answer == IF fills = Nothing THEN Idle
                     ELSE Committing(id, order, estimate, raced, late, fills, price,
                                     ClosedElsewhere(fills[Primary]))
<1>1. \A u \in Threads : route'[u] = IF u = t THEN answer ELSE route[u]
  BY DEF Answered, IInv, RouteIsFunction
<1>2. RouteIsFunction'
  BY DEF Answered, IInv, RouteIsFunction
<1>3. \/ answer.op = "idle"
      \/ /\ answer.op = "committing" /\ answer.cancels \subseteq Active
         /\ answer.order = order /\ answer.id = id
  BY ElsewhereIsActive DEF Idle, Committing
<1> HIDE DEF answer
<1>4. \A u \in Threads : Calm(u)
  BY <1>1, <1>3 DEF Calm, OwnOrder
<1> QED
  BY <1>2, <1>4, CalmKeepsInv

LEMMA FillKeepsInv ==
  ASSUME IInv, NEW t \in Threads, FillOrder(t) \/ CloseLegs(t)
  PROVE  IInv'
<1>1. UNCHANGED <<brackets, loop, events, history>>
  BY DEF FillOrder, CloseLegs
<1>2. CASE FillOrder(t)
  <2>1. OnItsWay(t)
    BY <1>2 DEF FillOrder, OnItsWay
  <2>2. \E fills :
          Answered(t, route[t].id, route[t].order, route[t].estimate, route[t].raced,
                   route[t].late, fills)
    BY <1>2 DEF FillOrder
  <2> QED
    BY <1>1, <2>1, <2>2, AnswerKeepsInv
<1>3. CASE CloseLegs(t)
  <2>1. \E fills : Answered(t, 0, NoOrder, 0, TRUE, FALSE, fills)
    BY <1>3 DEF CloseLegs
  <2> QED
    BY <1>1, <2>1, AnswerKeepsInv
<1> QED
  BY <1>2, <1>3

\* A route that begins something else, or ends it.
LEMMA BeginKeepsInv ==
  ASSUME IInv, NEW t \in Threads, ReadLegs(t) \/ ReadBar(t) \/ CommitAlgo(t)
  PROVE  IInv'
<1>1. /\ UNCHANGED <<brackets, loop, history>>
      /\ events' = events \/ Counted
  BY DEF ReadLegs, ReadBar, CommitAlgo
<1>2. \E r : route' = [route EXCEPT ![t] = r] /\ r.op \in {"idle", "unwinding", "starting"}
  BY DEF ReadLegs, ReadBar, CommitAlgo, Starting, Idle
<1>3. RouteIsFunction' /\ \A u \in Threads : Calm(u)
  BY <1>2 DEF IInv, RouteIsFunction, Calm
<1> QED
  BY <1>1, <1>3, CalmKeepsInv

\* A route's own bracket is the only one its commit opens.
LEMMA CommitKeepsBrackets ==
  ASSUME IInv, NEW t \in Threads, CommitFills(t)
  PROVE  /\ history.contested \subseteq history'.contested
         /\ \A b \in BracketIds :
              \/ Kept(b) \/ Withdrawn(b)
              \/ Opened(b) /\ OwnOrder(t) /\ b = route[t].id
<1> DEFINE r == route[t]
           filled == Magnitude(r.fills[Primary])
<1>1. /\ r.op = "committing"
      /\ brackets' = WithBracket(r.id, r.order, filled, Cancelled(r.cancels))
      /\ history'.contested = history.contested \cup {b \in r.cancels : brackets[b].status # "active"}
  BY DEF CommitFills, History
<1>2. \A b \in r.cancels : b \in BracketIds /\ brackets[b].status # "none"
  BY <1>1 DEF IInv, CancelsSound
<1> HIDE DEF filled
<1>3. ASSUME NEW b \in BracketIds
      PROVE  \/ Kept(b) \/ Withdrawn(b)
             \/ Opened(b) /\ OwnOrder(t) /\ b = route[t].id
  <2>1. \/ brackets'[b] = Cancelled(r.cancels)[b]
        \/ b = r.id /\ Bracketed(r.order) /\ brackets'[b] = NewBracket(r.order, filled)
    BY <1>1 DEF WithBracket
  <2>2. CASE brackets'[b] = Cancelled(r.cancels)[b] /\ b \in r.cancels
    <3>1. brackets'[b] = Becomes(b, "cancelled", brackets[b].closings)
      BY <2>2 DEF Cancelled
    <3>2. brackets[b].status = "active" => brackets[b].closings = 0
      BY DEF IInv, BracketsSound
    <3>3. brackets[b].status # "active" => b \in history'.contested
      BY <1>1, <2>2
    <3> QED
      BY <1>2, <2>2, <3>1, <3>2, <3>3 DEF Withdrawn, Becomes, Bracket
  <2>3. CASE brackets'[b] = Cancelled(r.cancels)[b] /\ b \notin r.cancels
    BY <2>3 DEF Cancelled, Kept
  <2>4. CASE b = r.id /\ Bracketed(r.order) /\ brackets'[b] = NewBracket(r.order, filled)
    <3>1. r.order # NoOrder
      BY <2>4 DEF Bracketed, NoOrder
    <3>2. OwnOrder(t)
      BY <1>1, <3>1 DEF OwnOrder, OnItsWay
    <3>3. brackets[b].status = "none" /\ b <= events
      BY <2>4, <3>2 DEF IInv, OrdersSound
    <3> QED
      BY <2>4, <3>2, <3>3 DEF Opened, NewBracket, Bracket
  <2> QED
    BY <2>1, <2>2, <2>3, <2>4
<1> QED
  BY <1>1, <1>3

LEMMA CommitFillsKeepsInv ==
  ASSUME IInv, NEW t \in Threads, CommitFills(t)
  PROVE  IInv'
<1>1. /\ UNCHANGED <<loop, events>>
      /\ \A u \in Threads :
           \/ u = t /\ route'[u] = Idle
           \/ u # t /\ OnItsWay(u) /\ route'[u] = Raced(route[u])
           \/ u # t /\ route'[u] = route[u]
      /\ RouteIsFunction'
  BY DEF CommitFills, RouteIsFunction
<1>2. /\ history.contested \subseteq history'.contested
      /\ \A b \in BracketIds :
           \/ Kept(b) \/ Withdrawn(b)
           \/ Opened(b) /\ OwnOrder(t) /\ b = route[t].id
  BY CommitKeepsBrackets
<1>3. EventsCounted'
  BY <1>1 DEF IInv, EventsCounted
<1>4. BracketsSound'
  BY <1>1, <1>2, BracketsEvolve DEF IInv, EventsCounted
<1>5. LoopSound'
  BY <1>1, <1>2 DEF IInv, LoopSound, Kept, Withdrawn, Opened, BracketIds
<1>6. \A u \in Threads :
        /\ route'[u].op # "idle" => u # t /\ route'[u].op = route[u].op
        /\ OwnOrder(u)' => u # t /\ OwnOrder(u) /\ route'[u].id = route[u].id
        /\ route'[u].op = "committing" => route'[u].cancels = route[u].cancels
        /\ route'[u].op = "deleting" => route'[u].bracket = route[u].bracket
  <2> TAKE u \in Threads
  <2>1. CASE route'[u] = Idle
    BY <2>1 DEF Idle, OwnOrder, OnItsWay
  <2>2. CASE u # t /\ route'[u] = route[u]
    BY <2>2 DEF OwnOrder, OnItsWay
  <2>3. CASE u # t /\ OnItsWay(u) /\ route'[u] = Raced(route[u])
    BY <2>3 DEF OwnOrder, OnItsWay, Raced, Ordering, Committing
  <2> QED
    BY <1>1, <2>1, <2>2, <2>3
<1>7. OrdersSound'
  <2> SUFFICES ASSUME NEW u \in Threads, OwnOrder(u)'
               PROVE  /\ route'[u].id \in Nat /\ 1 <= route'[u].id /\ route'[u].id <= events'
                      /\ brackets'[route'[u].id].status = "none"
                      /\ \A v \in Threads : v # u /\ OwnOrder(v)' => route'[v].id # route'[u].id
    BY DEF OrdersSound
  <2>1. u # t /\ OwnOrder(u) /\ route'[u].id = route[u].id
    BY <1>6
  <2>2. /\ route[u].id \in Nat /\ 1 <= route[u].id /\ route[u].id <= events
        /\ brackets[route[u].id].status = "none"
        /\ \A v \in Threads : v # u /\ OwnOrder(v) => route[v].id # route[u].id
    BY <2>1 DEF IInv, OrdersSound
  <2>3. route[u].id \in BracketIds
    BY <2>2, ConstantsTyped DEF IInv, EventsCounted, BracketIds
  <2>4. OwnOrder(t) => route[u].id # route[t].id
    BY <2>1, <2>2
  <2>5. brackets'[route[u].id].status = "none"
    BY <1>2, <2>2, <2>3, <2>4 DEF Kept, Withdrawn
  <2> QED
    BY <1>1, <1>6, <2>1, <2>2, <2>5
<1>8. \A b \in BracketIds : brackets[b].status # "none" => brackets'[b].status # "none"
  BY <1>2 DEF Kept, Withdrawn, Opened
<1>9. CancelsSound'
  BY <1>6, <1>8 DEF IInv, CancelsSound, BracketIds
<1>10. DeletesSound'
  BY <1>6, <1>8 DEF IInv, DeletesSound, BracketIds
<1> QED
  BY <1>1, <1>3, <1>4, <1>5, <1>7, <1>9, <1>10 DEF IInv

LEMMA ReadKeepsInv ==
  ASSUME IInv, NEW t \in Threads, NEW b \in BracketIds, ReadBracket(t, b)
  PROVE  IInv'
<1>1. UNCHANGED <<brackets, loop, events, history>> /\ b \in Active
  BY DEF ReadBracket
<1>2. /\ RouteIsFunction'
      /\ \A u \in Threads :
           route'[u] = IF u = t THEN [op |-> "deleting", bracket |-> b] ELSE route[u]
  BY DEF ReadBracket, IInv, RouteIsFunction
<1>3. EventsCounted' /\ BracketsSound' /\ LoopSound'
  BY <1>1 DEF IInv, EventsCounted, BracketsSound, LoopSound, BracketIds
<1>4. OrdersSound' /\ CancelsSound'
  BY <1>1, <1>2 DEF IInv, OrdersSound, CancelsSound, OwnOrder, OnItsWay, BracketIds
<1>5. DeletesSound'
  BY <1>1, <1>2, ActiveIsUnclosed DEF IInv, DeletesSound, BracketIds
<1> QED
  BY <1>2, <1>3, <1>4, <1>5 DEF IInv

LEMMA DeleteKeepsInv ==
  ASSUME IInv, NEW t \in Threads, DeleteBracket(t)
  PROVE  IInv'
<1> DEFINE b == route[t].bracket
<1>1. /\ route[t].op = "deleting" /\ b \in BracketIds /\ brackets[b].status # "none"
      /\ brackets' = Cancelled({b}) /\ UNCHANGED <<loop, events>>
      /\ route' = [route EXCEPT ![t] = Idle]
  BY DEF DeleteBracket, IInv, DeletesSound
<1>2. /\ history.contested \subseteq history'.contested
      /\ brackets[b].status # "active" => b \in history'.contested
  BY DEF DeleteBracket, History
<1> HIDE DEF b
<1>3. \A c \in BracketIds : Kept(c) \/ (c = b /\ Withdrawn(c))
  <2>1. \A c \in BracketIds : c # b => Kept(c)
    BY <1>1 DEF Cancelled, Kept
  <2>2. brackets'[b] = Becomes(b, "cancelled", brackets[b].closings)
    BY <1>1 DEF Cancelled
  <2>3. brackets[b].status = "active" => brackets[b].closings = 0
    BY <1>1 DEF IInv, BracketsSound
  <2>4. Withdrawn(b)
    BY <1>1, <1>2, <2>2, <2>3 DEF Withdrawn, Becomes, Bracket
  <2> QED
    BY <2>1, <2>4
<1>4. /\ RouteIsFunction'
      /\ \A u \in Threads : route'[u] = IF u = t THEN Idle ELSE route[u]
  BY <1>1 DEF IInv, RouteIsFunction
<1>5. EventsCounted'
  BY <1>1 DEF IInv, EventsCounted
<1>6. BracketsSound'
  BY <1>1, <1>2, <1>3, BracketsEvolve DEF IInv, EventsCounted
<1>7. LoopSound'
  BY <1>1, <1>3, ZenonT(40) DEF IInv, LoopSound, Kept, Withdrawn, BracketIds
<1>8. \A n \in Nat : 1 <= n /\ n <= events => n \in BracketIds
  BY ConstantsTyped DEF IInv, EventsCounted, BracketIds
<1>9. \A c \in BracketIds : brackets'[c].status = "none" <=> brackets[c].status = "none"
  BY <1>3 DEF Kept, Withdrawn
<1>10. OrdersSound'
  <2> SUFFICES ASSUME NEW u \in Threads, OwnOrder(u)'
               PROVE  /\ route'[u].id \in Nat /\ 1 <= route'[u].id /\ route'[u].id <= events'
                      /\ brackets'[route'[u].id].status = "none"
                      /\ \A v \in Threads : v # u /\ OwnOrder(v)' => route'[v].id # route'[u].id
    BY DEF OrdersSound
  <2>1. \A v \in Threads : OwnOrder(v)' => OwnOrder(v) /\ route'[v] = route[v]
    BY <1>4 DEF Idle, OwnOrder, OnItsWay
  <2>2. /\ route[u].id \in Nat /\ 1 <= route[u].id /\ route[u].id <= events
        /\ brackets[route[u].id].status = "none"
        /\ \A v \in Threads : v # u /\ OwnOrder(v) => route[v].id # route[u].id
    BY <2>1 DEF IInv, OrdersSound
  <2>3. brackets'[route[u].id].status = "none"
    BY <2>2, <1>8, <1>9
  <2> QED
    BY <1>1, <2>1, <2>2, <2>3
<1>11. CancelsSound' /\ DeletesSound'
  BY <1>4, <1>9 DEF IInv, CancelsSound, DeletesSound, Idle, BracketIds
<1> QED
  BY <1>4, <1>5, <1>6, <1>7, <1>10, <1>11 DEF IInv

LEMMA RestartKeepsInv ==
  ASSUME IInv, Restart
  PROVE  IInv'
<1>1. /\ events' \in Nat /\ events <= events' /\ events' <= MaxEvents
      /\ UNCHANGED <<brackets, history>>
  BY ConstantsTyped DEF Restart, Counted, IInv, EventsCounted
<1>2. loop'.cancels = {} /\ loop'.closes = {}
  BY DEF Restart, Phase, Session
<1>3. RouteIsFunction' /\ \A t \in Threads : route'[t].op = "idle"
  BY DEF Restart, RouteIsFunction, Idle
<1>4. BracketsSound'
  BY <1>1, BracketsEvolve DEF Kept
<1> QED
  BY <1>1, <1>2, <1>3, <1>4
     DEF IInv, EventsCounted, LoopSound, OrdersSound, CancelsSound, DeletesSound, OwnOrder, OnItsWay

LEMMA InvNext == IInv /\ [Next]_vars => IInv'
<1> SUFFICES ASSUME IInv, [Next]_vars
             PROVE  IInv'
  OBVIOUS
<1>1. CASE UNCHANGED vars
  BY <1>1, QuietKeepsInv DEF vars
<1>2. CASE LoopStep
  BY <1>2, LoopKeepsInv
<1>3. CASE ResetHalt \/ \E s \in Subs : CreateSub(s)
  BY <1>3, QuietKeepsInv DEF ResetHalt, CreateSub
<1>4. ASSUME NEW id \in BracketIds, CancelOrder(id)
      PROVE  IInv'
  BY <1>4, QuietKeepsInv DEF CancelOrder, History
<1>5. CASE Restart
  BY <1>5, RestartKeepsInv
<1>6. ASSUME NEW t \in Threads,
             \/ CheckOrder(t) \/ FillOrder(t) \/ CommitFills(t) \/ ReadLegs(t) \/ CloseLegs(t)
             \/ DeleteBracket(t) \/ (\E b \in BracketIds : ReadBracket(t, b))
             \/ ReadBar(t) \/ CommitAlgo(t)
      PROVE  IInv'
  BY <1>6, CheckKeepsInv, FillKeepsInv, CommitFillsKeepsInv, BeginKeepsInv, DeleteKeepsInv,
     ReadKeepsInv
<1> QED
  BY <1>1, <1>2, <1>3, <1>4, <1>5, <1>6 DEF Next

\* A bracket closes its position at most once, across restarts and rollbacks and
\* whatever orders and cancellations run beside the loop, and its row tells so
\* unless a DELETE had read the row before (_close_bracket).
THEOREM BracketsCloseOnce == Spec => []ClosesOnce
<1>1. IInv => ClosesOnce
  BY DEF IInv, BracketsSound, ClosesOnce
<1> QED
  BY <1>1, InvInit, InvNext, PTL DEF Spec

-------------------------------------------------------------------------------
(* What a TWAP order has sent *)

Share == parent.total \div parent.horizon
Undisturbed == parent.algo = "twap" /\ ~parent.disturbed

\* The phases of a tick before the slice of its bar is committed.
BeforeSlice == {"strategies", "signal", "algos", "slice"}

SharesSent ==
  /\ parent.total \in Nat /\ parent.horizon \in Nat \ {0} /\ parent.sent \in Nat
  /\ parent.status \in {"none", "active", "completed"}
  /\ parent.status = "none" => parent.sent = 0
  /\ parent.status = "completed" => parent.sent = parent.total
  /\ parent.status = "active" =>
       /\ parent.elapsed \in Nat /\ parent.elapsed <= parent.horizon
       /\ parent.elapsed = 0 => parent.sent = 0
       /\ loop.at \in BeforeSlice /\ parent.elapsed # 0 =>
            parent.sent <= (parent.elapsed - 1) * Share
       /\ loop.at \notin BeforeSlice => /\ parent.elapsed < parent.horizon
                                        /\ parent.sent <= parent.elapsed * Share

\* A slice on its way is the share of a bar of an active order, or the rest.
SliceIsShare ==
  loop.at = "slice" =>
    /\ parent.status = "active"
    /\ Undisturbed => /\ parent.elapsed # 0
                      /\ loop.sliced = IF IsFinalBar THEN parent.total - parent.sent ELSE Share

\* A parent order that is on its way is one of those that may be asked for.
StartsOK ==
  \A t \in Threads : route[t].op = "starting" =>
    route[t].request \in AlgoRequests /\ route[t].elapsed \in Nat

ParentInv == (Undisturbed => SharesSent) /\ SliceIsShare

LEMMA SharesFit ==
  ASSUME NEW total \in Nat, NEW horizon \in Nat \ {0}
  PROVE  total \div horizon \in Nat /\ horizon * (total \div horizon) <= total
OBVIOUS

LEMMA FewerShares ==
  ASSUME NEW i \in Nat, NEW j \in Nat, NEW q \in Nat, i <= j
  PROVE  i * q <= j * q
<1>1. (j - i) * q \in Nat
  OBVIOUS
<1>2. j * q = i * q + (j - i) * q
  OBVIOUS
<1> QED
  BY <1>1, <1>2

\* What a number of bars up to the horizon send is within the total.
LEMMA BarsFit ==
  ASSUME SharesSent, NEW i \in Nat, i <= parent.horizon
  PROVE  Share \in Nat /\ i * Share \in Nat /\ i * Share <= parent.total
<1>1. Share \in Nat /\ parent.horizon * Share <= parent.total
  BY SharesFit DEF SharesSent, Share
<1>2. i * Share <= parent.horizon * Share
  BY <1>1, FewerShares DEF SharesSent
<1>3. i * Share \in Nat /\ parent.horizon * Share \in Nat /\ parent.total \in Nat
  BY <1>1 DEF SharesSent
<1> QED
  BY <1>1, <1>2, <1>3

LEMMA SentWithinTotal ==
  ASSUME SharesSent
  PROVE  parent.sent <= parent.total
<1>1. CASE parent.status # "active"
  BY <1>1 DEF SharesSent
<1>2. CASE parent.status = "active" /\ parent.elapsed = 0
  BY <1>2 DEF SharesSent
<1>3. CASE parent.status = "active" /\ parent.elapsed # 0
  <2>1. /\ parent.elapsed \in Nat /\ parent.elapsed <= parent.horizon
        /\ parent.elapsed - 1 \in Nat /\ parent.elapsed - 1 <= parent.horizon
        /\ parent.sent \in Nat /\ parent.total \in Nat
    BY <1>3 DEF SharesSent
  <2>2. /\ parent.elapsed * Share \in Nat /\ parent.elapsed * Share <= parent.total
        /\ (parent.elapsed - 1) * Share \in Nat /\ (parent.elapsed - 1) * Share <= parent.total
    BY <2>1, BarsFit
  <2>3. parent.sent <= parent.elapsed * Share \/ parent.sent <= (parent.elapsed - 1) * Share
    BY <1>3 DEF SharesSent
  <2> QED
    BY <2>1, <2>2, <2>3
<1> QED
  BY <1>1, <1>2, <1>3

LEMMA ParentInit == Init => ParentInv
<1> SUFFICES ASSUME Init
             PROVE  ParentInv
  OBVIOUS
<1>1. parent = NoParent /\ loop.at = "tick"
  BY DEF Init, Phase, Session
<1>2. SharesSent
  BY <1>1 DEF SharesSent, NoParent, Parent
<1> QED
  BY <1>1, <1>2 DEF ParentInv, SliceIsShare

\* A step before or after the slice, which leaves the order alone.
LEMMA ParentStays ==
  ASSUME ParentInv, parent' = parent,
         loop'.at \in BeforeSlice <=> loop.at \in BeforeSlice,
         loop' = loop \/ loop'.at # "slice"
  PROVE  ParentInv'
<1>1. Undisturbed' = Undisturbed /\ IsFinalBar' = IsFinalBar /\ Share' = Share
  BY DEF Undisturbed, IsFinalBar, Share
<1>2. SharesSent => SharesSent'
  BY <1>1 DEF SharesSent
<1>3. SliceIsShare'
  BY <1>1 DEF ParentInv, SliceIsShare
<1> QED
  BY <1>1, <1>2, <1>3 DEF ParentInv

LEMMA TickKeepsParent ==
  ASSUME ParentInv, Tick
  PROVE  ParentInv'
<1>1. loop.at = "tick" /\ loop'.at = "strategies"
  BY DEF Tick, Phase, Session
<1>2. SliceIsShare'
  BY <1>1 DEF SliceIsShare
<1>3. ASSUME Undisturbed'
      PROVE  SharesSent'
  <2>1. CASE parent.status # "active"
    <3>1. parent' = parent
      BY <2>1 DEF Tick
    <3>2. Undisturbed
      BY <1>3, <3>1 DEF Undisturbed
    <3> QED
      BY <2>1, <3>1, <3>2 DEF ParentInv, SharesSent
  <2>2. CASE parent.status = "active"
    <3>1. parent' = ParentWith(parent.sent, parent.elapsed + 1, "active", parent.disturbed)
      BY <2>2 DEF Tick
    <3>2. /\ parent'.total = parent.total /\ parent'.horizon = parent.horizon
          /\ parent'.sent = parent.sent /\ parent'.elapsed = parent.elapsed + 1
          /\ parent'.status = "active"
          /\ parent'.algo = parent.algo /\ parent'.disturbed = parent.disturbed
      BY <3>1 DEF ParentWith, Parent
    <3>3. SharesSent
      BY <1>3, <3>2 DEF Undisturbed, ParentInv
    <3>4. /\ parent.elapsed \in Nat /\ parent.elapsed < parent.horizon
          /\ parent.sent <= parent.elapsed * Share
          /\ parent.total \in Nat /\ parent.horizon \in Nat \ {0} /\ parent.sent \in Nat
      BY <1>1, <2>2, <3>3 DEF SharesSent, BeforeSlice
    <3>5. Share' = Share
      BY <3>2 DEF Share
    <3>6. parent'.elapsed \in Nat /\ parent'.elapsed # 0 /\ parent'.elapsed <= parent'.horizon
      BY <3>2, <3>4
    <3>7. parent'.elapsed - 1 = parent.elapsed
      BY <3>2, <3>4
    <3>8. parent'.sent <= (parent'.elapsed - 1) * Share'
      BY <3>2, <3>4, <3>5, <3>7
    <3> QED
      BY <1>1, <3>2, <3>4, <3>6, <3>8 DEF SharesSent, BeforeSlice
  <2> QED
    BY <2>1, <2>2
<1> QED
  BY <1>2, <1>3 DEF ParentInv

LEMMA SliceKeepsParent ==
  ASSUME ParentInv, Slice
  PROVE  ParentInv'
<1>1. /\ parent' = parent /\ loop.at = "algos" /\ loop'.at = "slice"
      /\ parent.status = "active" /\ parent.elapsed \in 1..parent.horizon
      /\ loop'.sliced \in SliceQty
  BY DEF Slice, Session
<1>2. Undisturbed' = Undisturbed /\ IsFinalBar' = IsFinalBar /\ Share' = Share
  BY <1>1 DEF Undisturbed, IsFinalBar, Share
<1>3. SharesSent => SharesSent'
  BY <1>1, <1>2 DEF SharesSent, BeforeSlice
<1>4. ASSUME Undisturbed
      PROVE  /\ parent.elapsed # 0
             /\ loop'.sliced = IF IsFinalBar THEN parent.total - parent.sent ELSE Share
  BY <1>1, <1>4 DEF Undisturbed, ParentInv, SharesSent, SliceQty, Share
<1>5. SliceIsShare'
  BY <1>1, <1>2, <1>4 DEF SliceIsShare
<1> QED
  BY <1>2, <1>3, <1>5 DEF ParentInv

\* After the slice of its bar, an order is complete or has bars to go.
LEMMA BarIsOver ==
  ASSUME NEW sent \in Nat, NEW status \in {"active", "completed"}, NEW disturbed,
         SharesSent, parent.status = "active", parent.elapsed # 0,
         parent' = ParentWith(sent, parent.elapsed, status, disturbed),
         loop'.at = "brackets",
         IsFinalBar => status = "completed" /\ sent = parent.total,
         ~IsFinalBar => status = "active" /\ sent <= parent.elapsed * Share
  PROVE  SharesSent'
<1>1. /\ parent'.total = parent.total /\ parent'.horizon = parent.horizon
      /\ parent'.sent = sent /\ parent'.elapsed = parent.elapsed /\ parent'.status = status
  BY DEF ParentWith, Parent
<1>2. Share' = Share
  BY <1>1 DEF Share
<1>3. /\ parent.total \in Nat /\ parent.horizon \in Nat \ {0}
      /\ parent.elapsed \in Nat /\ parent.elapsed <= parent.horizon
  BY DEF SharesSent
<1>4. CASE IsFinalBar
  BY <1>1, <1>3, <1>4 DEF SharesSent
<1>5. CASE ~IsFinalBar
  <2>1. parent.elapsed < parent.horizon
    BY <1>3, <1>5 DEF IsFinalBar
  <2> QED
    BY <1>1, <1>2, <1>3, <1>5, <2>1 DEF SharesSent, BeforeSlice
<1> QED
  BY <1>4, <1>5

LEMMA NoSliceKeepsParent ==
  ASSUME ParentInv, NoSlice
  PROVE  ParentInv'
<1>1. loop.at = "algos" /\ loop'.at = "brackets"
  BY DEF NoSlice, Phase, Session
<1>2. SliceIsShare'
  BY <1>1 DEF SliceIsShare
<1>3. ASSUME Undisturbed'
      PROVE  SharesSent'
  <2>1. Undisturbed /\ SharesSent
    BY <1>3 DEF NoSlice, Overrun, Paused, ParentWith, Parent, Undisturbed, ParentInv
  <2>2. CASE parent.status # "active"
    <3>1. parent' = parent
      BY <2>2 DEF NoSlice
    <3> QED
      BY <2>1, <2>2, <3>1 DEF SharesSent
  <2>3. CASE parent.status = "active" /\ parent.elapsed = 0
    <3>1. parent' = parent
      BY <2>3 DEF NoSlice
    <3>2. 0 * Share = 0 /\ Share \in Nat
      BY <2>1, SharesFit DEF SharesSent, Share
    <3>3. Share' = Share
      BY <3>1 DEF Share
    <3>4. parent.sent = 0 /\ parent.horizon \in Nat \ {0}
      BY <2>1, <2>3 DEF SharesSent
    <3> QED
      BY <1>1, <2>1, <2>3, <3>1, <3>2, <3>3, <3>4 DEF SharesSent, BeforeSlice
  <2>4. CASE parent.status = "active" /\ parent.elapsed # 0
    <3>1. /\ parent.elapsed \in Nat /\ parent.elapsed <= parent.horizon
          /\ parent.horizon \in Nat /\ parent.sent \in Nat /\ parent.total \in Nat
          /\ parent.sent <= (parent.elapsed - 1) * Share
      BY <1>1, <2>1, <2>4 DEF SharesSent, BeforeSlice
    <3>2. parent' = Paused
      BY <2>4, <3>1 DEF NoSlice
    <3>3. ~IsFinalBar
      BY <1>3, <3>2 DEF Undisturbed, Paused, ParentWith, Parent
    <3>4. /\ Share \in Nat /\ parent.elapsed * Share \in Nat
          /\ parent.elapsed - 1 \in Nat /\ (parent.elapsed - 1) * Share \in Nat
      BY <2>1, <2>4, <3>1, BarsFit
    <3>5. (parent.elapsed - 1) * Share <= parent.elapsed * Share
      BY <3>1, <3>4, FewerShares
    <3>6. parent.sent <= parent.elapsed * Share
      BY <3>1, <3>4, <3>5
    <3>7. parent' = ParentWith(parent.sent, parent.elapsed, "active",
                               parent.disturbed \/ IsFinalBar)
      BY <2>4, <3>2, <3>3 DEF Paused
    <3> QED
      BY <1>1, <2>1, <2>4, <3>1, <3>3, <3>6, <3>7, BarIsOver
  <2> QED
    BY <2>2, <2>3, <2>4
<1> QED
  BY <1>2, <1>3 DEF ParentInv

LEMMA CommitSliceKeepsParent ==
  ASSUME ParentInv, CommitSlice
  PROVE  ParentInv'
<1>1. loop.at = "slice" /\ loop'.at = "brackets" /\ parent' = Advanced(loop.sliced)
  BY DEF CommitSlice, CommitLoop, Phase, Session
<1>2. SliceIsShare'
  BY <1>1 DEF SliceIsShare
<1>3. ASSUME Undisturbed'
      PROVE  SharesSent'
  <2>1. Undisturbed /\ SharesSent
    BY <1>1, <1>3 DEF Advanced, ParentWith, Parent, Undisturbed, ParentInv
  <2>2. /\ parent.status = "active" /\ parent.elapsed # 0
        /\ loop.sliced = IF IsFinalBar THEN parent.total - parent.sent ELSE Share
    BY <1>1, <2>1 DEF ParentInv, SliceIsShare
  <2>3. /\ parent.elapsed \in Nat /\ parent.elapsed <= parent.horizon
        /\ parent.horizon \in Nat /\ parent.sent \in Nat /\ parent.total \in Nat
        /\ parent.sent <= (parent.elapsed - 1) * Share
    BY <1>1, <2>1, <2>2 DEF SharesSent, BeforeSlice
  <2>4. CASE IsFinalBar
    <3>1. parent.sent <= parent.total
      BY <2>1, SentWithinTotal
    <3>2. (IF loop.sliced > 0 THEN parent.sent + loop.sliced ELSE parent.sent) = parent.total
      BY <2>2, <2>3, <2>4, <3>1
    <3>3. parent' = ParentWith(parent.total, parent.elapsed, "completed", parent.disturbed)
      BY <1>1, <2>4, <3>2 DEF Advanced
    <3> QED
      BY <1>1, <2>1, <2>2, <2>3, <2>4, <3>3, BarIsOver
  <2>5. CASE ~IsFinalBar
    <3> DEFINE sent == IF loop.sliced > 0 THEN parent.sent + loop.sliced ELSE parent.sent
    <3>1. loop.sliced = Share /\ Share \in Nat
      BY <2>1, <2>2, <2>5, SharesFit DEF SharesSent, Share
    <3>2. sent = parent.sent + Share /\ sent \in Nat
      BY <2>3, <3>1
    <3>3. parent.elapsed * Share = (parent.elapsed - 1) * Share + Share
      BY <2>3, <3>1
    <3>4. (parent.elapsed - 1) * Share \in Int
      BY <2>3, <3>1
    <3>5. sent <= parent.elapsed * Share
      BY <2>3, <3>1, <3>2, <3>3, <3>4
    <3>6. parent' = ParentWith(sent, parent.elapsed, "active", parent.disturbed)
      BY <1>1, <2>2, <2>5 DEF Advanced
    <3> HIDE DEF sent
    <3> QED
      BY <1>1, <2>1, <2>2, <2>5, <3>2, <3>5, <3>6, BarIsOver
  <2> QED
    BY <2>4, <2>5
<1> QED
  BY <1>2, <1>3 DEF ParentInv

LEMMA CommitAlgoKeepsParent ==
  ASSUME ParentInv, StartsOK, NEW t \in Threads, CommitAlgo(t)
  PROVE  ParentInv'
<1> DEFINE a == route[t].request
           elapsed == route[t].elapsed
<1>1. /\ parent' = Parent(a.side, a.total, a.horizon, a.algo, 0, elapsed, "active",
                          Missed(a, elapsed))
      /\ a \in AlgoRequests /\ elapsed \in Nat
  BY DEF CommitAlgo, StartsOK
<1>2. loop' = loop /\ loop.at # "slice"
  BY DEF CommitAlgo, ParentInv, SliceIsShare
<1>3. a.total \in Nat /\ a.horizon \in Nat \ {0}
  BY <1>1, DeskAssumption
<1> HIDE DEF a, elapsed
<1>4. /\ parent'.total = a.total /\ parent'.horizon = a.horizon /\ parent'.sent = 0
      /\ parent'.elapsed = elapsed /\ parent'.status = "active"
      /\ parent'.disturbed = Missed(a, elapsed)
  BY <1>1 DEF Parent
<1>5. Share' \in Nat
  BY <1>3, <1>4, SharesFit DEF Share
<1>6. \A i \in Nat : 0 <= i * Share'
  <2>1. \A q \in Nat : \A i \in Nat : 0 <= i * q
    OBVIOUS
  <2> QED
    BY <1>5, <2>1
<1>7. ASSUME Undisturbed'
      PROVE  SharesSent'
  <2>1. /\ elapsed <= a.horizon
        /\ elapsed = a.horizon => loop.at \in BeforeSlice
    <3>1. ~Missed(a, elapsed)
      BY <1>4, <1>7, Zenon DEF Undisturbed
    <3>2. elapsed \in Nat /\ a.horizon \in Nat
      BY <1>1, <1>3
    <3> QED
      BY <3>1, <3>2 DEF Missed, BeforeSlice
  <2>2. elapsed # 0 => elapsed - 1 \in Nat
    BY <1>1
  <2>3. elapsed # 0 => parent'.sent <= (parent'.elapsed - 1) * Share'
    BY <1>4, <1>6, <2>2
  <2>4. parent'.sent <= parent'.elapsed * Share'
    BY <1>1, <1>4, <1>6
  <2>5. loop'.at \notin BeforeSlice => parent'.elapsed < parent'.horizon
    BY <1>1, <1>2, <1>3, <1>4, <2>1
  <2>6. parent'.elapsed \in Nat /\ parent'.elapsed <= parent'.horizon
    BY <1>1, <1>4, <2>1
  <2> QED
    BY <1>3, <1>4, <2>3, <2>4, <2>5, <2>6 DEF SharesSent
<1> QED
  BY <1>2, <1>7 DEF ParentInv, SliceIsShare

LEMMA RestartKeepsParent ==
  ASSUME ParentInv, Restart
  PROVE  ParentInv'
<1>1. loop'.at = "tick"
  BY DEF Restart, Phase, Session
<1>2. ASSUME Undisturbed'
      PROVE  SharesSent'
  <2>1. parent' = parent /\ parent.status # "active"
    BY <1>2 DEF Restart, Undisturbed, ParentWith, Parent
  <2> QED
    BY <1>2, <2>1 DEF ParentInv, Undisturbed, SharesSent
<1> QED
  BY <1>1, <1>2 DEF ParentInv, SliceIsShare

LEMMA ParentNext == StartsOK /\ ParentInv /\ [Next]_vars => ParentInv'
<1> SUFFICES ASSUME StartsOK, ParentInv, [Next]_vars
             PROVE  ParentInv'
  OBVIOUS
<1>1. CASE UNCHANGED vars
  BY <1>1, ParentStays DEF vars
<1>2. CASE Signal \/ NoSignal \/ CommitSignal
  BY <1>2, ParentStays DEF Signal, NoSignal, CommitSignal, CommitLoop, Phase, Session, BeforeSlice
<1>3. CASE ReadBrackets \/ CloseBrackets \/ ReadPositions
  <2>1. /\ parent' = parent /\ loop.at \in {"brackets", "closing", "breaker"}
        /\ loop'.at \notin BeforeSlice
    <3>1. CASE ReadBrackets
      BY <3>1 DEF ReadBrackets, Phase, Session, BeforeSlice
    <3>2. CASE CloseBrackets
      BY <3>2 DEF CloseBrackets, Phase, Session, BeforeSlice
    <3>3. CASE ReadPositions
      BY <3>3 DEF ReadPositions, Phase, Session, BeforeSlice
    <3> QED
      BY <1>3, <3>1, <3>2, <3>3
  <2>2. loop.at \notin BeforeSlice /\ loop'.at # "slice"
    BY <2>1 DEF BeforeSlice
  <2> QED
    BY <2>1, <2>2, ParentStays
<1>4. CASE Liquidate
  <2>1. PICK fills : LiquidateWith(fills)
    BY <1>4 DEF Liquidate
  <2> QED
    BY <2>1, ParentStays DEF LiquidateWith, Phase, Session, BeforeSlice
<1>5. CASE LoopStep
  BY <1>2, <1>3, <1>4, <1>5, TickKeepsParent, SliceKeepsParent, NoSliceKeepsParent,
     CommitSliceKeepsParent DEF LoopStep
<1>6. ASSUME NEW t \in Threads,
             \/ CheckOrder(t) \/ FillOrder(t) \/ CommitFills(t) \/ ReadLegs(t) \/ CloseLegs(t)
             \/ DeleteBracket(t) \/ (\E b \in BracketIds : ReadBracket(t, b)) \/ ReadBar(t)
      PROVE  ParentInv'
  BY <1>6, ParentStays
     DEF CheckOrder, FillOrder, CommitFills, ReadLegs, CloseLegs, DeleteBracket, ReadBracket, ReadBar
<1>7. CASE ResetHalt \/ (\E s \in Subs : CreateSub(s)) \/ \E id \in BracketIds : CancelOrder(id)
  BY <1>7, ParentStays DEF ResetHalt, CreateSub, CancelOrder
<1> QED
  BY <1>1, <1>5, <1>6, <1>7, CommitAlgoKeepsParent, RestartKeepsParent DEF Next

LEMMA StartsNext == IInv /\ StartsOK /\ [Next]_vars => StartsOK'
<1> SUFFICES ASSUME IInv, StartsOK, [Next]_vars, NEW t \in Threads, route'[t].op = "starting"
             PROVE  route'[t].request \in AlgoRequests /\ route'[t].elapsed \in Nat
  BY DEF StartsOK
<1>1. CASE Tick
  <2>1. route[t].op = "starting" /\ route'[t] = Later(route[t])
    BY <1>1 DEF Tick, Later, Starting
  <2>2. route[t].request \in AlgoRequests /\ route[t].elapsed \in Nat
    BY <2>1 DEF StartsOK
  <2> QED
    BY <2>1, <2>2 DEF Later, Starting
<1>2. ASSUME NEW u \in Threads, ReadBar(u)
      PROVE  route'[t].request \in AlgoRequests /\ route'[t].elapsed \in Nat
  <2>1. PICK a \in AlgoRequests : route' = [route EXCEPT ![u] = Starting(a, 0)]
    BY <1>2 DEF ReadBar
  <2>2. route'[t] = IF t = u THEN Starting(a, 0) ELSE route[t]
    BY <2>1 DEF IInv, RouteIsFunction
  <2> QED
    BY <2>2 DEF Starting, StartsOK
<1>3. CASE route'[t] = route[t]
  BY <1>3 DEF StartsOK
<1>4. ASSUME NEW u \in Threads, FillOrder(u) \/ CloseLegs(u)
      PROVE  route'[t] = route[t]
  <2>1. \E id, order, estimate, raced, late, fills :
          Answered(u, id, order, estimate, raced, late, fills)
    BY <1>4 DEF FillOrder, CloseLegs
  <2> QED
    BY <2>1 DEF Answered, IInv, RouteIsFunction, Idle, Committing
<1>5. ASSUME NEW u \in Threads, CommitFills(u)
      PROVE  route'[t] = route[t]
  <2>1. \/ route'[t] = Idle \/ route'[t] = route[t]
        \/ OnItsWay(t) /\ route'[t] = Raced(route[t])
    BY <1>5 DEF CommitFills
  <2> QED
    BY <2>1 DEF Idle, OnItsWay, Raced, Ordering, Committing
<1>6. ASSUME NEW u \in Threads,
             \/ CheckOrder(u) \/ ReadLegs(u) \/ DeleteBracket(u)
             \/ (\E b \in BracketIds : ReadBracket(u, b)) \/ CommitAlgo(u)
      PROVE  route'[t] = route[t]
  <2>1. ASSUME NEW r, route' = [route EXCEPT ![u] = r], r.op # "starting"
        PROVE  route'[t] = route[t]
    BY <2>1 DEF IInv, RouteIsFunction
  <2>2. ASSUME CheckOrder(u)
        PROVE  route'[t] = route[t]
    <3>1. PICK order \in OrderRequests :
            route' = [route EXCEPT ![u] =
                        Ordering(events + 1, order, Estimate(order), FALSE, halted)]
      BY <2>2 DEF CheckOrder
    <3>2. Ordering(events + 1, order, Estimate(order), FALSE, halted).op = "ordering"
      BY DEF Ordering
    <3> QED
      BY <2>1, <3>1, <3>2
  <2>3. ASSUME ReadLegs(u)
        PROVE  route'[t] = route[t]
    BY <2>1, <2>3 DEF ReadLegs
  <2>4. ASSUME \E b \in BracketIds : ReadBracket(u, b)
        PROVE  route'[t] = route[t]
    BY <2>1, <2>4 DEF ReadBracket
  <2>5. ASSUME DeleteBracket(u) \/ CommitAlgo(u)
        PROVE  route'[t] = route[t]
    <3>1. route' = [route EXCEPT ![u] = Idle] /\ Idle.op = "idle"
      BY <2>5 DEF DeleteBracket, CommitAlgo, Idle
    <3> QED
      BY <2>1, <3>1
  <2> QED
    BY <1>6, <2>2, <2>3, <2>4, <2>5
<1>7. CASE Restart
  BY <1>7 DEF Restart, Idle
<1>8. CASE \/ UNCHANGED vars \/ ResetHalt \/ (\E s \in Subs : CreateSub(s))
           \/ (\E id \in BracketIds : CancelOrder(id))
           \/ (LoopStep /\ ~Tick)
  <2>1. route' = route
    BY <1>8 DEF vars, ResetHalt, CreateSub, CancelOrder, LoopStep, Signal, NoSignal, CommitSignal,
                Slice, NoSlice, CommitSlice, ReadBrackets, CloseBrackets, ReadPositions,
                Liquidate, LiquidateWith
  <2> QED
    BY <1>3, <2>1
<1> QED
  BY <1>1, <1>2, <1>3, <1>4, <1>5, <1>6, <1>7, <1>8 DEF Next

\* A TWAP order that ran to its end has sent its total (slicer.py, "guarantees
\* sum(slices) == total_qty exactly"), for any total and any horizon, whatever bars
\* a halt skipped before the last, and however late its row was committed, as long as
\* its last bar came after.
THEOREM SlicesSumToTotal == Spec => []TotalSent
<1>1. ParentInv => TotalSent
  BY SentWithinTotal DEF ParentInv, Undisturbed, SharesSent, TotalSent
<1>2. Init => StartsOK
  BY DEF Init, StartsOK, Idle
<1> QED
  BY <1>1, <1>2, StartsNext, ParentInit, ParentNext, InvInit, InvNext, PTL DEF Spec

-------------------------------------------------------------------------------
(* What brackets watch, in a table of brackets *)

BothSides == {"buy", "sell"}
TableOK(tb) == \A b \in BracketIds : tb[b].side \in BothSides /\ tb[b].qty \in Nat

ActiveIn(tb, side) == {b \in BracketIds : tb[b].status = "active" /\ tb[b].side = side}

\* The brackets of a side that may still trade: the active ones, and those the
\* loop is about to close.
ExposedIn(tb, closes, side) == ActiveIn(tb, side) \cup {b \in closes : tb[b].side = side}
Quantities(tb) == [b \in BracketIds |-> tb[b].qty]
Exposure(tb, closes, side) == Total(Quantities(tb), ExposedIn(tb, closes, side))

Held(side, pos) == IF side = "buy" THEN pos ELSE -pos
Within(e, n) == e <= 0 \/ e <= n

\* The exposed brackets of each side are no larger than the position.
Guarded(tb, closes, pos) ==
  \A side \in BothSides : Within(Exposure(tb, closes, side), Held(side, pos))

LEMMA ExposedFinite ==
  ASSUME NEW tb, TableOK(tb), NEW closes \in SUBSET BracketIds, NEW side
  PROVE  /\ IsFiniteSet(ExposedIn(tb, closes, side))
         /\ \A b \in ExposedIn(tb, closes, side) : Quantities(tb)[b] \in Nat
         /\ Exposure(tb, closes, side) \in Nat
<1>1. IsFiniteSet(BracketIds)
  BY ConstantsTyped, FS_Interval DEF BracketIds
<1>2. ExposedIn(tb, closes, side) \subseteq BracketIds
  BY DEF ExposedIn, ActiveIn
<1>3. IsFiniteSet(ExposedIn(tb, closes, side))
  BY <1>1, <1>2, FS_Subset
<1>4. \A b \in ExposedIn(tb, closes, side) : Quantities(tb)[b] \in Nat
  BY <1>2 DEF TableOK, Quantities
<1>5. Exposure(tb, closes, side) \in Nat
  BY <1>3, <1>4, TotalNat DEF Exposure
<1>6. QED
  BY <1>3, <1>4, <1>5

\* Fewer brackets, of the same quantities, watch no more.
LEMMA ExposureShrinks ==
  ASSUME NEW tb, NEW tc, TableOK(tb), TableOK(tc),
         NEW bs \in SUBSET BracketIds, NEW cs \in SUBSET BracketIds, NEW side,
         \A b \in ExposedIn(tc, cs, side) :
           b \in ExposedIn(tb, bs, side) /\ tc[b].qty = tb[b].qty
  PROVE  Exposure(tc, cs, side) <= Exposure(tb, bs, side)
<1> DEFINE E == ExposedIn(tb, bs, side)
           F == ExposedIn(tc, cs, side)
           f == Quantities(tb)
           g == Quantities(tc)
<1>1. IsFiniteSet(E) /\ IsFiniteSet(F) /\ \A b \in E : f[b] \in Nat
  BY ExposedFinite
<1>2. F \in SUBSET E
  OBVIOUS
<1>3. \A b \in F : g[b] = f[b]
  BY DEF Quantities, ExposedIn, ActiveIn
<1>4. Exposure(tc, cs, side) = Total(g, F) /\ Exposure(tb, bs, side) = Total(f, E)
  BY DEF Exposure
<1> HIDE DEF E, F, f, g
<1>5. Total(g, F) = Total(f, F)
  BY <1>1, <1>3, TotalSame
<1>6. Total(f, F) <= Total(f, E)
  BY <1>1, <1>2, TotalSubset
<1>7. QED
  BY <1>4, <1>5, <1>6

\* A table with fewer brackets, at the same position.
LEMMA StillGuarded ==
  ASSUME NEW tb, NEW tc, TableOK(tb), TableOK(tc),
         NEW bs \in SUBSET BracketIds, NEW cs \in SUBSET BracketIds,
         \A side \in BothSides : \A b \in ExposedIn(tc, cs, side) :
           b \in ExposedIn(tb, bs, side) /\ tc[b].qty = tb[b].qty,
         NEW pos \in Int, Guarded(tb, bs, pos)
  PROVE  Guarded(tc, cs, pos)
<1> SUFFICES ASSUME NEW side \in BothSides
             PROVE  Within(Exposure(tc, cs, side), Held(side, pos))
  BY DEF Guarded
<1>1. Exposure(tc, cs, side) <= Exposure(tb, bs, side)
  BY ExposureShrinks
<1>2. Exposure(tc, cs, side) \in Nat /\ Exposure(tb, bs, side) \in Nat
  BY ExposedFinite
<1>3. Within(Exposure(tb, bs, side), Held(side, pos)) /\ Held(side, pos) \in Int
  BY DEF Guarded, Held
<1>4. QED
  BY <1>1, <1>2, <1>3 DEF Within

\* A fill that cancels the brackets of the side it closes.
LEMMA FillKeepsGuarded ==
  ASSUME NEW tb, NEW tc, TableOK(tb), TableOK(tc),
         \A side \in BothSides : \A b \in ActiveIn(tc, side) :
           b \in ActiveIn(tb, side) /\ tc[b].qty = tb[b].qty,
         NEW pos \in Int, NEW signed \in Int, Guarded(tb, {}, pos),
         signed > 0 => ActiveIn(tc, "sell") = {},
         signed < 0 => ActiveIn(tc, "buy") = {}
  PROVE  Guarded(tc, {}, pos + signed)
<1>1. \A side : ExposedIn(tb, {}, side) = ActiveIn(tb, side)
             /\ ExposedIn(tc, {}, side) = ActiveIn(tc, side)
  BY DEF ExposedIn
<1>2. Guarded(tc, {}, pos)
  BY <1>1, StillGuarded
<1>3. SUFFICES ASSUME NEW side \in BothSides
               PROVE  Within(Exposure(tc, {}, side), Held(side, pos + signed))
  BY DEF Guarded
<1>4. Within(Exposure(tc, {}, side), Held(side, pos)) /\ Exposure(tc, {}, side) \in Nat
  BY <1>2, ExposedFinite DEF Guarded
<1>5. CASE ActiveIn(tc, side) = {}
  BY <1>1, <1>5, TotalEmpty DEF Exposure, Within
<1>6. CASE ActiveIn(tc, side) # {}
  <2>1. Held(side, pos) <= Held(side, pos + signed)
    BY <1>6 DEF Held, BothSides
  <2>2. Held(side, pos) \in Int /\ Held(side, pos + signed) \in Int
    BY DEF Held
  <2>3. QED
    BY <1>4, <2>1, <2>2 DEF Within
<1>7. QED
  BY <1>5, <1>6

\* A bracketed fill that does not trade against the position.
LEMMA EntryKeepsGuarded ==
  ASSUME NEW tb, NEW tc, TableOK(tb), TableOK(tc), NEW id \in BracketIds,
         tb[id].status = "none", tc[id].status = "active",
         \A side \in BothSides : \A b \in ActiveIn(tc, side) : b # id =>
           b \in ActiveIn(tb, side) /\ tc[b].qty = tb[b].qty,
         NEW pos \in Int, Guarded(tb, {}, pos), Held(tc[id].side, pos) >= 0,
         ActiveIn(tc, IF tc[id].side = "buy" THEN "sell" ELSE "buy") = {}
  PROVE  Guarded(tc, {}, pos + Signed(tc[id].side, tc[id].qty))
<1> DEFINE own == tc[id].side
           q == tc[id].qty
<1>1. own \in BothSides /\ q \in Nat
  BY DEF TableOK
<1>2. SUFFICES ASSUME NEW side \in BothSides
               PROVE  Within(Exposure(tc, {}, side), Held(side, pos + Signed(own, q)))
  BY DEF Guarded
<1>3. CASE side # own
  <2>1. ExposedIn(tc, {}, side) = {}
    BY <1>1, <1>3 DEF BothSides, ExposedIn
  <2>2. QED
    BY <2>1, TotalEmpty DEF Exposure, Within
<1>4. CASE side = own
  <2> DEFINE E == ExposedIn(tc, {}, own)
             F == E \ {id}
             f == Quantities(tb)
             g == Quantities(tc)
  <2>1. id \in E /\ E = F \cup {id} /\ id \notin F /\ g[id] = q
    BY DEF ExposedIn, ActiveIn, Quantities
  <2>2. IsFiniteSet(E) /\ \A b \in E : g[b] \in Nat
    BY ExposedFinite
  <2>3. /\ IsFiniteSet(ExposedIn(tb, {}, own)) /\ Exposure(tb, {}, own) \in Nat
        /\ \A b \in ExposedIn(tb, {}, own) : f[b] \in Nat
    BY ExposedFinite
  <2>4. F \in SUBSET ExposedIn(tb, {}, own) /\ \A b \in F : g[b] = f[b]
    BY <1>1 DEF ExposedIn, Quantities, ActiveIn
  <2>5. /\ Exposure(tc, {}, own) = Total(g, E)
        /\ Exposure(tb, {}, own) = Total(f, ExposedIn(tb, {}, own))
    BY DEF Exposure
  <2> HIDE DEF E, F, f, g
  <2>6. IsFiniteSet(F)
    BY <2>1, <2>2, FS_Subset
  <2>7. Total(g, E) = q + Total(g, F)
    <3>1. \A b \in F \cup {id} : g[b] \in Int
      BY <2>1, <2>2
    <3>2. QED
      BY <2>1, <2>6, <3>1, TotalAdd
  <2>8. Total(g, F) = Total(f, F)
    BY <2>4, <2>6, TotalSame
  <2>9. Total(f, F) <= Exposure(tb, {}, own)
    BY <2>3, <2>4, <2>5, TotalSubset
  <2>10. Total(f, F) \in Nat
    BY <2>3, <2>4, <2>6, TotalNat
  <2>11. Within(Exposure(tb, {}, own), Held(own, pos)) /\ Held(own, pos) \in Int
    BY <1>1 DEF Guarded, Held
  <2>12. Held(own, pos + Signed(own, q)) = Held(own, pos) + q
    BY <1>1 DEF Held, Signed, BothSides
  <2>13. Total(f, F) <= Held(own, pos)
    BY <2>3, <2>9, <2>10, <2>11 DEF Within
  <2>14. Exposure(tc, {}, own) <= Held(own, pos + Signed(own, q))
    BY <1>1, <2>5, <2>7, <2>8, <2>10, <2>11, <2>12, <2>13
  <2>15. QED
    BY <1>4, <2>14 DEF Within
<1>5. QED
  BY <1>3, <1>4

\* The orders that close brackets take back no more than these brackets watched.
LEMMA ClosingKeepsGuarded ==
  ASSUME NEW tb, NEW tc, TableOK(tb), TableOK(tc), NEW closes \in SUBSET BracketIds,
         \A side \in BothSides : \A b \in ActiveIn(tc, side) :
           b \in ActiveIn(tb, side) /\ b \notin closes /\ tc[b].qty = tb[b].qty,
         NEW pos \in Int, Guarded(tb, closes, pos),
         NEW signed,
         \A b \in closes : /\ signed[b] \in Int
                           /\ -Held(tb[b].side, signed[b]) \in 0..tb[b].qty
  PROVE  /\ Guarded(tc, {}, pos + Total(signed, closes))
         /\ Total(signed, closes) \in Int
         /\ Magnitude(pos + Total(signed, closes)) <= Magnitude(pos)
<1> DEFINE own == IF pos >= 0 THEN "buy" ELSE "sell"
           net == Total(signed, closes)
           f == Quantities(tb)
           mine == {b \in closes : tb[b].side = own}
           kept == ActiveIn(tc, own)
           lost == [b \in closes |-> -Held(own, signed[b])]
           E == ExposedIn(tb, closes, own)
<1>1. own \in BothSides /\ Held(own, pos) >= 0 /\ Held(own, pos) \in Int
  BY DEF BothSides, Held
<1>2. /\ IsFiniteSet(E) /\ \A b \in E : f[b] \in Nat
      /\ Total(f, E) \in Nat
      /\ Total(f, E) <= Held(own, pos)
  <2>1. Within(Exposure(tb, closes, own), Held(own, pos))
    BY <1>1 DEF Guarded
  <2>2. Exposure(tb, closes, own) = Total(f, E)
    BY DEF Exposure
  <2>3. IsFiniteSet(E) /\ (\A b \in E : f[b] \in Nat) /\ Exposure(tb, closes, own) \in Nat
    BY ExposedFinite
  <2> HIDE DEF E, f, own
  <2>4. QED
    BY <1>1, <2>1, <2>2, <2>3 DEF Within
<1>3. ASSUME NEW side \in BothSides, side # own
      PROVE  \A b \in ExposedIn(tb, closes, side) : f[b] = 0
  <2> DEFINE F == ExposedIn(tb, closes, side)
  <2>1. Within(Exposure(tb, closes, side), Held(side, pos)) /\ Held(side, pos) <= 0
        /\ Held(side, pos) \in Int
    BY <1>3 DEF Guarded, Held, BothSides
  <2>2. Exposure(tb, closes, side) = Total(f, F)
    BY DEF Exposure
  <2>3. IsFiniteSet(F) /\ \A b \in F : f[b] \in Nat
    BY ExposedFinite
  <2> HIDE DEF F, f
  <2>4. Total(f, F) \in Nat /\ \A b \in F : f[b] <= Total(f, F)
    BY <2>3, TotalNat
  <2>5. Total(f, F) <= 0
    BY <2>1, <2>2, <2>4 DEF Within
  <2>6. \A b \in F : f[b] = 0
    BY <2>3, <2>4, <2>5
  <2>7. QED
    BY <2>6 DEF F
<1>4. IsFiniteSet(closes) /\ IsFiniteSet(mine) /\ mine \subseteq closes
  <2>1. IsFiniteSet(BracketIds)
    BY ConstantsTyped, FS_Interval DEF BracketIds
  <2>2. IsFiniteSet(closes)
    BY <2>1, FS_Subset
  <2>3. QED
    BY <2>2, FS_Subset
<1>5. ASSUME NEW b \in closes
      PROVE  /\ f[b] \in Int /\ lost[b] \in Int /\ 0 <= lost[b] /\ lost[b] <= f[b]
             /\ b \notin mine => f[b] = 0
  <2>1. b \in BracketIds /\ tb[b].side \in BothSides /\ tb[b].qty \in Nat /\ f[b] = tb[b].qty
    BY DEF TableOK, Quantities
  <2>2. CASE tb[b].side = own
    BY <2>1, <2>2 DEF Held
  <2>3. CASE tb[b].side # own
    <3>1. f[b] = 0
      BY <1>3, <2>1, <2>3 DEF ExposedIn
    <3>2. signed[b] \in Int /\ -Held(tb[b].side, signed[b]) \in 0..tb[b].qty
      OBVIOUS
    <3>3. signed[b] = 0
      <4> HIDE DEF f, lost, mine, own, E
      <4>1. QED
        BY <2>1, <3>1, <3>2 DEF Held
    <3>4. lost[b] = 0
      BY <3>3 DEF Held
    <3>5. QED
      BY <3>1, <3>4
  <2>4. QED
    BY <2>2, <2>3
<1>6. Held(own, net) = -Total(lost, closes) /\ net \in Int
  <2>1. \A b \in closes : signed[b] \in Int
    OBVIOUS
  <2>2. net \in Int
    BY <1>4, <2>1, TotalType
  <2>3. CASE own = "buy"
    <3>1. \A b \in closes : lost[b] = -signed[b]
      BY <2>3 DEF Held
    <3> HIDE DEF lost, own
    <3>2. Total(lost, closes) = -net
      BY <1>4, <2>1, <3>1, TotalNegated
    <3>3. QED
      BY <2>2, <2>3, <3>2 DEF Held
  <2>4. CASE own # "buy"
    <3>1. \A b \in closes : lost[b] = signed[b]
      BY <2>1, <2>4 DEF Held
    <3>2. own = "sell"
      BY <2>4
    <3> HIDE DEF lost, own
    <3>3. Total(lost, closes) = net
      BY <1>4, <3>1, TotalSame
    <3>4. QED
      BY <2>2, <3>2, <3>3 DEF Held
  <2>5. QED
    BY <2>3, <2>4
<1>7. /\ kept \subseteq E /\ mine \subseteq E /\ kept \cap mine = {}
      /\ \A b \in kept : Quantities(tc)[b] = f[b]
  BY <1>1 DEF ExposedIn, ActiveIn, Quantities
<1>8. ExposedIn(tc, {}, own) = kept /\ Exposure(tc, {}, own) = Total(Quantities(tc), kept)
  BY DEF ExposedIn, Exposure
<1>9. \A side \in BothSides : side # own => Exposure(tc, {}, side) = 0
  <2> TAKE side \in BothSides
  <2>1. HAVE side # own
  <2>2. \A b \in ExposedIn(tc, {}, side) :
          b \in ExposedIn(tb, closes, side) /\ Quantities(tc)[b] = f[b]
    BY DEF ExposedIn, ActiveIn, Quantities
  <2>3. IsFiniteSet(ExposedIn(tc, {}, side))
    BY ExposedFinite
  <2>4. \A b \in ExposedIn(tc, {}, side) : Quantities(tc)[b] = 0
    BY <1>3, <2>1, <2>2
  <2>5. QED
    BY <2>3, <2>4, TotalZero DEF Exposure
<1> HIDE DEF f, lost, E, mine, kept, own, net
<1>10. Total(lost, closes) \in Nat /\ Total(lost, closes) <= Total(f, mine)
  <2>1. Total(lost, closes) <= Total(f, closes)
    BY <1>4, <1>5, TotalAtMost
  <2>2. Total(f, closes) = Total(f, mine)
    BY <1>4, <1>5, TotalDropsZeros
  <2>3. \A b \in closes : lost[b] \in Nat
    BY <1>5
  <2>4. Total(lost, closes) \in Nat
    BY <1>4, <2>3, TotalNat
  <2>5. QED
    BY <2>1, <2>2, <2>4
<1>11. IsFiniteSet(kept) /\ IsFiniteSet(kept \cup mine) /\ kept \cup mine \in SUBSET E
  BY <1>2, <1>7, FS_Subset
<1>12. Total(f, kept \cup mine) <= Total(f, E)
  BY <1>2, <1>11, TotalSubset
<1>13. /\ Total(f, kept \cup mine) = Total(f, kept) + Total(f, mine)
       /\ Total(f, kept) \in Nat /\ Total(f, mine) \in Nat
  <2>1. /\ \A b \in kept \cup mine : f[b] \in Int
        /\ \A b \in kept : f[b] \in Nat
        /\ \A b \in mine : f[b] \in Nat
    BY <1>2, <1>7
  <2>2. QED
    BY <1>4, <1>7, <1>11, <2>1, TotalUnion, TotalNat
<1>14. Exposure(tc, {}, own) = Total(f, kept)
  BY <1>7, <1>8, <1>11, TotalSame
<1>15. Held(own, pos + net) = Held(own, pos) + Held(own, net) /\ Held(own, net) \in Int
  BY <1>1, <1>6 DEF Held, BothSides
<1>16. /\ Total(f, kept) <= Held(own, pos + net)
       /\ 0 <= Held(own, pos + net) /\ Held(own, pos + net) <= Held(own, pos)
  BY <1>1, <1>2, <1>6, <1>10, <1>12, <1>13, <1>15
<1>17. Guarded(tc, {}, pos + net)
  BY <1>9, <1>14, <1>16 DEF Guarded, Within
<1>18. Magnitude(pos + net) <= Magnitude(pos)
  BY <1>1, <1>6, <1>16 DEF Magnitude, Held, BothSides
<1>19. QED
  BY <1>6, <1>17, <1>18 DEF net

-------------------------------------------------------------------------------
(* The rows the arithmetic relies on *)

Row == [pos : Int, cash : Int]
AccountOK == price \in Nat /\ account \in [Scopes -> Row]
DropsOK ==
  /\ rests \in [BracketIds -> Row]
  /\ dropped.pos \in Int /\ dropped.sales \in Nat /\ dropped.seen \in Int
  /\ dropped.seen <= dropped.sales
SessionOK ==
  /\ loop.fills \in [Scopes -> Int]
  /\ loop.at # "closing" => loop.closes = {}

\* A route's order is one of those that may be asked for, and its fills are of its side.
OrdersOK ==
  \A t \in Threads :
    /\ route[t].op = "ordering" => route[t].order \in OrderRequests /\ route[t].estimate \in Int
    /\ route[t].op = "committing" =>
         /\ route[t].estimate \in Int
         /\ route[t].fills \in [Scopes -> Int] /\ route[t].px \in Nat
         /\ \/ route[t].order = NoOrder /\ route[t].raced
            \/ /\ route[t].order \in OrderRequests
               /\ Held(route[t].order.side, route[t].fills[Primary]) >= 0
TableTyped == \A b \in BracketIds : brackets[b].side \in BothSides /\ brackets[b].qty \in Nat
DeskTyped == AccountOK /\ DropsOK /\ SessionOK /\ OrdersOK /\ TableTyped

LEMMA BetweenIsInt == ASSUME NEW n, NEW f \in Between(n) PROVE f \in Int
  BY DEF Between

LEMMA FillableIsInt ==
  ASSUME NEW want, NEW f \in Fillable(want)
  PROVE  /\ f \in [Scopes -> Int]
         /\ \A s \in Scopes : f[s] \in Between(want[s])
  BY BetweenIsInt DEF Fillable

LEMMA BookedRows ==
  ASSUME AccountOK, NEW fills \in [Scopes -> Int], NEW px \in Nat
  PROVE  /\ Booked(fills, px) \in [Scopes -> Row]
         /\ \A s \in Scopes :
              /\ Booked(fills, px)[s].pos = account[s].pos + fills[s]
              /\ Booked(fills, px)[s].cash = account[s].cash - fills[s] * px
<1>1. \A s \in Scopes : fills[s] * px \in Int
  OBVIOUS
<1>2. \A s \in Scopes : /\ account[s].pos + fills[s] \in Int
                        /\ account[s].cash - fills[s] * px \in Int
  BY <1>1 DEF AccountOK, Row
<1>3. QED
  BY <1>2 DEF Booked, Row

LEMMA PriceIsNat == ASSUME DeskTyped PROVE price \in Nat
  BY DEF DeskTyped, AccountOK

LEMMA PrimaryOnly ==
  ASSUME NEW n \in Int
  PROVE  /\ OnPrimary(n) \in [Scopes -> Int] /\ OnPrimary(n)[Primary] = n
         /\ \A s \in Scopes \ {Primary} : OnPrimary(n)[s] = 0
  BY DEF OnPrimary, Nothing, Scopes

\* The orders of CloseBrackets: within what the brackets watch.
ClosingOrders(filled) ==
  [b \in loop.closes |-> Signed(Opposite(brackets[b].side), filled[b])]

LEMMA ClosingFills ==
  ASSUME DeskTyped, IInv, CloseBrackets
  PROVE  \E signed :
           /\ \A b \in loop.closes : /\ signed[b] \in Int
                                     /\ -Held(brackets[b].side, signed[b]) \in 0..brackets[b].qty
           /\ account' = Booked(OnPrimary(Total(signed, loop.closes)), price)
           /\ history' = Unheld(\E b \in loop.closes : signed[b] > 0)
<1>1. loop.closes \subseteq BracketIds
  BY DEF IInv, LoopSound
<1>2. PICK filled \in [loop.closes -> 0..Max({brackets[b].qty : b \in loop.closes})] :
        /\ \A b \in loop.closes : filled[b] <= brackets[b].qty
        /\ account' = Booked(OnPrimary(Total(ClosingOrders(filled), loop.closes)), price)
        /\ history' = Unheld(\E b \in loop.closes : ClosingOrders(filled)[b] > 0)
  BY DEF CloseBrackets, ClosingOrders, Total
<1>3. ASSUME NEW b \in loop.closes
      PROVE  /\ ClosingOrders(filled)[b] \in Int
             /\ -Held(brackets[b].side, ClosingOrders(filled)[b]) \in 0..brackets[b].qty
  <2>1. /\ filled[b] \in Nat /\ filled[b] <= brackets[b].qty
        /\ brackets[b].qty \in Nat /\ brackets[b].side \in BothSides
    <3>1. filled[b] \in 0..Max({brackets[c].qty : c \in loop.closes})
      OBVIOUS
    <3>2. \A x : \A m : x \in 0..m => x \in Nat
      OBVIOUS
    <3>3. filled[b] \in Nat
      BY <3>1, <3>2
    <3>4. QED
      BY <1>1, <1>2, <3>3 DEF DeskTyped, TableTyped
  <2>2. ClosingOrders(filled)[b] = Signed(Opposite(brackets[b].side), filled[b])
    BY DEF ClosingOrders
  <2>3. QED
    BY <2>1, <2>2 DEF Held, Signed, Opposite, BothSides
<1>4. QED
  BY <1>2, <1>3

LEMMA ClosingNet ==
  ASSUME IInv, NEW signed, \A b \in loop.closes : signed[b] \in Int
  PROVE  Total(signed, loop.closes) \in Int /\ IsFiniteSet(loop.closes)
<1>1. IsFiniteSet(BracketIds)
  BY ConstantsTyped, FS_Interval DEF BracketIds
<1>2. loop.closes \subseteq BracketIds
  BY DEF IInv, LoopSound
<1>3. IsFiniteSet(loop.closes)
  BY <1>1, <1>2, FS_Subset
<1>4. QED
  BY <1>3, TotalType

\* What a route commits.
LEMMA CommittedFills ==
  ASSUME DeskTyped, NEW t \in Threads, CommitFills(t)
  PROVE  /\ route[t].op = "committing" /\ route[t].estimate \in Int
         /\ route[t].fills \in [Scopes -> Int] /\ route[t].fills[Primary] \in Int
         /\ Magnitude(route[t].fills[Primary]) \in Nat
         /\ route[t].px \in Nat
         /\ route[t].order.side \in BothSides
         /\ \/ route[t].order = NoOrder /\ route[t].raced
            \/ /\ route[t].order \in OrderRequests
               /\ Held(route[t].order.side, route[t].fills[Primary]) >= 0
<1>1. route[t].op = "committing"
  BY DEF CommitFills
<1>2. /\ route[t].estimate \in Int /\ route[t].fills \in [Scopes -> Int] /\ route[t].px \in Nat
      /\ \/ route[t].order = NoOrder /\ route[t].raced
         \/ /\ route[t].order \in OrderRequests
            /\ Held(route[t].order.side, route[t].fills[Primary]) >= 0
  BY <1>1 DEF DeskTyped, OrdersOK
<1>3. route[t].fills[Primary] \in Int /\ Magnitude(route[t].fills[Primary]) \in Nat
  BY <1>2 DEF Scopes, Magnitude
<1>4. route[t].order.side \in BothSides
  BY <1>2, DeskAssumption DEF BothSides, NoOrder
<1> QED
  BY <1>1, <1>2, <1>3, <1>4

\* The table after a fill: brackets cancelled, and perhaps a new one.
Recorded(tc, ids, id, order, filled) ==
  /\ TableOK(tc)
  /\ \A b \in BracketIds :
       \/ /\ tc[b] = IF b \in ids THEN Becomes(b, "cancelled", brackets[b].closings)
                     ELSE brackets[b]
          /\ tc[b].side = brackets[b].side /\ tc[b].qty = brackets[b].qty
       \/ /\ b = id /\ filled # 0 /\ Bracketed(order)
          /\ tc[b] = NewBracket(order, filled)
          /\ tc[b].side = order.side /\ tc[b].qty = filled
          /\ tc[b].status = "active"

LEMMA WithBracketTable ==
  ASSUME TableTyped, NEW ids, NEW id, NEW order, order.side \in BothSides, NEW filled \in Nat
  PROVE  Recorded(WithBracket(id, order, filled, Cancelled(ids)), ids, id, order, filled)
<1> DEFINE tc == WithBracket(id, order, filled, Cancelled(ids))
<1>2. ASSUME NEW b \in BracketIds
      PROVE  \/ /\ tc[b] = IF b \in ids THEN Becomes(b, "cancelled", brackets[b].closings)
                           ELSE brackets[b]
                /\ tc[b].side = brackets[b].side /\ tc[b].qty = brackets[b].qty
             \/ /\ b = id /\ filled # 0 /\ Bracketed(order)
                /\ tc[b] = NewBracket(order, filled)
                /\ tc[b].side = order.side /\ tc[b].qty = filled
                /\ tc[b].status = "active"
  BY DEF WithBracket, Cancelled, Becomes, NewBracket, Bracket
<1> HIDE DEF tc
<1>3. TableOK(tc)
  BY <1>2 DEF TableOK, TableTyped
<1>4. Recorded(tc, ids, id, order, filled)
  BY <1>2, <1>3 DEF Recorded
<1>5. QED
  BY <1>4 DEF tc

LEMMA CancelledTable ==
  ASSUME TableTyped, NEW ids
  PROVE  /\ TableOK(Cancelled(ids))
         /\ \A b \in BracketIds :
              /\ Cancelled(ids)[b].side = brackets[b].side
              /\ Cancelled(ids)[b].qty = brackets[b].qty
              /\ Cancelled(ids)[b].status
                   = IF b \in ids THEN "cancelled" ELSE brackets[b].status
  BY DEF TableOK, TableTyped, Cancelled, Becomes, Bracket

LEMMA TypedInit == Init => DeskTyped
  BY DeskAssumption
     DEF Init, DeskTyped, AccountOK, DropsOK, SessionOK, OrdersOK, TableTyped, BothSides, Row,
         Phase, Session, Nothing, Idle, NoBracket, Bracket, Effect, Dropped

\* A session of the loop is typed when its fills are.
LEMMA SessionTyped ==
  /\ Nothing \in [Scopes -> Int]
  /\ \A at : Phase(at).fills = Nothing /\ Phase(at).closes = {} /\ Phase(at).at = at
  BY DEF Nothing, Phase, Session

LEMMA LoopKeepsTyped ==
  ASSUME DeskTyped, IInv, LoopStep
  PROVE  DeskTyped'
<1> USE SessionTyped
<1>1. OrdersOK' /\ DropsOK'
  <2>1. \A t \in Threads :
          route'[t].op \in {"ordering", "committing"} => route'[t] = route[t]
    <3>1. CASE Tick
      BY <3>1 DEF Tick, Later, Starting
    <3>2. CASE ~Tick
      BY <3>2 DEF LoopStep, Signal, NoSignal, CommitSignal, Slice, NoSlice, CommitSlice,
                  ReadBrackets, CloseBrackets, ReadPositions, Liquidate, LiquidateWith
    <3> QED
      BY <3>1, <3>2
  <2>2. UNCHANGED <<rests, dropped>>
    BY DEF LoopStep, Tick, Signal, NoSignal, CommitSignal, Slice, NoSlice, CommitSlice,
           ReadBrackets, CloseBrackets, ReadPositions, Liquidate, LiquidateWith, books
  <2>3. OrdersOK'
    BY <2>1 DEF DeskTyped, OrdersOK, Scopes
  <2> QED
    BY <2>2, <2>3 DEF DeskTyped, DropsOK, BracketIds
<1>2. CASE Tick
  BY <1>1, <1>2, DeskAssumption DEF Tick, books, DeskTyped, AccountOK, SessionOK, TableTyped, BracketIds
<1>3. CASE NoSignal \/ NoSlice \/ ReadBrackets
  <2>1. UNCHANGED <<price, account, brackets>> /\ SessionOK'
    BY <1>3 DEF NoSignal, NoSlice, ReadBrackets, books, SessionOK, Session
  <2>2. QED
    BY <1>1, <2>1 DEF DeskTyped, AccountOK, TableTyped, BracketIds
<1>4. CASE Signal \/ Slice
  <2>1. ASSUME NEW want, NEW f \in Fillable(want), NEW at, NEW ids, NEW q, NEW p,
               loop' = Session(at, f, ids, {}, q, p)
        PROVE  SessionOK'
    BY <2>1, FillableIsInt DEF SessionOK, Session, Scopes
  <2>2. SessionOK'
    <3>1. CASE Signal
      <4>1. PICK s \in Signals : \E f \in Fillable(ClonedToAll(s.side, s.qty)) :
              loop' = Session("signal", f, ClosedElsewhere(f[Primary]), {}, 0, s.pair)
        BY <3>1 DEF Signal
      <4> QED
        BY <2>1, <4>1
    <3>2. CASE Slice
      <4>1. PICK q \in SliceQty :
              \E f \in Fillable(ClonedToAll(parent.side, IF q > 0 THEN q ELSE 0)) :
                loop' = Session("slice", f, ClosedElsewhere(f[Primary]), {}, q, FALSE)
        BY <3>2 DEF Slice
      <4> QED
        BY <2>1, <4>1
    <3> QED
      BY <1>4, <3>1, <3>2
  <2>3. UNCHANGED <<price, account, brackets>>
    BY <1>4 DEF Signal, Slice, books
  <2>4. QED
    BY <1>1, <2>2, <2>3 DEF DeskTyped, AccountOK, TableTyped, BracketIds
<1>5. CASE CommitSignal \/ CommitSlice
  <2>1. /\ account' = Booked(loop.fills, price) /\ brackets' = Cancelled(loop.cancels)
        /\ price' = price /\ SessionOK'
    BY <1>5 DEF CommitSignal, CommitSlice, CommitLoop, SessionOK
  <2>2. AccountOK'
    BY <2>1, BookedRows, PriceIsNat DEF DeskTyped, AccountOK, SessionOK
  <2>3. TableTyped'
    BY <2>1, CancelledTable DEF DeskTyped, TableOK, TableTyped, BracketIds
  <2>4. QED
    BY <1>1, <2>1, <2>2, <2>3 DEF DeskTyped
<1>6. CASE CloseBrackets
  <2>1. price' = price /\ SessionOK'
        /\ brackets' = [b \in BracketIds |-> IF b \in loop.closes THEN Fire(b) ELSE brackets[b]]
    BY <1>6 DEF CloseBrackets, SessionOK
  <2>2. PICK signed :
           /\ \A b \in loop.closes : signed[b] \in Int
           /\ account' = Booked(OnPrimary(Total(signed, loop.closes)), price)
    BY <1>6, ClosingFills
  <2>3. OnPrimary(Total(signed, loop.closes)) \in [Scopes -> Int]
    BY <2>2, ClosingNet, PrimaryOnly
  <2>4. AccountOK'
    BY <2>1, <2>2, <2>3, BookedRows, PriceIsNat DEF DeskTyped, AccountOK
  <2>5. TableTyped'
    BY <2>1 DEF DeskTyped, TableTyped, Fire, Becomes, Bracket, BracketIds
  <2>6. QED
    BY <1>1, <2>1, <2>4, <2>5 DEF DeskTyped
<1>7. CASE ReadPositions
  <2>1. UNCHANGED <<price, account, brackets>>
    BY <1>7 DEF ReadPositions, books
  <2>2. \A s \in Scopes : -account[s].pos \in Int
    BY DEF DeskTyped, AccountOK, Row
  <2>3. SessionOK'
    BY <1>7, <2>2 DEF ReadPositions, SessionOK, Session
  <2>4. QED
    BY <1>1, <2>1, <2>3 DEF DeskTyped, AccountOK, TableTyped, BracketIds
<1>8. CASE Liquidate
  <2>1. PICK fills \in Fillable(loop.fills) : LiquidateWith(fills)
    BY <1>8 DEF Liquidate
  <2>2. /\ account' = Booked(fills, price) /\ price' = price /\ SessionOK'
        /\ brackets' = Cancelled(ClosedElsewhere(fills[Primary]))
    BY <2>1 DEF LiquidateWith, SessionOK
  <2>3. AccountOK'
    BY <2>2, FillableIsInt, BookedRows, PriceIsNat DEF DeskTyped, AccountOK
  <2>4. TableTyped'
    BY <2>2, CancelledTable DEF DeskTyped, TableOK, TableTyped, BracketIds
  <2>5. QED
    BY <1>1, <2>2, <2>3, <2>4 DEF DeskTyped
<1>9. QED
  BY <1>2, <1>3, <1>4, <1>5, <1>6, <1>7, <1>8 DEF LoopStep

\* A step of a route other than a commit leaves the accounts alone.
LEMMA AnswerKeepsTyped ==
  ASSUME DeskTyped, IInv, NEW t \in Threads, NEW id, NEW order, NEW estimate \in Int, NEW raced,
         NEW late, NEW fills \in [Scopes -> Int],
         Answered(t, id, order, estimate, raced, late, fills),
         \/ order = NoOrder /\ raced
         \/ order \in OrderRequests /\ Held(order.side, fills[Primary]) >= 0
  PROVE  OrdersOK'
<1> DEFINE answer == IF fills = Nothing THEN Idle
                     ELSE Committing(id, order, estimate, raced, late, fills, price,
                                     ClosedElsewhere(fills[Primary]))
<1>1. \A u \in Threads : route'[u] = IF u = t THEN answer ELSE route[u]
  BY DEF Answered, IInv, RouteIsFunction
<1>2. \/ answer.op = "idle"
      \/ /\ answer.op = "committing" /\ answer.estimate = estimate /\ answer.fills = fills
         /\ answer.px = price /\ answer.order = order /\ answer.raced = raced
  BY DEF Idle, Committing
<1> HIDE DEF answer
<1>3. ASSUME NEW u \in Threads, u # t
      PROVE  /\ route'[u].op = "ordering" =>
                  route'[u].order \in OrderRequests /\ route'[u].estimate \in Int
             /\ route'[u].op = "committing" =>
                  /\ route'[u].estimate \in Int
                  /\ route'[u].fills \in [Scopes -> Int] /\ route'[u].px \in Nat
                  /\ \/ route'[u].order = NoOrder /\ route'[u].raced
                     \/ /\ route'[u].order \in OrderRequests
                        /\ Held(route'[u].order.side, route'[u].fills[Primary]) >= 0
  BY <1>1, <1>3 DEF DeskTyped, OrdersOK
<1>4. /\ route'[t].op # "ordering"
      /\ route'[t].op = "committing" =>
           /\ route'[t].estimate \in Int
           /\ route'[t].fills \in [Scopes -> Int] /\ route'[t].px \in Nat
           /\ \/ route'[t].order = NoOrder /\ route'[t].raced
              \/ /\ route'[t].order \in OrderRequests
                 /\ Held(route'[t].order.side, route'[t].fills[Primary]) >= 0
  BY <1>1, <1>2, PriceIsNat
<1> QED
  BY <1>3, <1>4 DEF OrdersOK, Scopes

LEMMA EngineKeepsTyped ==
  ASSUME DeskTyped, IInv, NEW t \in Threads, FillOrder(t) \/ CloseLegs(t)
  PROVE  OrdersOK'
<1>1. CASE FillOrder(t)
  <2> DEFINE order == route[t].order
  <2>1. order \in OrderRequests /\ route[t].estimate \in Int
    BY <1>1 DEF FillOrder, DeskTyped, OrdersOK
  <2>2. order.qty \in Nat /\ order.side \in BothSides
    BY <2>1, DeskAssumption DEF BothSides
  <2>3. PICK filled \in IF Marketable(order) THEN 0..order.qty ELSE {0} :
          Answered(t, route[t].id, order, route[t].estimate, route[t].raced, route[t].late,
                   OnPrimary(Signed(order.side, filled)))
    BY <1>1 DEF FillOrder
  <2> HIDE DEF order
  <2>4. filled \in Nat
    BY <2>2
  <2>5. /\ Signed(order.side, filled) \in Int
        /\ Held(order.side, Signed(order.side, filled)) >= 0
    BY <2>2, <2>4 DEF Signed, Held, BothSides
  <2>6. /\ OnPrimary(Signed(order.side, filled)) \in [Scopes -> Int]
        /\ OnPrimary(Signed(order.side, filled))[Primary] = Signed(order.side, filled)
    BY <2>5, PrimaryOnly
  <2> QED
    BY <2>1, <2>3, <2>5, <2>6, AnswerKeepsTyped
<1>2. CASE CloseLegs(t)
  <2> DEFINE n == route[t].legs
             want == ClonedToAll(IF n > 0 THEN "sell" ELSE "buy", Magnitude(n))
  <2>1. PICK f \in Fillable(want) : Answered(t, 0, NoOrder, 0, TRUE, FALSE, f)
    BY <1>2 DEF CloseLegs
  <2> HIDE DEF want
  <2>2. f \in [Scopes -> Int]
    BY <2>1, FillableIsInt
  <2>3. 0 \in Int /\ NoOrder = NoOrder /\ TRUE
    OBVIOUS
  <2> QED
    BY <2>1, <2>2, <2>3, AnswerKeepsTyped, Zenon
<1> QED
  BY <1>1, <1>2

\* A route that begins or ends something else than an order.
LEMMA BeginKeepsTyped ==
  ASSUME DeskTyped, IInv, NEW t \in Threads, NEW r, route' = [route EXCEPT ![t] = r],
         \/ r.op \notin {"ordering", "committing"}
         \/ r.op = "ordering" /\ r.order \in OrderRequests /\ r.estimate \in Int
  PROVE  OrdersOK'
<1>1. \A u \in Threads : route'[u] = IF u = t THEN r ELSE route[u]
  BY DEF IInv, RouteIsFunction
<1> QED
  BY <1>1 DEF DeskTyped, OrdersOK, Scopes

LEMMA CommitFillsKeepsTyped ==
  ASSUME DeskTyped, IInv, NEW t \in Threads, CommitFills(t)
  PROVE  DeskTyped'
<1> DEFINE r == route[t]
           filled == Magnitude(r.fills[Primary])
<1>1. /\ r.fills \in [Scopes -> Int] /\ r.px \in Nat /\ filled \in Nat
      /\ r.order.side \in BothSides
  BY CommittedFills
<1>2. /\ account' = Booked(r.fills, r.px)
      /\ rests' = WithRest(r.id, r.order, filled, r.px)
      /\ brackets' = WithBracket(r.id, r.order, filled, Cancelled(r.cancels))
      /\ UNCHANGED <<price, dropped, loop>>
      /\ \A u \in Threads : \/ route'[u] = Idle
                            \/ route'[u] = route[u]
                            \/ OnItsWay(u) /\ route'[u] = Raced(route[u])
  BY DEF CommitFills
<1> HIDE DEF r, filled
<1>3. AccountOK'
  BY <1>1, <1>2, BookedRows DEF DeskTyped, AccountOK, Scopes
<1>4. DropsOK'
  <2>1. ASSUME NEW b \in BracketIds
        PROVE  WithRest(r.id, r.order, filled, r.px)[b] \in Row
    <3>1. Signed(r.order.side, filled) \in Int
      BY <1>1 DEF Signed
    <3>2. \A n \in Int, m \in Nat : -n * m \in Int
      OBVIOUS
    <3>3. -Signed(r.order.side, filled) * r.px \in Int
      BY <1>1, <3>1, <3>2
    <3>4. rests[b] \in Row
      BY DEF DeskTyped, DropsOK
    <3> QED
      BY <3>1, <3>3, <3>4 DEF WithRest, Effect, Row
  <2>2. rests' \in [BracketIds -> Row]
    BY <1>2, <2>1 DEF WithRest
  <2> QED
    BY <1>2, <2>2 DEF DeskTyped, DropsOK, BracketIds
<1>5. TableTyped'
  <2>1. TableTyped
    BY DEF DeskTyped
  <2>2. TableOK(brackets')
    BY <1>1, <1>2, <2>1, WithBracketTable DEF Recorded
  <2> QED
    BY <2>2 DEF TableOK, TableTyped, BracketIds
<1>6. OrdersOK'
  <2> SUFFICES ASSUME NEW u \in Threads
               PROVE  /\ route'[u].op = "ordering" =>
                           route'[u].order \in OrderRequests /\ route'[u].estimate \in Int
                      /\ route'[u].op = "committing" =>
                           /\ route'[u].estimate \in Int
                           /\ route'[u].fills \in [Scopes -> Int] /\ route'[u].px \in Nat
                           /\ \/ route'[u].order = NoOrder /\ route'[u].raced
                              \/ /\ route'[u].order \in OrderRequests
                                 /\ Held(route'[u].order.side, route'[u].fills[Primary]) >= 0
    BY DEF OrdersOK, Scopes
  <2>1. CASE route'[u] = Idle
    BY <2>1 DEF Idle
  <2>2. CASE route'[u] = route[u]
    BY <2>2 DEF DeskTyped, OrdersOK
  <2>3. CASE route[u].op = "ordering" /\ route'[u] = Raced(route[u])
    BY <2>3 DEF DeskTyped, OrdersOK, Raced, Ordering
  <2>4. CASE route[u].op = "committing" /\ route'[u] = Raced(route[u])
    BY <2>4 DEF DeskTyped, OrdersOK, Raced, Committing
  <2> QED
    BY <1>2, <2>1, <2>2, <2>3, <2>4 DEF OnItsWay
<1>7. SessionOK'
  BY <1>2 DEF DeskTyped, SessionOK, Scopes
<1> QED
  BY <1>3, <1>4, <1>5, <1>6, <1>7 DEF DeskTyped

LEMMA RoutesKeepTyped ==
  ASSUME DeskTyped, IInv, NEW t \in Threads,
         \/ CheckOrder(t) \/ FillOrder(t) \/ CommitFills(t) \/ ReadLegs(t) \/ CloseLegs(t)
         \/ DeleteBracket(t) \/ (\E b \in BracketIds : ReadBracket(t, b))
         \/ ReadBar(t) \/ CommitAlgo(t)
  PROVE  DeskTyped'
<1>quiet. UNCHANGED <<price, account, rests, dropped, brackets, loop>> /\ OrdersOK' => DeskTyped'
  BY DEF DeskTyped, AccountOK, DropsOK, SessionOK, TableTyped, BracketIds, Scopes
<1>1. CASE CheckOrder(t)
  <2>1. PICK order \in OrderRequests :
          route' = [route EXCEPT ![t] = Ordering(events + 1, order, Estimate(order), FALSE, halted)]
    BY <1>1 DEF CheckOrder
  <2>2. UNCHANGED <<price, account, rests, dropped, brackets, loop>>
    BY <1>1 DEF CheckOrder, books
  <2>3. Estimate(order) \in Int
    BY DeskAssumption DEF Estimate, DeskTyped, AccountOK
  <2> HIDE DEF Estimate
  <2> DEFINE r == Ordering(events + 1, order, Estimate(order), FALSE, halted)
  <2>4. r.op = "ordering" /\ r.order = order /\ r.estimate = Estimate(order)
    BY DEF Ordering
  <2>5. route' = [route EXCEPT ![t] = r]
    BY <2>1
  <2> HIDE DEF r
  <2> QED
    BY <1>quiet, <2>2, <2>3, <2>4, <2>5, BeginKeepsTyped
<1>2. CASE FillOrder(t) \/ CloseLegs(t)
  <2>1. UNCHANGED <<price, account, rests, dropped, brackets, loop>>
    BY <1>2 DEF FillOrder, CloseLegs, books
  <2> QED
    BY <1>quiet, <1>2, <2>1, EngineKeepsTyped
<1>3. CASE ReadLegs(t) \/ ReadBar(t) \/ CommitAlgo(t) \/ \E b \in BracketIds : ReadBracket(t, b)
  <2>1. UNCHANGED <<price, account, rests, dropped, brackets, loop>>
    BY <1>3 DEF ReadLegs, ReadBar, CommitAlgo, ReadBracket, books
  <2>2. \E r : route' = [route EXCEPT ![t] = r] /\ r.op \notin {"ordering", "committing"}
    BY <1>3 DEF ReadLegs, ReadBar, CommitAlgo, ReadBracket, Starting, Idle
  <2> QED
    BY <1>quiet, <2>1, <2>2, BeginKeepsTyped
<1>4. CASE DeleteBracket(t)
  <2>1. /\ UNCHANGED <<price, account, rests, dropped, loop>>
        /\ brackets' = Cancelled({route[t].bracket})
        /\ route' = [route EXCEPT ![t] = Idle]
    BY <1>4 DEF DeleteBracket, books
  <2>2. TableTyped'
    BY <2>1, CancelledTable DEF DeskTyped, TableOK, TableTyped, BracketIds
  <2>3. OrdersOK'
    BY <2>1, BeginKeepsTyped DEF Idle
  <2> QED
    BY <2>1, <2>2, <2>3 DEF DeskTyped, AccountOK, DropsOK, SessionOK, BracketIds, Scopes
<1>5. CASE CommitFills(t)
  BY <1>5, CommitFillsKeepsTyped
<1> QED
  BY <1>1, <1>2, <1>3, <1>4, <1>5

LEMMA CancelOrderKeepsTyped ==
  ASSUME DeskTyped, NEW id \in BracketIds, CancelOrder(id)
  PROVE  DeskTyped'
<1>1. /\ account' = [account EXCEPT ![Primary] =
           Effect(account[Primary].pos - rests[id].pos, account[Primary].cash - rests[id].cash)]
      /\ rests' = [rests EXCEPT ![id] = Effect(0, 0)]
      /\ UNCHANGED <<price, brackets, loop, route>>
  BY DEF CancelOrder
<1>2. PICK folded \in BOOLEAN :
        dropped' = Dropped(dropped.pos + rests[id].pos,
                           dropped.sales + (IF rests[id].cash > 0 THEN rests[id].cash ELSE 0),
                           dropped.seen + (IF folded THEN rests[id].cash ELSE 0))
  BY DEF CancelOrder
<1>3. /\ rests \in [BracketIds -> Row] /\ rests[id].pos \in Int /\ rests[id].cash \in Int
      /\ dropped.pos \in Int /\ dropped.sales \in Nat /\ dropped.seen \in Int
      /\ dropped.seen <= dropped.sales
  BY DEF DeskTyped, DropsOK, Row
<1>4. account[Primary].pos \in Int /\ account[Primary].cash \in Int
  BY DEF DeskTyped, AccountOK, Row, Scopes
<1>5. AccountOK'
  BY <1>1, <1>3, <1>4 DEF DeskTyped, AccountOK, Row, Effect, Scopes
<1>6. rests' \in [BracketIds -> Row]
  BY <1>1, <1>3 DEF Row, Effect
<1>7. /\ dropped'.pos \in Int /\ dropped'.sales \in Nat /\ dropped'.seen \in Int
      /\ dropped'.seen <= dropped'.sales
  BY <1>2, <1>3 DEF Dropped
<1> QED
  BY <1>1, <1>5, <1>6, <1>7
     DEF DeskTyped, DropsOK, SessionOK, OrdersOK, TableTyped, BracketIds, Scopes

LEMMA TypedNext == DeskTyped /\ IInv /\ [Next]_vars => DeskTyped'
<1> SUFFICES ASSUME DeskTyped, IInv, [Next]_vars
             PROVE  DeskTyped'
  OBVIOUS
<1>1. CASE UNCHANGED <<price, account, rests, dropped, brackets, loop, route>>
  BY <1>1 DEF DeskTyped, AccountOK, DropsOK, SessionOK, OrdersOK, TableTyped, BracketIds
<1>2. CASE ResetHalt \/ \E s \in Subs : CreateSub(s)
  BY <1>1, <1>2 DEF ResetHalt, CreateSub, books
<1>3. CASE Restart
  <2>1. /\ price' \in Nat /\ loop' = Phase("tick") /\ route' = [t \in Threads |-> Idle]
        /\ dropped' = Dropped(dropped.pos, dropped.sales, 0)
        /\ UNCHANGED <<account, rests, brackets>>
    BY <1>3, DeskAssumption DEF Restart
  <2>2. DropsOK'
    BY <2>1 DEF DeskTyped, DropsOK, Dropped, BracketIds
  <2> QED
    BY <2>1, <2>2, SessionTyped
       DEF DeskTyped, AccountOK, SessionOK, OrdersOK, TableTyped, BracketIds, Idle
<1>4. CASE UNCHANGED vars
  BY <1>1, <1>4 DEF vars, books
<1>5. QED
  BY <1>2, <1>3, <1>4, LoopKeepsTyped, RoutesKeepTyped, CancelOrderKeepsTyped DEF Next

-------------------------------------------------------------------------------
(* The cash *)

\* What has come in: the rows, and the sales a DELETE dropped from them.
Funds == account[Primary].cash + dropped.sales

\* Unless something was bought that was not held against it, the cash is there, and
\* covers each purchase on its way that no other purchase has overtaken.
Backed ==
  ~history.unchecked =>
    /\ Funds >= 0
    /\ \A t \in Threads :
         OnItsWay(t) /\ ~route[t].raced /\ route[t].order.side = "buy"
           => route[t].estimate <= Funds

LEMMA FundsAreInt == ASSUME DeskTyped PROVE Funds \in Int /\ account[Primary].cash \in Int
  BY DEF DeskTyped, AccountOK, DropsOK, Row, Scopes, Funds

LEMMA EstimatesAreInt ==
  ASSUME DeskTyped, NEW t \in Threads, OnItsWay(t) PROVE route[t].estimate \in Int
  BY DEF DeskTyped, OrdersOK, OnItsWay

\* What a fill costs or brings.
LEMMA FundsAfter ==
  ASSUME DeskTyped, NEW fills \in [Scopes -> Int], NEW px \in Nat,
         account' = Booked(fills, px), dropped' = dropped
  PROVE  Funds' = Funds - fills[Primary] * px /\ fills[Primary] \in Int
<1>1. fills[Primary] \in Int /\ fills[Primary] * px \in Int
  BY DEF Scopes
<1>2. account'[Primary].cash = account[Primary].cash - fills[Primary] * px
  BY BookedRows DEF DeskTyped, Scopes
<1>3. account[Primary].cash \in Int /\ dropped.sales \in Int
  BY FundsAreInt DEF DeskTyped, DropsOK
<1>4. QED
  BY <1>1, <1>2, <1>3 DEF Funds

LEMMA SellingPays ==
  ASSUME NEW n \in Int, n <= 0, NEW px \in Nat, NEW cash \in Int
  PROVE  cash - n * px \in Int /\ cash <= cash - n * px
<1>1. (-n) * px \in Nat /\ n * px = -((-n) * px)
  OBVIOUS
<1>2. QED
  BY <1>1

LEMMA NoGainNoTotal ==
  ASSUME NEW f, NEW S, IsFiniteSet(S), \A i \in S : f[i] \in Int /\ f[i] <= 0
  PROVE  Total(f, S) <= 0
<1> DEFINE z == [i \in S |-> 0]
<1>1. \A i \in S : z[i] = 0
  OBVIOUS
<1> HIDE DEF z
<1>2. Total(f, S) <= Total(z, S)
  BY <1>1, TotalAtMost
<1>3. Total(z, S) = 0
  BY <1>1, TotalZero
<1>4. QED
  BY <1>2, <1>3

\* Where the funds do not shrink and no purchase is new, each is still covered.
LEMMA RicherKeepsBacked ==
  ASSUME DeskTyped, Backed, ~history'.unchecked => ~history.unchecked,
         ~history'.unchecked => Funds' \in Int /\ Funds <= Funds',
         \A t \in Threads :
           route'[t].op \in {"ordering", "committing"} /\ ~route'[t].raced =>
             /\ OnItsWay(t) /\ ~route[t].raced
             /\ route'[t].order = route[t].order /\ route'[t].estimate = route[t].estimate
  PROVE  Backed'
<1>1. Funds \in Int /\ \A t \in Threads : OnItsWay(t) => route[t].estimate \in Int
  BY FundsAreInt, EstimatesAreInt
<1>2. SUFFICES ASSUME ~history'.unchecked
               PROVE  /\ Funds' >= 0
                      /\ \A t \in Threads :
                           OnItsWay(t)' /\ ~route'[t].raced /\ route'[t].order.side = "buy"
                             => route'[t].estimate <= Funds'
  BY DEF Backed
<1>3. Funds' >= 0
  BY <1>1, <1>2 DEF Backed
<1>4. ASSUME NEW t \in Threads, OnItsWay(t)', ~route'[t].raced, route'[t].order.side = "buy"
      PROVE  route'[t].estimate <= Funds'
  <2>1. /\ OnItsWay(t) /\ ~route[t].raced
        /\ route'[t].order = route[t].order /\ route'[t].estimate = route[t].estimate
    BY <1>4 DEF OnItsWay
  <2>2. route[t].estimate <= Funds /\ route[t].estimate \in Int
    BY <1>1, <1>2, <1>4, <2>1 DEF Backed
  <2>3. QED
    BY <1>1, <1>2, <2>1, <2>2
<1>5. QED
  BY <1>3, <1>4

\* What the loop commits: purchases are remembered, the rest brings cash.
LEMMA LoopKeepsBacked ==
  ASSUME DeskTyped, Backed, route' = route, dropped' = dropped, NEW fills \in [Scopes -> Int],
         account' = Booked(fills, price),
         ~history'.unchecked => ~history.unchecked /\ fills[Primary] <= 0
  PROVE  Backed'
<1>1. Funds' = Funds - fills[Primary] * price /\ fills[Primary] \in Int
  BY FundsAfter, PriceIsNat
<1>2. ~history'.unchecked => Funds' \in Int /\ Funds <= Funds'
  BY <1>1, FundsAreInt, PriceIsNat, SellingPays
<1>3. QED
  BY <1>2, RicherKeepsBacked DEF OnItsWay

\* A route's purchase is within what its check saw, or remembered; and it overtakes
\* every other that is on its way.
LEMMA CommitFillsKeepsBacked ==
  ASSUME DeskTyped, Backed, NEW t \in Threads, CommitFills(t)
  PROVE  Backed'
<1> DEFINE r == route[t]
           signed == r.fills[Primary]
<1>1. /\ r.op = "committing" /\ r.estimate \in Int
      /\ r.fills \in [Scopes -> Int] /\ signed \in Int /\ r.px \in Nat
      /\ \/ r.order = NoOrder /\ r.raced
         \/ r.order \in OrderRequests /\ Held(r.order.side, signed) >= 0
  BY CommittedFills
<1>2. /\ account' = Booked(r.fills, r.px) /\ dropped' = dropped
      /\ \A u \in Threads :
           route'[u] = IF u = t THEN Idle
                       ELSE IF OnItsWay(u) /\ signed > 0 THEN Raced(route[u])
                       ELSE route[u]
      /\ history'.unchecked <=> \/ history.unchecked
                                \/ signed > 0 /\ (r.raced \/ Magnitude(signed) * r.px > r.estimate)
  BY DEF CommitFills, History
<1> HIDE DEF r, signed
<1>3. Funds' = Funds - signed * r.px /\ Funds \in Int
  BY <1>1, <1>2, FundsAfter, FundsAreInt DEF signed
<1>4. \A u \in Threads :
        route'[u].op \in {"ordering", "committing"} /\ ~route'[u].raced =>
          ~(signed > 0) /\ OnItsWay(u) /\ route'[u] = route[u]
  <2> TAKE u \in Threads
  <2>1. CASE route'[u] = Idle
    BY <2>1 DEF Idle
  <2>2. CASE OnItsWay(u) /\ signed > 0 /\ route'[u] = Raced(route[u])
    <3>1. Raced(route[u]).raced = TRUE
      BY DEF Raced, Ordering, Committing
    <3>2. QED
      BY <2>2, <3>1
  <2>3. CASE ~(OnItsWay(u) /\ signed > 0) /\ route'[u] = route[u]
    BY <2>3 DEF OnItsWay
  <2>4. QED
    BY <1>2, <2>1, <2>2, <2>3
<1>5. CASE signed > 0
  <2>1. SUFFICES ASSUME ~history'.unchecked
                 PROVE  Funds' >= 0
    BY <1>4, <1>5 DEF Backed, OnItsWay
  <2>2. ~history.unchecked /\ ~r.raced /\ ~(Magnitude(signed) * r.px > r.estimate)
    BY <1>2, <1>5, <2>1
  <2>3. r.order \in OrderRequests /\ Held(r.order.side, signed) >= 0
    BY <1>1, <2>2
  <2>4. r.order.side = "buy"
    BY <1>1, <1>5, <2>3, DeskAssumption DEF Held
  <2>5. r.estimate <= Funds
    BY <1>1, <2>2, <2>4 DEF Backed, OnItsWay, r
  <2>6. signed * r.px \in Int /\ signed * r.px <= r.estimate
    <3>1. Magnitude(signed) = signed
      BY <1>1, <1>5 DEF Magnitude
    <3>2. signed * r.px \in Int
      BY <1>1
    <3>3. QED
      BY <1>1, <2>2, <3>1, <3>2
  <2>7. QED
    BY <1>1, <1>3, <2>5, <2>6
<1>6. CASE ~(signed > 0)
  <2>1. Funds' \in Int /\ Funds <= Funds'
    BY <1>1, <1>3, <1>6, SellingPays
  <2>2. QED
    BY <1>2, <1>4, <2>1, RicherKeepsBacked
<1>7. QED
  BY <1>5, <1>6

LEMMA CheckKeepsBacked ==
  ASSUME DeskTyped, IInv, Backed, NEW t \in Threads, CheckOrder(t)
  PROVE  Backed'
<1>1. PICK order \in OrderRequests :
        /\ HasCash(order)
        /\ route' = [route EXCEPT ![t] =
             Ordering(events + 1, order, Estimate(order), FALSE, halted)]
  BY DEF CheckOrder
<1>2. UNCHANGED <<account, dropped, history>>
  BY DEF CheckOrder, books
<1>3. \A u \in Threads : u # t => route'[u] = route[u]
  BY <1>1 DEF IInv, RouteIsFunction
<1>4. route'[t].order = order /\ route'[t].estimate = Estimate(order)
  BY <1>1 DEF IInv, RouteIsFunction, Ordering
<1>5. Estimate(order) \in Int
  BY DeskAssumption, PriceIsNat DEF Estimate
<1>6. order.side = "buy" => Estimate(order) <= Funds
  <2>1. order.side = "buy" => Estimate(order) <= account[Primary].cash + dropped.seen
    BY <1>1 DEF HasCash, CashSeen
  <2>2. /\ account[Primary].cash \in Int /\ dropped.seen \in Int /\ dropped.sales \in Int
        /\ dropped.seen <= dropped.sales
    BY FundsAreInt DEF DeskTyped, DropsOK
  <2> HIDE DEF Estimate
  <2>3. QED
    BY <1>5, <2>1, <2>2 DEF Funds
<1>7. QED
  BY <1>2, <1>3, <1>4, <1>6 DEF Backed, Funds, OnItsWay

\* A DELETE takes no more from the rows than it remembers as sales.
LEMMA CancelOrderKeepsBacked ==
  ASSUME DeskTyped, Backed, NEW id \in BracketIds, CancelOrder(id)
  PROVE  Backed'
<1>1. /\ account'[Primary].cash = account[Primary].cash - rests[id].cash
      /\ route' = route /\ history'.unchecked = history.unchecked
  BY DEF CancelOrder, Effect, DeskTyped, AccountOK, Scopes, History
<1>2. dropped'.sales = dropped.sales + (IF rests[id].cash > 0 THEN rests[id].cash ELSE 0)
  BY DEF CancelOrder, Dropped
<1>3. account[Primary].cash \in Int /\ rests[id].cash \in Int /\ dropped.sales \in Int
  BY FundsAreInt DEF DeskTyped, DropsOK, Row
<1>4. Funds' \in Int /\ Funds <= Funds'
  BY <1>1, <1>2, <1>3 DEF Funds
<1>5. QED
  BY <1>1, <1>4, RicherKeepsBacked DEF OnItsWay

\* The other steps of a route: a purchase keeps its order, estimate and mark on its way.
LEMMA RouteKeepsBacked ==
  ASSUME DeskTyped, IInv, Backed, NEW t \in Threads,
         \/ FillOrder(t) \/ ReadLegs(t) \/ CloseLegs(t) \/ DeleteBracket(t)
         \/ (\E b \in BracketIds : ReadBracket(t, b)) \/ ReadBar(t) \/ CommitAlgo(t)
  PROVE  Backed'
<1>1. /\ UNCHANGED <<account, dropped>> /\ history'.unchecked = history.unchecked
      /\ Funds' = Funds /\ Funds \in Int
  <2>1. CASE FillOrder(t) \/ CloseLegs(t)
    BY <2>1, FundsAreInt DEF FillOrder, CloseLegs, books, Funds
  <2>2. CASE ReadLegs(t) \/ ReadBar(t) \/ CommitAlgo(t) \/ \E b \in BracketIds : ReadBracket(t, b)
    BY <2>2, FundsAreInt DEF ReadLegs, ReadBar, CommitAlgo, ReadBracket, books, Funds
  <2>3. CASE DeleteBracket(t)
    BY <2>3, FundsAreInt DEF DeleteBracket, books, History, Funds
  <2>4. QED
    BY <2>1, <2>2, <2>3
<1>2. ASSUME NEW r, route' = [route EXCEPT ![t] = r],
             r.op \in {"ordering", "committing"} /\ ~r.raced =>
               /\ OnItsWay(t) /\ ~route[t].raced
               /\ r.order = route[t].order /\ r.estimate = route[t].estimate
      PROVE  Backed'
  <2>1. \A u \in Threads : route'[u] = IF u = t THEN r ELSE route[u]
    BY <1>2 DEF IInv, RouteIsFunction
  <2>2. \A u \in Threads :
          route'[u].op \in {"ordering", "committing"} /\ ~route'[u].raced =>
            /\ OnItsWay(u) /\ ~route[u].raced
            /\ route'[u].order = route[u].order /\ route'[u].estimate = route[u].estimate
    BY <1>2, <2>1 DEF OnItsWay
  <2>3. QED
    BY <1>1, <2>2, RicherKeepsBacked
<1>3. ASSUME NEW id, NEW order, NEW estimate, NEW raced, NEW late, NEW fills,
             Answered(t, id, order, estimate, raced, late, fills),
             ~raced => /\ OnItsWay(t) /\ ~route[t].raced
                       /\ order = route[t].order /\ estimate = route[t].estimate
      PROVE  Backed'
  <2> DEFINE answer == IF fills = Nothing THEN Idle
                       ELSE Committing(id, order, estimate, raced, late, fills, price,
                                       ClosedElsewhere(fills[Primary]))
  <2>1. route' = [route EXCEPT ![t] = answer]
    BY <1>3 DEF Answered
  <2>2. \/ answer.op = "idle"
        \/ answer.raced = raced /\ answer.order = order /\ answer.estimate = estimate
    BY DEF Idle, Committing
  <2> HIDE DEF answer
  <2>3. QED
    BY <1>2, <1>3, <2>1, <2>2
<1>4. CASE FillOrder(t)
  <2>1. \E fills : Answered(t, route[t].id, route[t].order, route[t].estimate, route[t].raced,
                            route[t].late, fills)
    BY <1>4 DEF FillOrder
  <2>2. OnItsWay(t)
    BY <1>4 DEF FillOrder, OnItsWay
  <2>3. QED
    BY <1>3, <2>1, <2>2
<1>5. CASE CloseLegs(t)
  <2>1. \E fills : Answered(t, 0, NoOrder, 0, TRUE, FALSE, fills)
    BY <1>5 DEF CloseLegs
  <2>2. QED
    BY <1>3, <2>1
<1>6. CASE ReadLegs(t)
  BY <1>2, <1>6 DEF ReadLegs
<1>7. CASE \E b \in BracketIds : ReadBracket(t, b)
  BY <1>2, <1>7 DEF ReadBracket
<1>8. CASE DeleteBracket(t) \/ CommitAlgo(t)
  <2>1. route' = [route EXCEPT ![t] = Idle] /\ Idle.op = "idle"
    BY <1>8 DEF DeleteBracket, CommitAlgo, Idle
  <2>2. QED
    BY <1>2, <2>1
<1>9. CASE ReadBar(t)
  <2>1. PICK a \in AlgoRequests : route' = [route EXCEPT ![t] = Starting(a, 0)]
    BY <1>9 DEF ReadBar
  <2>2. Starting(a, 0).op = "starting"
    BY DEF Starting
  <2>3. QED
    BY <1>2, <2>1, <2>2
<1>10. QED
  BY <1>4, <1>5, <1>6, <1>7, <1>8, <1>9

LEMMA LoopStepKeepsBacked ==
  ASSUME DeskTyped, IInv, Backed, LoopStep
  PROVE  Backed'
<1>1. CASE UNCHANGED <<account, dropped, route, history>>
  BY <1>1 DEF Backed, Funds, OnItsWay
<1>2. CASE Tick
  <2>1. UNCHANGED <<account, dropped, history>> /\ Funds' = Funds /\ Funds \in Int
    BY <1>2, FundsAreInt DEF Tick, books, Funds
  <2>2. \A t \in Threads :
          route'[t].op \in {"ordering", "committing"} => OnItsWay(t) /\ route'[t] = route[t]
    BY <1>2 DEF Tick, Later, Starting, OnItsWay
  <2>3. QED
    BY <2>1, <2>2, RicherKeepsBacked
<1>3. CASE Signal \/ NoSignal \/ Slice \/ NoSlice \/ ReadBrackets \/ ReadPositions
  BY <1>1, <1>3 DEF Signal, NoSignal, Slice, NoSlice, ReadBrackets, ReadPositions, books
<1>4. CASE CommitSignal \/ CommitSlice
  <2>1. /\ account' = Booked(loop.fills, price) /\ history' = Unheld(loop.fills[Primary] > 0)
        /\ route' = route /\ dropped' = dropped
    BY <1>4 DEF CommitSignal, CommitSlice, CommitLoop
  <2>2. loop.fills \in [Scopes -> Int] /\ loop.fills[Primary] \in Int
    BY DEF DeskTyped, SessionOK, Scopes
  <2>3. ~history'.unchecked => ~history.unchecked /\ loop.fills[Primary] <= 0
    <3>1. ~history'.unchecked => ~history.unchecked /\ ~(loop.fills[Primary] > 0)
      BY <2>1, Zenon DEF Unheld, History
    <3>2. QED
      BY <3>1, <2>2
  <2>4. QED
    BY <2>1, <2>2, <2>3, LoopKeepsBacked
<1>5. CASE CloseBrackets
  <2>1. PICK signed :
          /\ \A b \in loop.closes : signed[b] \in Int
          /\ account' = Booked(OnPrimary(Total(signed, loop.closes)), price)
          /\ history' = Unheld(\E b \in loop.closes : signed[b] > 0)
    BY <1>5, ClosingFills
  <2> DEFINE net == Total(signed, loop.closes)
  <2>2. IsFiniteSet(loop.closes) /\ net \in Int
    BY <2>1, ClosingNet
  <2>3. ~history'.unchecked => ~history.unchecked /\ \A b \in loop.closes : ~(signed[b] > 0)
    BY <2>1 DEF Unheld, History
  <2>4. (\A b \in loop.closes : ~(signed[b] > 0)) => net <= 0
    BY <2>1, <2>2, NoGainNoTotal
  <2> HIDE DEF net
  <2>5. OnPrimary(net) \in [Scopes -> Int] /\ OnPrimary(net)[Primary] = net
    BY <2>2, PrimaryOnly
  <2>6. account' = Booked(OnPrimary(net), price) /\ route' = route /\ dropped' = dropped
    BY <1>5, <2>1 DEF CloseBrackets, net
  <2>7. QED
    BY <2>3, <2>4, <2>5, <2>6, LoopKeepsBacked
<1>6. CASE Liquidate
  <2>1. PICK fills \in Fillable(loop.fills) : LiquidateWith(fills)
    BY <1>6 DEF Liquidate
  <2>2. /\ account' = Booked(fills, price) /\ history' = Unheld(fills[Primary] > 0)
        /\ route' = route /\ dropped' = dropped
    BY <2>1 DEF LiquidateWith
  <2>3. fills \in [Scopes -> Int] /\ fills[Primary] \in Int
    BY FillableIsInt DEF Scopes
  <2>4. ~history'.unchecked => ~history.unchecked /\ fills[Primary] <= 0
    <3>1. ~history'.unchecked => ~history.unchecked /\ ~(fills[Primary] > 0)
      BY <2>2, Zenon DEF Unheld, History
    <3>2. QED
      BY <3>1, <2>3
  <2>5. QED
    BY <2>2, <2>3, <2>4, LoopKeepsBacked
<1>7. QED
  BY <1>2, <1>3, <1>4, <1>5, <1>6 DEF LoopStep

LEMMA BackedNext == DeskTyped /\ IInv /\ Backed /\ [Next]_vars => Backed'
<1> SUFFICES ASSUME DeskTyped, IInv, Backed, [Next]_vars
             PROVE  Backed'
  OBVIOUS
<1>1. CASE UNCHANGED vars \/ ResetHalt \/ \E s \in Subs : CreateSub(s)
  <2>1. UNCHANGED <<account, dropped, route, history>>
    BY <1>1 DEF vars, books, ResetHalt, CreateSub
  <2>2. QED
    BY <2>1 DEF Backed, Funds, OnItsWay
<1>2. CASE Restart
  BY <1>2 DEF Restart, Dropped, Backed, Funds, OnItsWay, Idle
<1>3. QED
  BY <1>1, <1>2, LoopStepKeepsBacked, CheckKeepsBacked, CommitFillsKeepsBacked,
     RouteKeepsBacked, CancelOrderKeepsBacked DEF Next

\* The cash of the primary book, together with the sales a DELETE dropped from its
\* rows, is overdrawn only by purchases that were not held against it: each order is
\* checked against what is there, a sale or a closed bracket brings more, and the
\* purchases that take some are those history remembers.
THEOREM OverdraftsAreRaces == Spec => []OverdraftNeedsARace
<1>1. Init => Backed
  BY DeskAssumption DEF Init, Backed, Funds, Dropped, Scopes, OnItsWay, Idle
<1>2. DeskTyped /\ Backed => OverdraftNeedsARace
  BY FundsAreInt DEF Backed, Funds, OverdraftNeedsARace
<1>3. QED
  BY <1>1, <1>2, BackedNext, TypedInit, TypedNext, InvInit, InvNext, PTL DEF Spec

-------------------------------------------------------------------------------
(* The brackets and the position *)

Clean == ~history.overlapped /\ ~history.mixed

\* A fill that is about to be committed comes with the cancellation of the brackets
\* it closes: in the loop's session, and in those of the routes.
CancelsClosed(tb, signed, ids) ==
  /\ signed > 0 => ActiveIn(tb, "sell") \subseteq ids
  /\ signed < 0 => ActiveIn(tb, "buy") \subseteq ids
CancelsKept ==
  /\ loop.at \in {"signal", "slice"} => CancelsClosed(brackets, loop.fills[Primary], loop.cancels)
  /\ \A t \in Threads :
       route[t].op = "committing" =>
         CancelsClosed(brackets, route[t].fills[Primary], route[t].cancels)

CoverInv == Clean => CancelsKept /\ Guarded(brackets, loop.closes, Traded)

LEMMA ElsewhereInTable ==
  ASSUME NEW signed \in Int
  PROVE  CancelsClosed(brackets, signed, ClosedElsewhere(signed))
  BY DEF ClosedElsewhere, ActiveOf, Active, ActiveIn, CancelsClosed

LEMMA TradedIsInt ==
  ASSUME DeskTyped
  PROVE  Traded \in Int /\ account[Primary].pos \in Int /\ dropped.pos \in Int
  BY DEF DeskTyped, AccountOK, DropsOK, Row, Scopes, Traded

LEMMA PositionRow ==
  ASSUME DeskTyped, NEW fills \in [Scopes -> Int], NEW px \in Nat,
         account' = Booked(fills, px), dropped' = dropped
  PROVE  /\ Traded \in Int /\ fills[Primary] \in Int
         /\ account'[Primary].pos = account[Primary].pos + fills[Primary]
         /\ Traded' = Traded + fills[Primary]
<1>1. fills[Primary] \in Int
  BY DEF Scopes
<1>2. account'[Primary].pos = account[Primary].pos + fills[Primary]
  BY BookedRows DEF DeskTyped, Scopes
<1>3. QED
  BY <1>1, <1>2, TradedIsInt DEF Traded

\* A fill of the primary book that cancels what it closes.
LEMMA CancellingFill ==
  ASSUME DeskTyped, DeskTyped', CoverInv, Clean, loop.closes = {}, NEW fills \in [Scopes -> Int],
         account' = Booked(fills, price), dropped' = dropped, NEW ids, brackets' = Cancelled(ids),
         CancelsClosed(brackets, fills[Primary], ids)
  PROVE  Guarded(brackets', {}, Traded')
<1>1. TableOK(brackets) /\ TableOK(Cancelled(ids))
  BY CancelledTable DEF DeskTyped, TableOK, TableTyped
<1>2. \A b \in BracketIds :
        /\ Cancelled(ids)[b].side = brackets[b].side
        /\ Cancelled(ids)[b].qty = brackets[b].qty
        /\ Cancelled(ids)[b].status = IF b \in ids THEN "cancelled" ELSE brackets[b].status
  BY CancelledTable DEF DeskTyped
<1>3. /\ \A side \in BothSides : \A b \in ActiveIn(Cancelled(ids), side) :
           b \in ActiveIn(brackets, side) /\ Cancelled(ids)[b].qty = brackets[b].qty
      /\ fills[Primary] > 0 => ActiveIn(Cancelled(ids), "sell") = {}
      /\ fills[Primary] < 0 => ActiveIn(Cancelled(ids), "buy") = {}
  BY <1>2 DEF ActiveIn, CancelsClosed
<1>4. Traded \in Int /\ fills[Primary] \in Int /\ Traded' = Traded + fills[Primary]
  BY PositionRow, PriceIsNat
<1>5. Guarded(brackets, {}, Traded)
  BY DEF CoverInv
<1>6. Guarded(Cancelled(ids), {}, Traded + fills[Primary])
  BY <1>1, <1>3, <1>4, <1>5, FillKeepsGuarded
<1>7. QED
  BY <1>4, <1>6

\* A step that trades nothing: brackets at most leave the table.
LEMMA NoTradeKeepsCover ==
  ASSUME DeskTyped, DeskTyped', IInv, CoverInv, Clean' => Clean, Traded' = Traded,
         \A b \in BracketIds :
           \/ brackets'[b] = brackets[b]
           \/ /\ brackets'[b].status # "active"
              /\ brackets'[b].side = brackets[b].side /\ brackets'[b].qty = brackets[b].qty,
         loop'.closes \subseteq loop.closes \cup Active,
         Clean' => CancelsKept'
  PROVE  CoverInv'
<1> SUFFICES ASSUME Clean'
             PROVE  Guarded(brackets', loop'.closes, Traded')
  BY DEF CoverInv
<1>1. TableOK(brackets) /\ TableOK(brackets')
  BY DEF DeskTyped, TableOK, TableTyped, BracketIds
<1>2. loop.closes \in SUBSET BracketIds /\ loop'.closes \in SUBSET BracketIds
  BY DEF IInv, LoopSound, Active
<1>3. \A side \in BothSides : \A b \in ExposedIn(brackets', loop'.closes, side) :
        b \in ExposedIn(brackets, loop.closes, side) /\ brackets'[b].qty = brackets[b].qty
  BY <1>2 DEF ExposedIn, ActiveIn, Active
<1>4. Traded \in Int /\ Guarded(brackets, loop.closes, Traded)
  BY TradedIsInt DEF CoverInv
<1>5. Guarded(brackets', loop'.closes, Traded)
  BY <1>1, <1>2, <1>3, <1>4, StillGuarded
<1>6. QED
  BY <1>5

\* What is about to be committed still cancels enough where no bracket is new.
LEMMA CancelsStay ==
  ASSUME CancelsKept,
         \A side \in BothSides : ActiveIn(brackets', side) \subseteq ActiveIn(brackets, side),
         \/ loop' = loop
         \/ loop'.at \notin {"signal", "slice"}
         \/ CancelsClosed(brackets', loop'.fills[Primary], loop'.cancels),
         \A t \in Threads :
           route'[t].op = "committing" =>
             \/ /\ route[t].op = "committing" /\ route'[t].fills = route[t].fills
                /\ route'[t].cancels = route[t].cancels
             \/ CancelsClosed(brackets', route'[t].fills[Primary], route'[t].cancels)
  PROVE  CancelsKept'
<1>1. \A signed, ids : CancelsClosed(brackets, signed, ids) => CancelsClosed(brackets', signed, ids)
  BY DEF CancelsClosed, BothSides
<1>2. loop'.at \in {"signal", "slice"} =>
        CancelsClosed(brackets', loop'.fills[Primary], loop'.cancels)
  BY <1>1 DEF CancelsKept
<1>3. ASSUME NEW t \in Threads, route'[t].op = "committing"
      PROVE  CancelsClosed(brackets', route'[t].fills[Primary], route'[t].cancels)
  BY <1>1, <1>3 DEF CancelsKept
<1>4. QED
  BY <1>2, <1>3 DEF CancelsKept, CancelsClosed, ActiveIn, BracketIds

\* A route's commit, where no other session is open.
LEMMA CommitFillsKeepsCover ==
  ASSUME DeskTyped, DeskTyped', IInv, CoverInv, NEW t \in Threads, CommitFills(t)
  PROVE  CoverInv'
<1> DEFINE r == route[t]
           order == r.order
           id == r.id
           ids == r.cancels
           signed == r.fills[Primary]
           filled == Magnitude(signed)
           tc == WithBracket(id, order, filled, Cancelled(ids))
<1>1. SUFFICES ASSUME Clean'
               PROVE  CancelsKept' /\ Guarded(brackets', loop'.closes, Traded')
  BY DEF CoverInv
<1>2. /\ r.op = "committing" /\ r.fills \in [Scopes -> Int] /\ signed \in Int /\ filled \in Nat
      /\ r.px \in Nat /\ order.side \in BothSides
      /\ \/ order = NoOrder
         \/ order \in OrderRequests /\ Held(order.side, signed) >= 0
  BY CommittedFills
<1>3. /\ account' = Booked(r.fills, r.px) /\ dropped' = dropped
      /\ brackets' = tc /\ loop' = loop
      /\ \A u \in Threads :
           route'[u] = IF u = t THEN Idle
                       ELSE IF OnItsWay(u) /\ signed > 0 THEN Raced(route[u])
                       ELSE route[u]
  BY DEF CommitFills
<1>4. /\ ~history.overlapped /\ ~OpenBeside(t)
      /\ ~history.mixed
      /\ ~(Bracketed(order) /\ IF order.side = "buy" THEN Traded < 0 ELSE Traded > 0)
  BY <1>1, Zenon DEF Clean, CommitFills, History
<1>5. Traded' = Traded + signed /\ Traded \in Int
  BY <1>2, <1>3, PositionRow
<1>6. TableOK(brackets) /\ Recorded(brackets', ids, id, order, filled)
  <2>1. TableTyped
    BY DEF DeskTyped
  <2> HIDE DEF ids, order, id, filled, r
  <2>2. Recorded(tc, ids, id, order, filled)
    BY <1>2, <2>1, WithBracketTable
  <2> HIDE DEF tc
  <2>3. QED
    BY <1>3, <2>1, <2>2 DEF TableOK, TableTyped
<1>7. Guarded(brackets, loop.closes, Traded) /\ CancelsClosed(brackets, signed, ids)
  BY <1>2, <1>4 DEF CoverInv, Clean, CancelsKept
<1>8. ~LoopIsOpen /\ loop.closes = {} /\ \A u \in Threads \ {t} : route[u].op # "committing"
  BY <1>4 DEF OpenBeside, LoopIsOpen, DeskTyped, SessionOK
<1> HIDE DEF r, order, id, ids, signed, filled, tc
<1>9. CancelsKept'
  <2>1. ASSUME NEW u \in Threads PROVE route'[u].op # "committing"
    <3>1. CASE u = t
      BY <1>3, <3>1 DEF Idle
    <3>2. CASE u # t /\ OnItsWay(u)
      <4>1. route[u].op = "ordering"
        BY <1>8, <3>2 DEF OnItsWay
      <4>2. Raced(route[u]).op = "ordering"
        BY <4>1 DEF Raced, Ordering
      <4>3. QED
        BY <1>3, <3>2, <4>1, <4>2
    <3>3. CASE u # t /\ ~OnItsWay(u)
      BY <1>3, <1>8, <3>3
    <3>4. QED
      BY <3>1, <3>2, <3>3
  <2>2. loop'.at \notin {"signal", "slice"}
    BY <1>3, <1>8 DEF LoopIsOpen
  <2>3. QED
    BY <2>1, <2>2 DEF CancelsKept
<1>10. \A b \in ids : Becomes(b, "cancelled", brackets[b].closings).status = "cancelled"
  BY DEF Becomes, Bracket
<1>11. \A side \in BothSides : \A b \in ActiveIn(brackets', side) :
         \/ b \notin ids /\ b \in ActiveIn(brackets, side) /\ brackets'[b].qty = brackets[b].qty
         \/ b = id /\ filled # 0 /\ Bracketed(order) /\ side = order.side /\ brackets'[b].qty = filled
  BY <1>6, <1>10 DEF ActiveIn, Recorded
<1>12. CASE \E b \in BracketIds :
              b = id /\ brackets'[b] = NewBracket(order, filled) /\ filled # 0 /\ Bracketed(order)
  <2>1. /\ id \in BracketIds /\ brackets'[id].side = order.side /\ brackets'[id].qty = filled
        /\ brackets'[id].status = "active" /\ Bracketed(order) /\ filled # 0
    BY <1>12 DEF NewBracket, Bracket
  <2>2. order \in OrderRequests /\ Held(order.side, signed) >= 0 /\ order # NoOrder
    BY <1>2, <2>1 DEF Bracketed, NoOrder
  <2>3. signed = Signed(order.side, filled)
    BY <1>2, <2>2 DEF filled, Held, Signed, Magnitude, BothSides
  <2>4. signed # 0
    BY <2>1 DEF filled, Magnitude
  <2>5. brackets[id].status = "none"
    BY <1>2, <2>2 DEF IInv, OrdersSound, OwnOrder, OnItsWay, id, order, r
  <2>6. Held(order.side, Traded) >= 0
    BY <1>2, <1>4, <1>5, <2>1 DEF Held, BothSides
  <2>7. \A side \in BothSides : \A b \in ActiveIn(brackets', side) : b # id =>
          b \in ActiveIn(brackets, side) /\ brackets'[b].qty = brackets[b].qty
    BY <1>11
  <2>8. ActiveIn(brackets', IF order.side = "buy" THEN "sell" ELSE "buy") = {}
    BY <1>2, <1>7, <1>11, <2>2, <2>4 DEF BothSides, CancelsClosed, Held
  <2>9. Guarded(brackets', {}, Traded + Signed(order.side, filled))
    BY <1>5, <1>6, <1>7, <1>8, <2>1, <2>5, <2>6, <2>7, <2>8, EntryKeepsGuarded DEF Recorded
  <2>10. QED
    BY <1>3, <1>5, <1>8, <1>9, <2>3, <2>9
<1>13. CASE ~ \E b \in BracketIds :
                b = id /\ brackets'[b] = NewBracket(order, filled) /\ filled # 0 /\ Bracketed(order)
  <2>1. \A side \in BothSides : \A b \in ActiveIn(brackets', side) :
          b \notin ids /\ b \in ActiveIn(brackets, side) /\ brackets'[b].qty = brackets[b].qty
    BY <1>6, <1>10, <1>13 DEF ActiveIn, Recorded
  <2>2. /\ signed > 0 => ActiveIn(brackets', "sell") = {}
        /\ signed < 0 => ActiveIn(brackets', "buy") = {}
    BY <1>7, <2>1 DEF CancelsClosed, BothSides
  <2>3. Guarded(brackets', {}, Traded + signed)
    BY <1>2, <1>5, <1>6, <1>7, <1>8, <2>1, <2>2, FillKeepsGuarded DEF Recorded
  <2>4. QED
    BY <1>3, <1>5, <1>8, <1>9, <2>3
<1>14. QED
  BY <1>12, <1>13

LEMMA ClosingOrdersKeepCover ==
  ASSUME DeskTyped, DeskTyped', IInv, CoverInv, CloseBrackets
  PROVE  /\ CoverInv'
         /\ Clean => Magnitude(Traded') <= Magnitude(Traded)
<1>1. loop'.closes = {} /\ loop'.at = "breaker" /\ route' = route /\ dropped' = dropped
  BY DEF CloseBrackets, Phase, Session
<1>2. PICK signed :
        /\ \A b \in loop.closes : /\ signed[b] \in Int
                                  /\ -Held(brackets[b].side, signed[b]) \in 0..brackets[b].qty
        /\ account' = Booked(OnPrimary(Total(signed, loop.closes)), price)
        /\ history' = Unheld(\E b \in loop.closes : signed[b] > 0)
  BY ClosingFills
<1> DEFINE net == Total(signed, loop.closes)
<1>3. Clean' <=> Clean
  BY <1>2 DEF Clean, Unheld, History
<1>4. net \in Int /\ loop.closes \in SUBSET BracketIds
  BY <1>2, ClosingNet DEF IInv, LoopSound
<1>5. OnPrimary(net) \in [Scopes -> Int] /\ OnPrimary(net)[Primary] = net
  BY <1>4, PrimaryOnly
<1>6. Traded' = Traded + net /\ Traded \in Int
  BY <1>1, <1>2, <1>5, PositionRow, PriceIsNat
<1>7. TableOK(brackets) /\ TableOK(brackets')
  BY DEF DeskTyped, TableOK, TableTyped, BracketIds
<1>8. \A side \in BothSides : \A b \in ActiveIn(brackets', side) :
        b \in ActiveIn(brackets, side) /\ b \notin loop.closes /\ brackets'[b].qty = brackets[b].qty
  BY DEF CloseBrackets, ActiveIn, Fire, Becomes, Bracket
<1>9. ASSUME Clean
      PROVE  /\ Guarded(brackets', {}, Traded + net)
             /\ Magnitude(Traded + net) <= Magnitude(Traded)
  <2>1. Guarded(brackets, loop.closes, Traded)
    BY <1>9 DEF CoverInv
  <2>2. QED
    BY <1>2, <1>4, <1>6, <1>7, <1>8, <2>1, ClosingKeepsGuarded
<1>10. ASSUME Clean PROVE CancelsKept'
  <2>1. CancelsKept
    BY <1>10 DEF CoverInv
  <2>2. QED
    BY <1>1, <1>8, <2>1, CancelsStay
<1>11. QED
  BY <1>1, <1>3, <1>6, <1>9, <1>10 DEF CoverInv

LEMMA CancelledActive ==
  ASSUME NEW ids, brackets' = Cancelled(ids), NEW side
  PROVE  ActiveIn(brackets', side) \subseteq ActiveIn(brackets, side)
  BY DEF ActiveIn, Cancelled, Becomes, Bracket

LEMMA LoopKeepsCover ==
  ASSUME DeskTyped, DeskTyped', IInv, CoverInv, LoopStep
  PROVE  CoverInv'
<1>1. CASE Tick \/ NoSignal \/ NoSlice \/ ReadPositions
  <2>1. /\ UNCHANGED <<account, dropped, brackets, history>>
        /\ loop'.closes = {} /\ loop'.at \notin {"signal", "slice"}
    <3>1. UNCHANGED <<account, dropped, brackets, history>>
      BY <1>1 DEF Tick, NoSignal, NoSlice, ReadPositions, books
    <3>2. loop'.closes = {}
      BY <1>1 DEF Tick, NoSignal, NoSlice, ReadPositions, Phase, Session
    <3>3. loop'.at \notin {"signal", "slice"}
      BY <1>1 DEF Tick, NoSignal, NoSlice, ReadPositions, Phase, Session
    <3>4. QED
      BY <3>1, <3>2, <3>3
  <2>2. \A t \in Threads : route'[t].op = "committing" => route'[t] = route[t]
    <3>1. CASE Tick
      BY <3>1 DEF Tick, Later, Starting
    <3>2. CASE NoSignal \/ NoSlice \/ ReadPositions
      BY <3>2 DEF NoSignal, NoSlice, ReadPositions
    <3>3. QED
      BY <1>1, <3>1, <3>2
  <2>3. Clean' => Clean /\ CancelsKept'
    <3>1. \A side \in BothSides : ActiveIn(brackets', side) \subseteq ActiveIn(brackets, side)
      BY <2>1 DEF ActiveIn
    <3>2. Clean' => Clean
      BY <2>1 DEF Clean
    <3>3. CancelsKept => CancelsKept'
      BY <2>1, <2>2, <3>1, CancelsStay
    <3>4. QED
      BY <3>2, <3>3 DEF CoverInv
  <2>4. QED
    BY <2>1, <2>3, NoTradeKeepsCover DEF Traded
<1>2. CASE ReadBrackets
  <2>1. /\ UNCHANGED <<account, dropped, brackets, history, route>>
        /\ loop'.closes \subseteq Active /\ loop'.at \notin {"signal", "slice"}
    BY <1>2 DEF ReadBrackets, Phase, Session, books
  <2>2. Clean' => Clean /\ CancelsKept'
    <3>1. \A side \in BothSides : ActiveIn(brackets', side) \subseteq ActiveIn(brackets, side)
      BY <2>1 DEF ActiveIn
    <3>2. Clean' => Clean
      BY <2>1 DEF Clean
    <3>3. CancelsKept => CancelsKept'
      BY <2>1, <3>1, CancelsStay
    <3>4. QED
      BY <3>2, <3>3 DEF CoverInv
  <2>3. QED
    BY <2>1, <2>2, NoTradeKeepsCover DEF Traded
<1>3. CASE Signal \/ Slice
  <2>1. ASSUME NEW want, NEW f \in Fillable(want), NEW at, NEW q, NEW p,
               loop' = Session(at, f, ClosedElsewhere(f[Primary]), {}, q, p)
        PROVE  CoverInv'
    <3>1. f[Primary] \in Int
      BY FillableIsInt DEF Scopes
    <3>2. UNCHANGED <<account, dropped, brackets, history, route>>
      BY <1>3 DEF Signal, Slice, books
    <3>3. /\ loop'.closes = {} /\ loop'.fills = f
          /\ loop'.cancels = ClosedElsewhere(f[Primary])
      BY <2>1 DEF Session
    <3>4. CancelsClosed(brackets', loop'.fills[Primary], loop'.cancels)
      BY <3>1, <3>2, <3>3, ElsewhereInTable
    <3>5. Clean' => Clean /\ CancelsKept'
      <4>1. \A side \in BothSides : ActiveIn(brackets', side) \subseteq ActiveIn(brackets, side)
        BY <3>2 DEF ActiveIn
      <4>2. Clean' => Clean
        BY <3>2 DEF Clean
      <4>3. CancelsKept => CancelsKept'
        BY <3>2, <3>4, <4>1, CancelsStay
      <4>4. QED
        BY <4>2, <4>3 DEF CoverInv
    <3>6. QED
      BY <3>2, <3>3, <3>5, NoTradeKeepsCover DEF Traded
  <2>2. CASE Signal
    <3>1. PICK s \in Signals : \E f \in Fillable(ClonedToAll(s.side, s.qty)) :
            loop' = Session("signal", f, ClosedElsewhere(f[Primary]), {}, 0, s.pair)
      BY <2>2 DEF Signal
    <3>2. QED
      BY <2>1, <3>1
  <2>3. CASE Slice
    <3>1. PICK q \in SliceQty :
            \E f \in Fillable(ClonedToAll(parent.side, IF q > 0 THEN q ELSE 0)) :
              loop' = Session("slice", f, ClosedElsewhere(f[Primary]), {}, q, FALSE)
      BY <2>3 DEF Slice
    <3>2. QED
      BY <2>1, <3>1
  <2>4. QED
    BY <1>3, <2>2, <2>3
<1>4. CASE CommitSignal \/ CommitSlice
  <2>1. /\ account' = Booked(loop.fills, price) /\ brackets' = Cancelled(loop.cancels)
        /\ loop'.closes = {} /\ loop'.at \notin {"signal", "slice"} /\ (Clean' => Clean)
        /\ loop.at \in {"signal", "slice"} /\ UNCHANGED <<dropped, route>>
    BY <1>4 DEF CommitSignal, CommitSlice, CommitLoop, Phase, Session, Clean, Unheld, History
  <2>2. loop.closes = {} /\ loop.fills \in [Scopes -> Int]
    BY <2>1 DEF DeskTyped, SessionOK
  <2>3. ASSUME Clean PROVE CancelsKept' /\ Guarded(brackets', {}, Traded')
    <3>1. CancelsKept /\ CancelsClosed(brackets, loop.fills[Primary], loop.cancels)
      BY <2>1, <2>3 DEF CoverInv, CancelsKept
    <3>2. CancelsKept'
      BY <2>1, <3>1, CancelledActive, CancelsStay
    <3>3. QED
      BY <2>1, <2>2, <2>3, <3>1, <3>2, CancellingFill
  <2>4. QED
    BY <2>1, <2>3 DEF CoverInv
<1>5. CASE Liquidate
  <2>1. PICK fills \in Fillable(loop.fills) : LiquidateWith(fills)
    BY <1>5 DEF Liquidate
  <2>2. /\ account' = Booked(fills, price)
        /\ brackets' = Cancelled(ClosedElsewhere(fills[Primary]))
        /\ loop'.closes = {} /\ loop'.at \notin {"signal", "slice"} /\ (Clean' => Clean)
        /\ loop.at = "liquidating" /\ UNCHANGED <<dropped, route>>
    BY <2>1 DEF LiquidateWith, Phase, Session, Clean, Unheld, History
  <2>3. loop.closes = {} /\ fills \in [Scopes -> Int] /\ fills[Primary] \in Int
    BY <2>2, FillableIsInt DEF DeskTyped, SessionOK, Scopes
  <2>4. CancelsClosed(brackets, fills[Primary], ClosedElsewhere(fills[Primary]))
    BY <2>3, ElsewhereInTable
  <2>5. ASSUME Clean PROVE CancelsKept' /\ Guarded(brackets', {}, Traded')
    <3>1. CancelsKept
      BY <2>5 DEF CoverInv
    <3>2. CancelsKept'
      BY <2>2, <3>1, CancelledActive, CancelsStay
    <3>3. QED
      BY <2>2, <2>3, <2>4, <2>5, <3>2, CancellingFill
  <2>6. QED
    BY <2>2, <2>5 DEF CoverInv
<1>6. QED
  BY <1>1, <1>2, <1>3, <1>4, <1>5, ClosingOrdersKeepCover DEF LoopStep

\* The other steps of a route: its fills come with what they cancel.
LEMMA RouteKeepsCover ==
  ASSUME DeskTyped, DeskTyped', IInv, CoverInv, NEW t \in Threads,
         \/ CheckOrder(t) \/ FillOrder(t) \/ ReadLegs(t) \/ CloseLegs(t) \/ DeleteBracket(t)
         \/ (\E b \in BracketIds : ReadBracket(t, b)) \/ ReadBar(t) \/ CommitAlgo(t)
  PROVE  CoverInv'
<1>1. CASE FillOrder(t) \/ CloseLegs(t)
  <2>1. PICK id, order, estimate, raced, late, fills :
          Answered(t, id, order, estimate, raced, late, fills)
    BY <1>1 DEF FillOrder, CloseLegs
  <2> DEFINE answer == IF fills = Nothing THEN Idle
                       ELSE Committing(id, order, estimate, raced, late, fills, price,
                                       ClosedElsewhere(fills[Primary]))
  <2>2. UNCHANGED <<account, dropped, brackets, history, loop>>
    BY <1>1 DEF FillOrder, CloseLegs, books
  <2>3. \A u \in Threads : route'[u] = IF u = t THEN answer ELSE route[u]
    BY <2>1 DEF Answered, IInv, RouteIsFunction
  <2>4. \/ answer.op = "idle"
        \/ answer.fills = fills /\ answer.cancels = ClosedElsewhere(fills[Primary])
    BY DEF Idle, Committing
  <2> HIDE DEF answer
  <2>5. route'[t].op = "committing" =>
          CancelsClosed(brackets', route'[t].fills[Primary], route'[t].cancels)
    <3>1. HAVE route'[t].op = "committing"
    <3>2. answer.fills = fills /\ answer.cancels = ClosedElsewhere(fills[Primary])
      BY <2>3, <2>4, <3>1
    <3>3. route'[t].fills[Primary] \in Int
      BY <3>1 DEF DeskTyped, OrdersOK, Scopes
    <3>4. QED
      BY <2>2, <2>3, <3>2, <3>3, ElsewhereInTable
  <2>6. Clean' => Clean /\ CancelsKept'
    <3>1. \A side \in BothSides : ActiveIn(brackets', side) \subseteq ActiveIn(brackets, side)
      BY <2>2 DEF ActiveIn
    <3>2. Clean' => Clean
      BY <2>2 DEF Clean
    <3>3. CancelsKept => CancelsKept'
      BY <2>2, <2>3, <2>5, <3>1, CancelsStay
    <3>4. QED
      BY <3>2, <3>3 DEF CoverInv
  <2>7. QED
    BY <2>2, <2>6, NoTradeKeepsCover DEF Traded
<1>2. ASSUME NEW r, route' = [route EXCEPT ![t] = r], r.op # "committing",
             UNCHANGED <<account, dropped, loop>>, Clean' => Clean,
             \E ids : brackets' = brackets \/ brackets' = Cancelled(ids)
      PROVE  CoverInv'
  <2>1. \A u \in Threads : route'[u].op = "committing" => route'[u] = route[u]
    BY <1>2 DEF IInv, RouteIsFunction
  <2>2. \A b \in BracketIds :
          \/ brackets'[b] = brackets[b]
          \/ /\ brackets'[b].status # "active"
             /\ brackets'[b].side = brackets[b].side /\ brackets'[b].qty = brackets[b].qty
    BY <1>2 DEF Cancelled, Becomes, Bracket
  <2>3. \A side \in BothSides : ActiveIn(brackets', side) \subseteq ActiveIn(brackets, side)
    BY <2>2 DEF ActiveIn
  <2>4. CancelsKept => CancelsKept'
    BY <1>2, <2>1, <2>3, CancelsStay
  <2>5. QED
    BY <1>2, <2>2, <2>4, NoTradeKeepsCover DEF Traded, CoverInv
<1>3. CASE CheckOrder(t)
  <2>1. PICK order \in OrderRequests :
          route' = [route EXCEPT ![t] = Ordering(events + 1, order, Estimate(order), FALSE, halted)]
    BY <1>3 DEF CheckOrder
  <2>2. Ordering(events + 1, order, Estimate(order), FALSE, halted).op = "ordering"
    BY DEF Ordering
  <2>3. UNCHANGED <<account, dropped, loop, brackets, history>>
    BY <1>3 DEF CheckOrder, books
  <2>4. QED
    BY <1>2, <2>1, <2>2, <2>3 DEF Clean
<1>4. CASE ReadLegs(t)
  <2>1. UNCHANGED <<account, dropped, loop, brackets, history>> /\ (Clean' => Clean)
    BY <1>4 DEF ReadLegs, books, Clean
  <2> DEFINE r == [op |-> "unwinding", legs |-> legs]
  <2>2. route' = [route EXCEPT ![t] = r] /\ r.op # "committing"
    BY <1>4 DEF ReadLegs
  <2> HIDE DEF r
  <2>3. QED
    BY <1>2, <2>1, <2>2
<1>5. CASE \E b \in BracketIds : ReadBracket(t, b)
  <2>1. UNCHANGED <<account, dropped, loop, brackets, history>>
    BY <1>5 DEF ReadBracket, books
  <2>2. QED
    BY <1>2, <1>5, <2>1 DEF Clean, ReadBracket
<1>6. CASE ReadBar(t) \/ CommitAlgo(t)
  <2>1. UNCHANGED <<account, dropped, loop, brackets, history>>
    BY <1>6 DEF ReadBar, CommitAlgo, books
  <2>2. \E r : route' = [route EXCEPT ![t] = r] /\ r.op # "committing"
    BY <1>6 DEF ReadBar, CommitAlgo, Starting, Idle
  <2>3. QED
    BY <1>2, <2>1, <2>2 DEF Clean
<1>7. CASE DeleteBracket(t)
  <2>1. /\ UNCHANGED <<account, dropped, loop>> /\ (Clean' => Clean)
        /\ brackets' = Cancelled({route[t].bracket})
        /\ route' = [route EXCEPT ![t] = Idle] /\ Idle.op # "committing"
    BY <1>7 DEF DeleteBracket, books, Clean, History, Idle
  <2>2. QED
    BY <1>2, <2>1
<1>8. QED
  BY <1>1, <1>3, <1>4, <1>5, <1>6, <1>7

\* A DELETE moves a fill from the rows to what is remembered.
LEMMA CancelOrderKeepsCover ==
  ASSUME DeskTyped, DeskTyped', IInv, CoverInv, NEW id \in BracketIds, CancelOrder(id)
  PROVE  CoverInv'
<1>1. account'[Primary].pos = account[Primary].pos - rests[id].pos
  BY DEF CancelOrder, Effect, DeskTyped, AccountOK, Scopes
<1>2. dropped'.pos = dropped.pos + rests[id].pos
  BY DEF CancelOrder, Dropped
<1>3. Traded' = Traded
  BY <1>1, <1>2, TradedIsInt DEF Traded, DeskTyped, DropsOK, Row
<1>4. UNCHANGED <<brackets, loop, route>> /\ (Clean' => Clean)
  BY DEF CancelOrder, Clean, History
<1>5. CancelsKept => CancelsKept'
  <2>1. \A side \in BothSides : ActiveIn(brackets', side) \subseteq ActiveIn(brackets, side)
    BY <1>4 DEF ActiveIn
  <2>2. QED
    BY <1>4, <2>1, CancelsStay
<1>6. QED
  BY <1>3, <1>4, <1>5, NoTradeKeepsCover DEF CoverInv

LEMMA CoverNext == DeskTyped /\ DeskTyped' /\ IInv /\ CoverInv /\ [Next]_vars => CoverInv'
<1> SUFFICES ASSUME DeskTyped, DeskTyped', IInv, CoverInv, [Next]_vars
             PROVE  CoverInv'
  OBVIOUS
<1>1. CASE UNCHANGED vars \/ ResetHalt \/ \E s \in Subs : CreateSub(s)
  <2>1. UNCHANGED <<account, dropped, brackets, loop, route, history>>
    BY <1>1 DEF vars, books, ResetHalt, CreateSub
  <2>2. QED
    BY <2>1 DEF CoverInv, CancelsKept, CancelsClosed, Clean, Guarded, Exposure, ExposedIn, ActiveIn,
                Quantities, BracketIds, Traded
<1>2. CASE Restart
  <2>1. /\ UNCHANGED <<account, brackets, history>> /\ dropped'.pos = dropped.pos
        /\ loop'.closes = {} /\ loop'.at \notin {"signal", "slice"}
        /\ \A t \in Threads : route'[t].op # "committing"
    BY <1>2 DEF Restart, Phase, Session, Dropped, Idle
  <2>2. Clean' => Clean /\ CancelsKept'
    BY <2>1 DEF Clean, CancelsKept
  <2>3. QED
    BY <2>1, <2>2, NoTradeKeepsCover DEF Traded
<1>3. QED
  BY <1>1, <1>2, LoopKeepsCover, RouteKeepsCover, CommitFillsKeepsCover, CancelOrderKeepsCover
     DEF Next

LEMMA CoverInit == Init => CoverInv
<1> SUFFICES ASSUME Init
             PROVE  CoverInv
  OBVIOUS
<1>1. loop.closes = {} /\ CancelsKept
  BY DEF Init, Phase, Session, CancelsKept, Idle
<1>2. \A side : ExposedIn(brackets, {}, side) = {}
  BY DEF Init, ExposedIn, ActiveIn, NoBracket, Bracket
<1>3. \A side : Exposure(brackets, {}, side) = 0
  BY <1>2, TotalEmpty DEF Exposure
<1>4. QED
  BY <1>1, <1>3 DEF CoverInv, Guarded, Within

\* What ActiveCovered says, where nothing is on its way.
LEMMA GuardedCovers == DeskTyped /\ IInv /\ CoverInv => ActiveCovered
<1> SUFFICES ASSUME DeskTyped, IInv, CoverInv, Clean
             PROVE  /\ Watched("buy") <= Max({0, Traded})
                    /\ Watched("sell") <= Max({0, -Traded})
  BY DEF ActiveCovered, Clean
<1> DEFINE pos == Traded
<1>1. TableOK(brackets) /\ loop.closes \in SUBSET BracketIds /\ {} \in SUBSET BracketIds
  BY DEF DeskTyped, TableOK, TableTyped, IInv, LoopSound
<1>2. ASSUME NEW side \in BothSides
      PROVE  Watched(side) = Exposure(brackets, {}, side)
  <2> DEFINE S == ActiveIn(brackets, side)
             f == [b \in S |-> brackets[b].qty]
             g == Quantities(brackets)
  <2>1. ActiveOf(side) = S /\ ExposedIn(brackets, {}, side) = S
    BY DEF ActiveOf, Active, ActiveIn, ExposedIn
  <2>2. IsFiniteSet(S)
    BY <1>1, <2>1, ExposedFinite
  <2>3. \A b \in S : f[b] = g[b]
    BY DEF ActiveIn, Quantities
  <2>4. Watched(side) = QtyTotal(brackets, S)
    BY <2>1 DEF Watched, QtyTotal
  <2>5. QtyTotal(brackets, S) = Total(f, S)
    <3> HIDE DEF S
    <3>1. QED
      BY <2>2, QtyTotalIsTotal
  <2> HIDE DEF S, f, g
  <2>6. Total(f, S) = Total(g, S)
    BY <2>2, <2>3, TotalSame
  <2>7. Exposure(brackets, {}, side) = Total(g, S)
    BY <2>1 DEF Exposure, g
  <2>8. QED
    BY <2>4, <2>5, <2>6, <2>7
<1>3. Guarded(brackets, {}, pos)
  <2>1. \A side \in BothSides : \A b \in ExposedIn(brackets, {}, side) :
          b \in ExposedIn(brackets, loop.closes, side)
    BY DEF ExposedIn
  <2>2. pos \in Int /\ Guarded(brackets, loop.closes, pos)
    BY TradedIsInt DEF CoverInv
  <2>3. QED
    BY <1>1, <2>1, <2>2, StillGuarded
<1>4. \A n \in Int : Max({0, n}) >= 0 /\ Max({0, n}) >= n /\ Max({0, n}) \in Int
  BY DEF Max
<1>5. pos \in Int /\ -pos \in Int
  BY TradedIsInt
<1>6. \A side \in BothSides :
        Exposure(brackets, {}, side) \in Nat
        /\ Within(Exposure(brackets, {}, side), Held(side, pos))
  BY <1>1, <1>3, ExposedFinite DEF Guarded
<1> HIDE DEF pos
<1>7. Within(Exposure(brackets, {}, "buy"), pos) /\ Within(Exposure(brackets, {}, "sell"), -pos)
  BY <1>6 DEF Held, BothSides
<1>8. /\ Exposure(brackets, {}, "buy") <= Max({0, pos})
      /\ Exposure(brackets, {}, "sell") <= Max({0, -pos})
  BY <1>4, <1>5, <1>6, <1>7 DEF Within, BothSides
<1>9. QED
  BY <1>2, <1>8 DEF BothSides, pos

\* The brackets never watch more than what was traded: for any number of brackets of
\* any quantity, any orders, closes of the pair and DELETEs beside the loop and any
\* restart, until a route commits a fill while another session is open or a bracketed
\* order trades against the position.
THEOREM BracketsWatchAPosition == Spec => []ActiveCovered
<1>1. QED
  BY GuardedCovers, CoverInit, CoverNext, TypedInit, TypedNext, InvInit, InvNext, PTL DEF Spec

-------------------------------------------------------------------------------
(* Trading under a halt *)

\* A halt finds no strategy and no slice on its way, an order was checked before it,
\* and what the loop flattens is what the accounts hold, unless a fill or a DELETE has
\* come in between.
InTime == \A t \in Threads : OnItsWay(t) => ~route[t].late
HaltInv ==
  /\ halted => loop.at \notin {"signal", "slice"}
  /\ InTime
  /\ ~history.overlapped /\ loop.at = "liquidating" =>
       \A s \in Scopes : loop.fills[s] = 0 \/ loop.fills[s] = -account[s].pos

LEMMA RouteKeepsInTime ==
  ASSUME IInv, InTime, NEW t \in Threads,
         \/ CheckOrder(t) \/ FillOrder(t) \/ CommitFills(t) \/ ReadLegs(t) \/ CloseLegs(t)
         \/ DeleteBracket(t) \/ (\E b \in BracketIds : ReadBracket(t, b))
         \/ ReadBar(t) \/ CommitAlgo(t)
  PROVE  InTime'
<1>1. ASSUME NEW r, route' = [route EXCEPT ![t] = r],
             r.op \in {"ordering", "committing"} => ~r.late
      PROVE  InTime'
  <2>1. \A u \in Threads : route'[u] = IF u = t THEN r ELSE route[u]
    BY <1>1 DEF IInv, RouteIsFunction
  <2>2. QED
    BY <1>1, <2>1 DEF InTime, OnItsWay
<1>2. CASE CheckOrder(t)
  <2>1. PICK order \in OrderRequests :
          route' = [route EXCEPT ![t] = Ordering(events + 1, order, Estimate(order), FALSE, halted)]
    BY <1>2 DEF CheckOrder
  <2>2. Ordering(events + 1, order, Estimate(order), FALSE, halted).late = halted /\ ~halted
    BY <1>2 DEF CheckOrder, Ordering
  <2>3. QED
    BY <1>1, <2>1, <2>2
<1>3. CASE FillOrder(t) \/ CloseLegs(t)
  <2>1. ASSUME NEW id, NEW order, NEW estimate, NEW raced, NEW late, NEW fills,
               Answered(t, id, order, estimate, raced, late, fills), ~late
        PROVE  InTime'
    <3> DEFINE answer == IF fills = Nothing THEN Idle
                         ELSE Committing(id, order, estimate, raced, late, fills, price,
                                         ClosedElsewhere(fills[Primary]))
    <3>1. route' = [route EXCEPT ![t] = answer]
      BY <2>1 DEF Answered
    <3>2. answer.op = "idle" \/ answer.late = late
      BY DEF Idle, Committing
    <3> HIDE DEF answer
    <3>3. QED
      BY <1>1, <2>1, <3>1, <3>2
  <2>2. CASE FillOrder(t)
    <3>1. \E fills : Answered(t, route[t].id, route[t].order, route[t].estimate,
                              route[t].raced, route[t].late, fills)
      BY <2>2 DEF FillOrder
    <3>2. ~route[t].late
      BY <2>2 DEF FillOrder, InTime, OnItsWay
    <3>3. QED
      BY <2>1, <3>1, <3>2
  <2>3. CASE CloseLegs(t)
    <3>1. \E fills : Answered(t, 0, NoOrder, 0, TRUE, FALSE, fills)
      BY <2>3 DEF CloseLegs
    <3>2. QED
      BY <2>1, <3>1
  <2>4. QED
    BY <1>3, <2>2, <2>3
<1>4. CASE CommitFills(t)
  <2>1. ASSUME NEW u \in Threads, OnItsWay(u)'
        PROVE  ~route'[u].late
    <3>1. \/ route'[u] = Idle
          \/ route'[u] = route[u]
          \/ OnItsWay(u) /\ route'[u] = Raced(route[u])
      BY <1>4 DEF CommitFills
    <3>2. OnItsWay(u) => Raced(route[u]).late = route[u].late
      BY DEF Raced, Ordering, Committing
    <3>3. CASE route'[u] = Idle
      BY <2>1, <3>3 DEF Idle, OnItsWay
    <3>4. CASE route'[u] = route[u]
      BY <2>1, <3>4 DEF InTime, OnItsWay
    <3>5. CASE OnItsWay(u) /\ route'[u] = Raced(route[u])
      BY <3>2, <3>5 DEF InTime
    <3>6. QED
      BY <3>1, <3>3, <3>4, <3>5
  <2>2. QED
    BY <2>1 DEF InTime
<1>5. CASE ReadLegs(t)
  <2> DEFINE r == [op |-> "unwinding", legs |-> legs]
  <2>1. route' = [route EXCEPT ![t] = r] /\ r.op \notin {"ordering", "committing"}
    BY <1>5 DEF ReadLegs
  <2> HIDE DEF r
  <2>2. QED
    BY <1>1, <2>1
<1>6. CASE \E b \in BracketIds : ReadBracket(t, b)
  BY <1>1, <1>6 DEF ReadBracket
<1>7. CASE ReadBar(t) \/ CommitAlgo(t) \/ DeleteBracket(t)
  <2>1. \E r : route' = [route EXCEPT ![t] = r] /\ r.op \notin {"ordering", "committing"}
    BY <1>7 DEF ReadBar, CommitAlgo, DeleteBracket, Starting, Idle
  <2>2. QED
    BY <1>1, <2>1
<1>8. QED
  BY <1>2, <1>3, <1>4, <1>5, <1>6, <1>7

LEMMA InTimeNext == IInv /\ InTime /\ [Next]_vars => InTime'
<1> SUFFICES ASSUME IInv, InTime, [Next]_vars
             PROVE  InTime'
  OBVIOUS
<1>1. CASE route' = route
  BY <1>1 DEF InTime, OnItsWay
<1>2. CASE Tick
  <2>1. \A t \in Threads :
          route'[t].op \in {"ordering", "committing"} => route'[t] = route[t]
    BY <1>2 DEF Tick, Later, Starting
  <2>2. QED
    BY <2>1 DEF InTime, OnItsWay
<1>3. CASE LoopStep /\ ~Tick
  <2>1. route' = route
    BY <1>3 DEF LoopStep, Signal, NoSignal, CommitSignal, Slice, NoSlice, CommitSlice,
                ReadBrackets, CloseBrackets, ReadPositions, Liquidate, LiquidateWith
  <2>2. QED
    BY <1>1, <2>1
<1>4. CASE \/ UNCHANGED vars \/ ResetHalt \/ (\E s \in Subs : CreateSub(s))
           \/ (\E id \in BracketIds : CancelOrder(id))
  BY <1>1, <1>4 DEF vars, ResetHalt, CreateSub, CancelOrder
<1>5. CASE Restart
  BY <1>5 DEF Restart, Idle, InTime, OnItsWay
<1>6. QED
  BY <1>2, <1>3, <1>4, <1>5, RouteKeepsInTime DEF Next

LEMMA HaltNext == DeskTyped /\ IInv /\ HaltInv /\ [Next]_vars => HaltInv'
<1> SUFFICES ASSUME DeskTyped, IInv, HaltInv, [Next]_vars
             PROVE  HaltInv'
  OBVIOUS
<1>in. InTime'
  BY InTimeNext DEF HaltInv
<1>1. CASE UNCHANGED <<account, halted, loop>> /\ history'.overlapped = history.overlapped
  BY <1>1, <1>in DEF HaltInv, Scopes
<1>2. CASE Tick \/ NoSignal \/ CommitSignal \/ NoSlice \/ CommitSlice \/ ReadBrackets
           \/ CloseBrackets \/ Liquidate
  <2>1. \/ \E at \in {"strategies", "algos", "brackets", "breaker", "tick"} : loop' = Phase(at)
        \/ loop'.at = "closing"
    <3>1. CASE Tick \/ NoSignal \/ NoSlice
      BY <3>1 DEF Tick, NoSignal, NoSlice
    <3>2. CASE CommitSignal \/ CommitSlice
      BY <3>2 DEF CommitSignal, CommitSlice, CommitLoop
    <3>3. CASE CloseBrackets \/ Liquidate
      BY <3>3 DEF CloseBrackets, Liquidate, LiquidateWith
    <3>4. CASE ReadBrackets
      BY <3>4 DEF ReadBrackets, Session
    <3>5. QED
      BY <1>2, <3>1, <3>2, <3>3, <3>4
  <2>2. loop'.at \notin {"signal", "slice", "liquidating"}
    BY <2>1, SessionTyped
  <2>3. QED
    BY <1>in, <2>2 DEF HaltInv
<1>3. CASE Signal \/ Slice
  <2>1. loop'.at \in {"signal", "slice"} /\ ~halted'
    BY <1>3 DEF Signal, Slice, SkipsSlices, Session
  <2>2. QED
    BY <1>in, <2>1 DEF HaltInv
<1>4. CASE ReadPositions
  <2>1. account' = account /\ loop'.at \in {"liquidating", "tick"}
        /\ (loop'.at = "liquidating" =>
              \A s \in Scopes : loop'.fills[s] = 0 \/ loop'.fills[s] = -account[s].pos)
    BY <1>4 DEF ReadPositions, Phase, Session, books
  <2>2. QED
    BY <1>in, <2>1 DEF HaltInv, Scopes
<1>5. ASSUME NEW t \in Threads, CommitFills(t) PROVE HaltInv'
  <2>1. loop' = loop /\ halted' = halted
    BY <1>5 DEF CommitFills
  <2>2. loop.at = "liquidating" => history'.overlapped
    BY <1>5, Zenon DEF CommitFills, History, OpenBeside, LoopIsOpen
  <2>3. QED
    BY <1>in, <2>1, <2>2 DEF HaltInv
<1>6. ASSUME NEW id \in BracketIds, CancelOrder(id) PROVE HaltInv'
  <2>1. loop' = loop /\ halted' = halted
    BY <1>6 DEF CancelOrder
  <2>2. loop.at = "liquidating" => history'.overlapped
    BY <1>6, Zenon DEF CancelOrder, History
  <2>3. QED
    BY <1>in, <2>1, <2>2 DEF HaltInv
<1>7. ASSUME NEW t \in Threads,
             \/ CheckOrder(t) \/ FillOrder(t) \/ ReadLegs(t) \/ CloseLegs(t)
             \/ (\E b \in BracketIds : ReadBracket(t, b)) \/ ReadBar(t) \/ CommitAlgo(t)
      PROVE  HaltInv'
  <2>1. UNCHANGED <<account, halted, loop, history>>
    BY <1>7 DEF CheckOrder, FillOrder, ReadLegs, CloseLegs, ReadBracket, ReadBar, CommitAlgo, books
  <2>2. QED
    BY <1>1, <2>1
<1>8. ASSUME NEW t \in Threads, DeleteBracket(t) PROVE HaltInv'
  BY <1>1, <1>8 DEF DeleteBracket, History, books
<1>9. CASE UNCHANGED vars \/ \E s \in Subs : CreateSub(s)
  BY <1>1, <1>9 DEF vars, CreateSub, books
<1>10. CASE ResetHalt
  BY <1>10, <1>in DEF ResetHalt, books, HaltInv, Scopes
<1>11. CASE Restart
  BY <1>11, <1>in DEF Restart, Phase, Session, HaltInv
<1>12. QED
  BY <1>2, <1>3, <1>4, <1>5, <1>6, <1>7, <1>8, <1>9, <1>10, <1>11 DEF Next, LoopStep

\* Filling a part of what flattens leaves no more.
LEMMA FlatteningReduces ==
  ASSUME NEW pos \in Int, NEW want, want = 0 \/ want = -pos, NEW f \in Between(want)
  PROVE  Magnitude(pos + f) <= Magnitude(pos)
<1>1. f \in Int
  BY BetweenIsInt
<1>2. want \in Int
  OBVIOUS
<1>3. CASE want < 0
  BY <1>1, <1>2, <1>3 DEF Between, Magnitude
<1>4. CASE ~(want < 0)
  BY <1>1, <1>2, <1>4 DEF Between, Magnitude
<1>5. QED
  BY <1>3, <1>4

LEMMA OnlyReduces ==
  ASSUME DeskTyped, DeskTyped', IInv, CoverInv, HaltInv, [Next]_vars,
         halted, ~history'.overlapped, ~history.mixed, RowsTell, RowsTell',
         \A t \in Threads : route[t].op = "committing" => route[t].late \/ Unwinds(route[t])
  PROVE  \A s \in Scopes : Magnitude(account'[s].pos) <= Magnitude(account[s].pos)
<1>rows. \A s \in Scopes : account[s].pos \in Int /\ Magnitude(account[s].pos) \in Int
  BY DEF DeskTyped, AccountOK, Row, Magnitude
<1>1. CASE account' = account
  BY <1>rows, <1>1
<1>2. CASE CommitSignal \/ CommitSlice
  BY <1>2 DEF CommitSignal, CommitSlice, HaltInv
<1>3. CASE CloseBrackets
  <2>1. PICK signed :
          /\ \A b \in loop.closes : signed[b] \in Int
          /\ account' = Booked(OnPrimary(Total(signed, loop.closes)), price)
          /\ history' = Unheld(\E b \in loop.closes : signed[b] > 0)
    BY <1>3, ClosingFills
  <2> DEFINE net == Total(signed, loop.closes)
  <2>2. Clean
    BY <2>1 DEF Clean, Unheld, History
  <2>3. Magnitude(account'[Primary].pos) <= Magnitude(account[Primary].pos)
    <3>1. Magnitude(Traded') <= Magnitude(Traded)
      BY <1>3, <2>2, ClosingOrdersKeepCover
    <3>2. Traded = account[Primary].pos
      BY TradedIsInt DEF Traded, RowsTell
    <3>3. Traded' = account'[Primary].pos
      BY DEF Traded, RowsTell, DeskTyped, AccountOK, Row, Scopes
    <3>4. QED
      BY <3>1, <3>2, <3>3
  <2>4. net \in Int
    BY <2>1, ClosingNet
  <2>5. account' = Booked(OnPrimary(net), price)
    BY <2>1
  <2> HIDE DEF net
  <2>6. \A s \in Scopes \ {Primary} : account'[s].pos = account[s].pos + 0
    BY <2>4, <2>5, PrimaryOnly, PriceIsNat, BookedRows DEF DeskTyped
  <2>7. QED
    BY <1>rows, <2>3, <2>6
<1>4. CASE Liquidate
  <2>1. PICK fills \in Fillable(loop.fills) : LiquidateWith(fills)
    BY <1>4 DEF Liquidate
  <2>2. /\ account' = Booked(fills, price) /\ ~history.overlapped /\ loop.at = "liquidating"
    BY <2>1 DEF LiquidateWith, Unheld, History
  <2>3. fills \in [Scopes -> Int] /\ \A s \in Scopes : fills[s] \in Between(loop.fills[s])
    BY FillableIsInt
  <2>4. \A s \in Scopes : account'[s].pos = account[s].pos + fills[s]
    BY <2>2, <2>3, PriceIsNat, BookedRows DEF DeskTyped
  <2>5. \A s \in Scopes : loop.fills[s] = 0 \/ loop.fills[s] = -account[s].pos
    BY <2>2 DEF HaltInv
  <2>6. \A s \in Scopes : Magnitude(account[s].pos + fills[s]) <= Magnitude(account[s].pos)
    BY <1>rows, <2>3, <2>5, FlatteningReduces
  <2>7. QED
    BY <2>4, <2>6
<1>5. CASE Tick \/ Signal \/ NoSignal \/ Slice \/ NoSlice \/ ReadBrackets \/ ReadPositions
  BY <1>1, <1>5 DEF Tick, Signal, NoSignal, Slice, NoSlice, ReadBrackets, ReadPositions, books
<1>6. ASSUME NEW t \in Threads, CommitFills(t)
      PROVE  \A s \in Scopes : Magnitude(account'[s].pos) <= Magnitude(account[s].pos)
  <2>1. /\ route[t].op = "committing" /\ account' = Booked(route[t].fills, route[t].px)
        /\ route[t].fills \in [Scopes -> Int] /\ route[t].px \in Nat
    BY <1>6, CommittedFills DEF CommitFills
  <2>2. ~route[t].late
    BY <2>1 DEF HaltInv, InTime, OnItsWay
  <2>3. \A s \in Scopes : route[t].fills[s] \in Between(-account[s].pos)
    BY <2>1, <2>2 DEF Unwinds
  <2>4. \A s \in Scopes : account'[s].pos = account[s].pos + route[t].fills[s]
    BY <2>1, BookedRows DEF DeskTyped
  <2>5. \A s \in Scopes :
          Magnitude(account[s].pos + route[t].fills[s]) <= Magnitude(account[s].pos)
    BY <1>rows, <2>3, FlatteningReduces
  <2>6. QED
    BY <2>4, <2>5
<1>7. ASSUME NEW id \in BracketIds, CancelOrder(id) PROVE FALSE
  <2>1. dropped'.pos = dropped.pos + rests[id].pos /\ rests[id].pos # 0
    BY <1>7 DEF CancelOrder, Dropped
  <2>2. rests[id].pos \in Int
    BY DEF DeskTyped, DropsOK, Row
  <2>3. QED
    BY <2>1, <2>2 DEF RowsTell
<1>8. ASSUME NEW t \in Threads,
             \/ CheckOrder(t) \/ FillOrder(t) \/ ReadLegs(t) \/ CloseLegs(t) \/ DeleteBracket(t)
             \/ (\E b \in BracketIds : ReadBracket(t, b)) \/ ReadBar(t) \/ CommitAlgo(t)
      PROVE  account' = account
  BY <1>8 DEF CheckOrder, FillOrder, ReadLegs, CloseLegs, DeleteBracket, ReadBracket, ReadBar,
              CommitAlgo, books
<1>9. CASE UNCHANGED vars \/ ResetHalt \/ Restart \/ \E s \in Subs : CreateSub(s)
  BY <1>1, <1>9 DEF vars, ResetHalt, Restart, CreateSub, books
<1>10. QED
  BY <1>1, <1>2, <1>3, <1>4, <1>5, <1>6, <1>7, <1>8, <1>9 DEF Next, LoopStep

\* Under a halt no position grows, in any scope: no strategy and no slice is on its way
\* when the halt is read, every order still on its way was checked before it, brackets
\* close no more than the position they watch, and what the loop flattens is what it
\* read.  An order that was checked before, a close of the pair, and rows a DELETE
\* dropped a fill from are the exceptions.
THEOREM HaltsOnlyReduce == Spec => HaltOnlyReduces
<1>1. Init => HaltInv
  BY DEF Init, HaltInv, InTime, OnItsWay, Idle, Phase, Session
<1>2. DeskTyped /\ DeskTyped' /\ IInv /\ CoverInv /\ HaltInv /\ [Next]_vars
        => [halted /\ ~history.overlapped' /\ ~history.mixed /\ RowsTell /\ RowsTell'
              /\ (\A t \in Threads :
                    route[t].op = "committing" => route[t].late \/ Unwinds(route[t]))
            => \A s \in Scopes : Magnitude(account'[s].pos) <= Magnitude(account[s].pos)]_vars
  BY OnlyReduces
<1>3. QED
  BY <1>1, <1>2, HaltNext, CoverInit, CoverNext, TypedInit, TypedNext, InvInit, InvNext, PTL
     DEF Spec, HaltOnlyReduces
===============================================================================
