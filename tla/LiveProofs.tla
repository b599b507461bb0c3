------------------------------ MODULE LiveProofs ------------------------------
(* Theorems about the three services of the live side: the orders of a broker *)
(* session (LiveOrder), for any orders, any number of threads and any number  *)
(* of placements; the shared feed (LiveFeed), for any number of clients and   *)
(* of feeds; and the instrument master (Instruments), for any number of       *)
(* readers and of days.  They share no variable, and neither do the proofs.   *)
EXTENDS LiveOrder, LiveFeed, Instruments, FiniteSetTheorems, SequenceTheorems, TLAPS

-----------------------------------------------------------------------------
(* LiveOrder: types                                                         *)

States == {"working", "filled", "cancelled"}
Stages == {"none", "lock"} \union Trying
Contexts == [at : Places, order : Orders, ref : Nat, barred : BOOLEAN, stage : Stages]

\* The thread h goes on with c, and no other thread moves.
Moves(h, c) == handler' = [handler EXCEPT ![h] = c]

LEMMA IdleContext == Idle \in Contexts /\ Idle.at = "idle" /\ Idle.stage = "none" /\ Idle.ref = 0
                     /\ Idle.barred = FALSE
BY LiveAssumption DEF Idle, Contexts, Places, Stages

\* The requests to the broker, of which the threads wait for an answer.
Asking == {"resolve", "place", "withdraw"}

\* What may become of a request that failed.
LEMMA Failing ==
  ASSUME NEW h \in Handlers, NEW limited \in BOOLEAN, TypeOK,
         handler[h].stage \in Trying, Fail(h, limited)
  PROVE  \/ Moves(h, Idle) /\ handler[h].at = "withdraw"
         \/ Goto(h, "reject") /\ handler[h].at \in {"resolve", "place"}
         \/ \E s \in Stages : Stay(h, s)
<1>1. handler[h].at \in Asking
  BY DEF TypeOK, Asking, Trying, Locked
<1>2. CASE AfterFailure(handler[h].stage, limited) = "raise"
  BY <1>1, <1>2 DEF Fail, Raised, Return, Moves, Asking
<1>3. CASE AfterFailure(handler[h].stage, limited) # "raise"
  <2>1. AfterFailure(handler[h].stage, limited) \in Stages
    BY <1>3 DEF AfterFailure, Stages, Trying, Locked
  <2>2. QED
    BY <1>3, <2>1 DEF Fail
<1>4. QED
  BY <1>2, <1>3

\* What a step of a route may come to. Most steps only move the thread on.
Thinks(h) == /\ \/ Moves(h, Idle) /\ handler[h].at \in {"halt", "resolve", "withdraw"}
                \/ Goto(h, "resolve") /\ handler[h].at = "halt" /\ ~halted
                \/ Goto(h, "place") /\ handler[h].at = "resolve"
                \/ Goto(h, "reject") /\ handler[h].at \in {"resolve", "place"}
                \/ \E s \in Stages : Stay(h, s) /\ handler[h].at \in Asking
             /\ UNCHANGED <<rows, placed, halted, doubt>>
Taken(h) == /\ handler[h].at = "place" /\ Accept(h)
            /\ Become(h, "submit", "none", Len(placed) + 1)
            /\ UNCHANGED <<rows, halted, doubt>>
Withdrawn(h) == /\ handler[h].at = "withdraw" /\ Withdraw(h)
                /\ Goto(h, "withdrawn")
                /\ UNCHANGED <<rows, halted, doubt>>
Lost(h) == /\ \/ handler[h].at = "place" /\ Accept(h)
              \/ handler[h].at = "withdraw" /\ Withdraw(h)
           /\ doubt' = doubt \union {handler[h].order}
           /\ \/ Moves(h, Idle)
              \/ Goto(h, "reject") /\ handler[h].at = "place"
              \/ \E s \in Stages : Stay(h, s) /\ handler[h].at \in Asking
           /\ UNCHANGED <<rows, halted>>

LEMMA Outcomes ==
  ASSUME NEW h \in Handlers, TypeOK, Attempt(h)
  PROVE  /\ Thinks(h) \/ Taken(h) \/ Withdrawn(h) \/ Lost(h)
         /\ session' \in Sessions /\ feed' = feed
<1>1. /\ handler[h].stage \in Trying /\ handler[h].at \in Asking
      /\ UNCHANGED <<rows, feed, halted>>
  BY DEF TypeOK, Attempt, Asking, Trying, Locked
<1>2. session' \in Sessions
  BY <1>1 DEF Attempt, TypeOK, Renewed, AfterLogin, Sessions, Trying, Locked
<1>3. CASE NotTaken(h) \/ RateLimited(h)
  <2>1. (Fail(h, FALSE) \/ Fail(h, TRUE)) /\ UNCHANGED <<placed, doubt>>
    BY <1>3 DEF NotTaken, RateLimited
  <2>2. Thinks(h)
    BY <1>1, <2>1, Failing DEF Thinks
  <2>3. QED
    BY <1>1, <1>2, <2>2
<1>4. CASE LoseAnswer(h)
  <2>1. Fail(h, FALSE)
    BY <1>4 DEF LoseAnswer
  <2>2. Lost(h)
    BY <1>1, <1>4, <2>1, Failing DEF Lost, LoseAnswer
  <2>3. QED
    BY <1>1, <1>2, <2>2
<1>5. CASE Answer(h)
  <2>1. Thinks(h) \/ Taken(h) \/ Withdrawn(h)
    BY <1>1, <1>5 DEF Answer, Thinks, Taken, Withdrawn, Refusal, Return, Moves
  <2>2. QED
    BY <1>1, <1>2, <2>1
<1>6. QED
  BY <1>3, <1>4, <1>5 DEF Attempt

LEMMA Steps ==
  ASSUME NEW h \in Handlers, TypeOK, Step(h)
  PROVE  /\ \/ Thinks(h) \/ Taken(h) \/ Withdrawn(h) \/ Lost(h)
            \/ Commit(h) \/ CommitFails(h)
         /\ session' \in Sessions /\ feed' = feed
<1>1. session \in Sessions
  BY DEF TypeOK
<1>2. CASE CheckHalt(h)
  BY <1>1, <1>2 DEF CheckHalt, MayDispatch, Thinks, Return, Moves
<1>3. CASE NoAdapter(h)
  BY <1>1, <1>3 DEF NoAdapter, Thinks, Return, Moves
<1>4. CASE ResolveLocally(h)
  BY <1>1, <1>4 DEF ResolveLocally, Thinks
<1>5. CASE EnterCall(h)
  <2>1. \E s \in Stages : Stay(h, s)
    BY <1>5 DEF EnterCall, Stages, Trying
  <2>2. QED
    BY <1>1, <1>5, <2>1 DEF EnterCall, Thinks, Asking
<1>6. CASE TakeLock(h)
  <2>1. \E s \in Stages : Stay(h, s)
    BY <1>6 DEF TakeLock, Stages, Trying, Locked
  <2>2. handler[h].at \in Asking
    BY <1>6 DEF TakeLock, TypeOK, Asking
  <2>3. QED
    BY <1>1, <1>6, <2>1, <2>2 DEF TakeLock, Thinks
<1>7. CASE Attempt(h)
  BY <1>7, Outcomes
<1>8. CASE Commit(h)
  BY <1>1, <1>8 DEF Commit
<1>9. CASE CommitFails(h)
  BY <1>1, <1>9 DEF CommitFails
<1>10. QED
  BY <1>2, <1>3, <1>4, <1>5, <1>6, <1>7, <1>8, <1>9 DEF Step, InCall

-----------------------------------------------------------------------------
(* What the broker has                                                     *)

Placements == [order : Orders, state : States]

LEMMA Accepting ==
  ASSUME NEW h \in Handlers, NEW w \in Orders, handler[h].order = w, TypeOK, Accept(h)
  PROVE  /\ placed' \in Seq(Placements) /\ Len(placed') = Len(placed) + 1
         /\ Len(placed) + 1 \in PlacedFor(w)'
         /\ \A o \in Orders : PlacedFor(o) \subseteq PlacedFor(o)'
         /\ \A o \in Orders : o # w =>
              PlacedFor(o)' = PlacedFor(o) /\ WorkingFor(o)' = WorkingFor(o)
         /\ PlacedFor(w) = {} => PlacedFor(w)' = {Len(placed) + 1}
<1> DEFINE p == [order |-> w, state |-> "working"]
           n == Len(placed) + 1
<1>1. placed \in Seq(Placements) /\ p \in Placements /\ placed' = Append(placed, p)
  BY DEF TypeOK, Accept, Placements, States
<1>2. /\ placed' \in Seq(Placements) /\ Len(placed') = n
      /\ Len(placed) \in Nat
      /\ DOMAIN placed = 1 .. Len(placed) /\ DOMAIN placed' = 1 .. Len(placed) + 1
      /\ \A i \in 1 .. Len(placed) : placed'[i] = placed[i]
      /\ placed'[n] = p
  BY <1>1
<1>3. DOMAIN placed' = DOMAIN placed \union {n} /\ n \notin DOMAIN placed
  BY <1>2
<1>5. p.order = w
  OBVIOUS
<1>6. \A i \in DOMAIN placed : placed'[i] = placed[i]
  BY <1>2
<1>7. placed'[n].order = w
  BY <1>2, <1>5
<1> HIDE DEF p, n
<1>8. ASSUME NEW o \in Orders, o # w
      PROVE  PlacedFor(o)' = PlacedFor(o)
  BY <1>3, <1>6, <1>7, <1>8 DEF PlacedFor
<1>9. ASSUME NEW o \in Orders, o # w
      PROVE  WorkingFor(o)' = WorkingFor(o)
  BY <1>6, <1>8, <1>9 DEF WorkingFor, PlacedFor
<1>10. PlacedFor(w)' = PlacedFor(w) \union {n}
  BY <1>3, <1>6, <1>7 DEF PlacedFor
<1>11. \A o \in Orders : PlacedFor(o) \subseteq PlacedFor(o)'
  BY <1>8, <1>10
<1>12. n \in PlacedFor(w)' /\ (PlacedFor(w) = {} => PlacedFor(w)' = {n})
  BY <1>10
<1>13. QED
  BY <1>2, <1>8, <1>9, <1>11, <1>12 DEF n

LEMMA Marking ==
  ASSUME NEW i \in DOMAIN placed, NEW s \in {"filled", "cancelled"}, TypeOK,
         placed' = Marked(i, s)
  PROVE  /\ placed' \in Seq(Placements) /\ Len(placed') = Len(placed)
         /\ \A o \in Orders : /\ PlacedFor(o)' = PlacedFor(o)
                              /\ WorkingFor(o)' = WorkingFor(o) \ {i}
<1>1. placed \in Seq(Placements) /\ placed[i] \in Placements
  <2>1. placed \in Seq(Placements)
    BY DEF TypeOK, Placements, States
  <2>2. QED
    BY <2>1
<1>2. [order |-> placed[i].order, state |-> s] \in Placements
  <2>1. placed[i].order \in Orders /\ s \in States
    BY <1>1 DEF Placements, States
  <2>2. QED
    BY <2>1 DEF Placements
<1>3. /\ placed' \in Seq(Placements) /\ Len(placed') = Len(placed)
      /\ DOMAIN placed' = DOMAIN placed
      /\ \A j \in DOMAIN placed : j # i => placed'[j] = placed[j]
      /\ placed'[i] = [order |-> placed[i].order, state |-> s]
  BY <1>1, <1>2 DEF Marked
<1>4. \A j \in DOMAIN placed : placed'[j].order = placed[j].order
  BY <1>3
<1>5. \A o \in Orders : PlacedFor(o)' = PlacedFor(o)
  BY <1>3, <1>4 DEF PlacedFor
<1>6. placed'[i].state # "working"
  BY <1>3
<1>7. \A j \in DOMAIN placed : j # i => (placed'[j].state = "working" <=> placed[j].state = "working")
  BY <1>3
<1>8. \A o \in Orders : WorkingFor(o)' = {j \in PlacedFor(o) : placed'[j].state = "working"}
  BY <1>5 DEF WorkingFor
<1>9. \A o \in Orders : WorkingFor(o)' = WorkingFor(o) \ {i}
  BY <1>6, <1>7, <1>8 DEF WorkingFor, PlacedFor
<1>10. QED
  BY <1>3, <1>5, <1>9

LEMMA Withdrawing ==
  ASSUME NEW h \in Handlers, TypeOK, Withdraw(h)
  PROVE  /\ handler[h].ref \in WorkingFor(handler[h].order)
         /\ placed' \in Seq(Placements) /\ Len(placed') = Len(placed)
         /\ \A o \in Orders : /\ PlacedFor(o)' = PlacedFor(o)
                              /\ WorkingFor(o)' = WorkingFor(o) \ {handler[h].ref}
<1>1. handler[h].ref \in WorkingFor(handler[h].order) /\ placed' = Marked(handler[h].ref, "cancelled")
  BY DEF Withdraw, Withdrawable
<1>2. handler[h].ref \in DOMAIN placed
  BY <1>1 DEF WorkingFor, PlacedFor
<1> DEFINE i == handler[h].ref
<1>3. i \in DOMAIN placed /\ placed' = Marked(i, "cancelled")
  BY <1>1, <1>2
<1> HIDE DEF i
<1>4. /\ placed' \in Seq(Placements) /\ Len(placed') = Len(placed)
      /\ \A o \in Orders : PlacedFor(o)' = PlacedFor(o) /\ WorkingFor(o)' = WorkingFor(o) \ {i}
  BY <1>3, Marking
<1>5. QED
  BY <1>1, <1>4 DEF i

-----------------------------------------------------------------------------
(* Type correctness                                                        *)

\* What TypeOK says of one thread when the broker has n orders.
ThreadOK(c, n) == c \in Contexts /\ c.ref <= n /\ (c.stage # "none" => c.at \in Asking)
Table == [Orders -> [status : Statuses, ref : Nat]]

LEMMA TypeParts ==
  TypeOK <=> /\ rows \in Table /\ placed \in Seq(Placements)
             /\ handler \in [Handlers -> Contexts]
             /\ session \in Sessions /\ feed \in {"idle", "login"}
             /\ halted \in BOOLEAN /\ doubt \subseteq Orders
             /\ \A o \in Orders : rows[o].ref <= Len(placed)
             /\ \A h \in Handlers : ThreadOK(handler[h], Len(placed))
BY DEF TypeOK, Table, Placements, States, Contexts, Stages, ThreadOK, Asking

LEMMA TypePartsNext ==
  ASSUME rows' \in Table, placed' \in Seq(Placements), handler' \in [Handlers -> Contexts],
         session' \in Sessions, feed' \in {"idle", "login"}, halted' \in BOOLEAN,
         doubt' \subseteq Orders, \A o \in Orders : rows'[o].ref <= Len(placed'),
         \A h \in Handlers : ThreadOK(handler'[h], Len(placed'))
  PROVE  TypeOK'
BY DEF TypeOK, Table, Placements, States, Contexts, Stages, ThreadOK, Asking

\* A thread of that type may move; the others keep theirs while the broker's
\* orders only grow in number.
LEMMA MovesOK ==
  ASSUME NEW h \in Handlers, NEW c, TypeOK, Moves(h, c),
         placed' \in Seq(Placements), Len(placed) <= Len(placed'), ThreadOK(c, Len(placed'))
  PROVE  /\ handler' \in [Handlers -> Contexts]
         /\ \A g \in Handlers : ThreadOK(handler'[g], Len(placed'))
         /\ \A o \in Orders : rows[o].ref <= Len(placed')
<1>1. /\ handler \in [Handlers -> Contexts] /\ Len(placed) \in Nat /\ rows \in Table
      /\ \A g \in Handlers : ThreadOK(handler[g], Len(placed))
      /\ \A o \in Orders : rows[o].ref <= Len(placed)
  BY TypeParts
<1>2. Len(placed') \in Nat
  OBVIOUS
<1>3. /\ handler'[h] = c
      /\ \A g \in Handlers : g # h => handler'[g] = handler[g]
      /\ handler' \in [Handlers -> Contexts]
  BY <1>1 DEF Moves, ThreadOK
<1>4. ASSUME NEW g \in Handlers, g # h
      PROVE  ThreadOK(handler'[g], Len(placed'))
  <2>1. handler[g].ref \in Nat
    BY <1>1 DEF Contexts
  <2>2. handler[g].ref <= Len(placed')
    BY <1>1, <1>2, <2>1 DEF ThreadOK
  <2>3. QED
    BY <1>1, <1>3, <1>4, <2>2 DEF ThreadOK
<1>5. ASSUME NEW o \in Orders
      PROVE  rows[o].ref <= Len(placed')
  <2>1. rows[o].ref \in Nat
    BY <1>1 DEF Table
  <2>2. QED
    BY <1>1, <1>2, <2>1
<1>6. QED
  BY <1>3, <1>4, <1>5

LEMMA BecomeOK ==
  ASSUME NEW h \in Handlers, NEW at \in Places, NEW stage \in Stages, NEW ref \in Nat,
         TypeOK, Become(h, at, stage, ref), NEW n \in Nat, ref <= n,
         stage # "none" => at \in Asking
  PROVE  \E c : Moves(h, c) /\ ThreadOK(c, n)
<1> DEFINE c == [at |-> at, order |-> handler[h].order, stage |-> stage,
                 ref |-> ref, barred |-> handler[h].barred]
<1>1. handler[h].order \in Orders /\ handler[h].barred \in BOOLEAN
  BY DEF TypeOK
<1>2. c \in Contexts
  BY <1>1 DEF Contexts
<1>3. Moves(h, c)
  BY DEF Become, Moves
<1>4. QED
  BY <1>2, <1>3 DEF ThreadOK

\* The parts of TypeOK that a step of a route leaves or restores.
LEMMA GotoOK ==
  ASSUME NEW h \in Handlers, NEW at \in Places, NEW n \in Nat, TypeOK, Len(placed) <= n,
         Goto(h, at)
  PROVE  \E c : Moves(h, c) /\ ThreadOK(c, n)
<1>1. handler[h].ref \in Nat /\ handler[h].ref <= Len(placed) /\ Len(placed) \in Nat
  BY DEF TypeOK
<1>2. handler[h].ref <= n /\ "none" \in Stages
  BY <1>1 DEF Stages
<1> DEFINE r == handler[h].ref
<1>3. r \in Nat /\ r <= n /\ Become(h, at, "none", r)
  BY <1>1, <1>2 DEF Goto
<1> HIDE DEF r
<1>4. QED
  BY <1>2, <1>3, BecomeOK

LEMMA StayOK ==
  ASSUME NEW h \in Handlers, NEW s \in Stages, NEW n \in Nat, TypeOK, Len(placed) <= n,
         Stay(h, s), handler[h].at \in Asking
  PROVE  \E c : Moves(h, c) /\ ThreadOK(c, n)
<1>1. handler[h].ref \in Nat /\ handler[h].ref <= Len(placed) /\ Len(placed) \in Nat
      /\ handler[h].at \in Places
  BY DEF TypeOK
<1>2. handler[h].ref <= n
  BY <1>1
<1> DEFINE r == handler[h].ref
           a == handler[h].at
<1>3. r \in Nat /\ r <= n /\ a \in Places /\ a \in Asking /\ Become(h, a, s, r)
  BY <1>1, <1>2 DEF Stay
<1> HIDE DEF r, a
<1>4. QED
  BY <1>3, BecomeOK

LEMMA IdleOK ==
  ASSUME NEW h \in Handlers, NEW n \in Nat, Moves(h, Idle)
  PROVE  \E c : Moves(h, c) /\ ThreadOK(c, n)
BY IdleContext DEF ThreadOK

LEMMA ThreadMoves ==
  ASSUME NEW h \in Handlers, TypeOK,
         Thinks(h) \/ Taken(h) \/ Withdrawn(h) \/ Lost(h)
  PROVE  /\ placed' \in Seq(Placements) /\ Len(placed) <= Len(placed')
         /\ \E c : Moves(h, c) /\ ThreadOK(c, Len(placed'))
<1>1. placed \in Seq(Placements) /\ Len(placed) \in Nat
  BY TypeParts
<1>2. PICK w \in Orders : handler[h].order = w
  BY DEF TypeOK
<1>3. Accept(h) => placed' \in Seq(Placements) /\ Len(placed') = Len(placed) + 1
  BY <1>2, Accepting
<1>4. Withdraw(h) => placed' \in Seq(Placements) /\ Len(placed') = Len(placed)
  BY Withdrawing
<1>5. CASE Thinks(h)
  <2>1. placed' = placed
    BY <1>5 DEF Thinks
  <2> DEFINE n == Len(placed)
  <2>2. n \in Nat /\ Len(placed) <= n
    BY <1>1
  <2> HIDE DEF n
  <2>3. {"resolve", "place", "reject"} \subseteq Places
    BY DEF Places
  <2>4. \E c : Moves(h, c) /\ ThreadOK(c, n)
    BY <1>5, <2>2, <2>3, GotoOK, StayOK, IdleOK DEF Thinks
  <2>5. QED
    BY <1>1, <2>1, <2>2, <2>4 DEF n
<1>6. CASE Taken(h)
  <2>1. placed' \in Seq(Placements) /\ Len(placed') = Len(placed) + 1
    BY <1>3, <1>6 DEF Taken
  <2> DEFINE n == Len(placed) + 1
  <2>2. n \in Nat /\ n <= n /\ Become(h, "submit", "none", n)
    BY <1>1, <1>6 DEF Taken
  <2> HIDE DEF n
  <2>3. \E c : Moves(h, c) /\ ThreadOK(c, n)
    BY <2>2, BecomeOK DEF Places, Stages
  <2>4. QED
    BY <1>1, <2>1, <2>3 DEF n
<1>7. CASE Withdrawn(h)
  <2>1. placed' \in Seq(Placements) /\ Len(placed') = Len(placed)
    BY <1>4, <1>7 DEF Withdrawn
  <2> DEFINE n == Len(placed)
  <2>2. n \in Nat /\ Len(placed) <= n /\ Goto(h, "withdrawn")
    BY <1>1, <1>7 DEF Withdrawn
  <2> HIDE DEF n
  <2>3. \E c : Moves(h, c) /\ ThreadOK(c, n)
    BY <2>2, GotoOK DEF Places
  <2>4. QED
    BY <1>1, <2>1, <2>3 DEF n
<1>8. CASE Lost(h)
  <2>1. /\ placed' \in Seq(Placements)
        /\ Len(placed') = Len(placed) \/ Len(placed') = Len(placed) + 1
    BY <1>3, <1>4, <1>8 DEF Lost
  <2>2. PICK n \in Nat : n = Len(placed')
    BY <1>1, <2>1
  <2>3. Len(placed) <= n
    BY <1>1, <2>1, <2>2
  <2>4. \E c : Moves(h, c) /\ ThreadOK(c, n)
    BY <1>8, <2>3, GotoOK, StayOK, IdleOK DEF Lost, Places
  <2>5. QED
    BY <2>1, <2>2, <2>3, <2>4
<1>9. QED
  BY <1>5, <1>6, <1>7, <1>8

LEMMA TypeStep == TypeOK /\ [Next]_vars => TypeOK'
<1> SUFFICES ASSUME TypeOK, [Next]_vars PROVE TypeOK'
  OBVIOUS
<1>1. /\ rows \in Table /\ placed \in Seq(Placements) /\ Len(placed) \in Nat
      /\ handler \in [Handlers -> Contexts]
      /\ session \in Sessions /\ feed \in {"idle", "login"}
      /\ halted \in BOOLEAN /\ doubt \subseteq Orders
      /\ \A o \in Orders : rows[o].ref <= Len(placed)
      /\ \A h \in Handlers : ThreadOK(handler[h], Len(placed)) /\ handler[h].order \in Orders
  BY TypeParts DEF Contexts
<1>2. ASSUME NEW o \in Orders, SubmitLive(o) PROVE TypeOK'
  <2>1. rows' \in Table /\ \A p \in Orders : rows'[p].ref <= Len(placed)
    BY <1>1, <1>2 DEF SubmitLive, Table, Statuses
  <2>2. QED
    BY <1>1, <1>2, <2>1, TypePartsNext DEF SubmitLive
<1>3. ASSUME NEW h \in Handlers, NEW o \in Orders, NEW at \in {"halt", "flip", "withdraw"},
             Begin(h, o, at)
      PROVE  TypeOK'
  <2> DEFINE c == [at |-> at, order |-> o, stage |-> "none", ref |-> rows[o].ref, barred |-> halted]
  <2>1. rows[o].ref \in Nat /\ rows[o].ref <= Len(placed)
    BY <1>1 DEF Table
  <2>2. at \in Places /\ "none" \in Stages
    BY DEF Places, Stages
  <2>3. ThreadOK(c, Len(placed)) /\ Moves(h, c)
    BY <1>1, <1>3, <2>1, <2>2 DEF Begin, Moves, ThreadOK, Contexts
  <2>4. placed' = placed /\ Len(placed) <= Len(placed') /\ doubt' \subseteq Orders
    BY <1>1, <1>3 DEF Begin
  <2> HIDE DEF c
  <2>5. PICK k : k = c
    OBVIOUS
  <2>6. ThreadOK(k, Len(placed')) /\ Moves(h, k)
    BY <2>3, <2>4, <2>5
  <2>7. handler' \in [Handlers -> Contexts] /\ \A g \in Handlers : ThreadOK(handler'[g], Len(placed'))
    BY <1>1, <2>4, <2>6, MovesOK
  <2>8. QED
    BY <1>1, <1>3, <2>4, <2>7, TypePartsNext DEF Begin
<1>4. ASSUME NEW h \in Handlers, Step(h) PROVE TypeOK'
  <2>1. session' \in Sessions /\ feed' = feed
    BY <1>4, Steps
  <2>2. CASE Thinks(h) \/ Taken(h) \/ Withdrawn(h) \/ Lost(h)
    <3>1. PICK c : Moves(h, c) /\ ThreadOK(c, Len(placed'))
      BY <2>2, ThreadMoves
    <3>2. placed' \in Seq(Placements) /\ Len(placed) <= Len(placed')
      BY <2>2, ThreadMoves
    <3>3. /\ handler' \in [Handlers -> Contexts]
          /\ \A g \in Handlers : ThreadOK(handler'[g], Len(placed'))
          /\ \A o \in Orders : rows[o].ref <= Len(placed')
      BY <3>1, <3>2, MovesOK
    <3>4. rows' = rows /\ halted' = halted /\ doubt' \subseteq Orders
      BY <1>1, <2>2 DEF Thinks, Taken, Withdrawn, Lost
    <3>5. QED
      BY <1>1, <2>1, <3>2, <3>3, <3>4, TypePartsNext
  <2>3. CASE Commit(h) \/ CommitFails(h)
    <3>1. Moves(h, Idle) /\ placed' = placed /\ halted' = halted /\ doubt' \subseteq Orders
      BY <1>1, <2>3 DEF Commit, CommitFails, Return, Moves, CutOff
    <3>2. PICK c : Moves(h, c) /\ ThreadOK(c, Len(placed))
      BY <1>1, <3>1, IdleOK
    <3>3. /\ handler' \in [Handlers -> Contexts]
          /\ \A g \in Handlers : ThreadOK(handler'[g], Len(placed'))
      BY <1>1, <3>1, <3>2, MovesOK
    <3>4. rows' \in Table /\ \A o \in Orders : rows'[o].ref <= Len(placed)
      <4>1. CASE Commit(h)
        <5>1. Written(h) \in [status : Statuses, ref : Nat] /\ Written(h).ref <= Len(placed)
          <6>1. rows[handler[h].order].ref \in Nat /\ rows[handler[h].order].ref <= Len(placed)
            BY <1>1 DEF Table
          <6>2. handler[h].ref \in Nat /\ handler[h].ref <= Len(placed)
            BY <1>1 DEF ThreadOK, Contexts
          <6>3. QED
            BY <4>1, <6>1, <6>2 DEF Commit, Written, Statuses
        <5>2. rows' = [rows EXCEPT ![handler[h].order] = Written(h)]
          BY <4>1 DEF Commit
        <5>3. QED
          BY <1>1, <5>1, <5>2 DEF Table
      <4>2. CASE CommitFails(h)
        BY <1>1, <4>2 DEF CommitFails
      <4>3. QED
        BY <2>3, <4>1, <4>2
    <3>5. QED
      BY <1>1, <2>1, <3>1, <3>3, <3>4, TypePartsNext
  <2>4. QED
    BY <1>4, <2>2, <2>3, Steps
<1>5. CASE EnsureSession \/ FeedLogin \/ Expire \/ Trip
  <2>1. UNCHANGED <<rows, placed, handler, doubt>>
    BY <1>5 DEF EnsureSession, FeedLogin, Expire, Trip
  <2>2. session' \in Sessions /\ feed' \in {"idle", "login"} /\ halted' \in BOOLEAN
    BY <1>1, <1>5 DEF EnsureSession, FeedLogin, Expire, Trip, AfterLogin, Sessions
  <2>3. QED
    BY <1>1, <2>1, <2>2, TypePartsNext
<1>6. ASSUME NEW i \in DOMAIN placed, Fill(i) PROVE TypeOK'
  <2>1. placed' \in Seq(Placements) /\ Len(placed') = Len(placed)
    BY <1>6, Marking DEF Fill
  <2>2. QED
    BY <1>1, <1>6, <2>1, TypePartsNext DEF Fill
<1>7. CASE ResetHalt
  <2>1. ASSUME NEW h \in Handlers
        PROVE  handler'[h] \in Contexts /\ ThreadOK(handler'[h], Len(placed))
    <3>1. handler'[h] = [handler[h] EXCEPT !.barred = FALSE] /\ handler[h] \in Contexts
      BY <1>1, <1>7 DEF ResetHalt
    <3>2. /\ handler'[h] \in Contexts /\ handler'[h].ref = handler[h].ref
          /\ handler'[h].stage = handler[h].stage /\ handler'[h].at = handler[h].at
      BY <3>1 DEF Contexts
    <3>3. QED
      BY <1>1, <3>2 DEF ThreadOK
  <2>2. handler' \in [Handlers -> Contexts]
    BY <1>7, <2>1 DEF ResetHalt
  <2>3. UNCHANGED <<rows, placed, session, feed, doubt>> /\ halted' \in BOOLEAN
    BY <1>7 DEF ResetHalt
  <2>4. QED
    BY <1>1, <2>1, <2>2, <2>3, TypePartsNext
<1>8. CASE Crash
  <2>1. /\ UNCHANGED <<rows, placed, halted>> /\ session' = "none" /\ feed' = "idle"
        /\ handler' = [h \in Handlers |-> Idle] /\ doubt' \subseteq Orders
    BY <1>1, <1>8 DEF Crash, CutOff
  <2>2. \A h \in Handlers : ThreadOK(handler'[h], Len(placed))
    BY <1>1, <2>1, IdleContext DEF ThreadOK
  <2>3. handler' \in [Handlers -> Contexts]
    BY <2>1, IdleContext
  <2>4. QED
    BY <1>1, <2>1, <2>2, <2>3, TypePartsNext DEF Sessions
<1>9. CASE UNCHANGED vars
  BY <1>1, <1>9, TypePartsNext DEF vars
<1>10. ASSUME NEW h \in Handlers, NEW o \in Orders, BeginConfirm(h, o) \/ BeginCancel(h, o)
       PROVE  TypeOK'
  BY <1>3, <1>10 DEF BeginConfirm, BeginCancel, CancelRoute
<1>11. QED
  BY <1>2, <1>4, <1>5, <1>6, <1>7, <1>8, <1>9, <1>10 DEF Next

LEMMA TypeInit == Init => TypeOK
<1> SUFFICES ASSUME Init PROVE TypeOK
  OBVIOUS
<1>1. \A h \in Handlers : handler[h] = Idle
  BY DEF Init
<1>2. placed = <<>> /\ Len(placed) = 0 /\ placed \in Seq(Placements)
  BY DEF Init
<1>3. rows \in Table /\ \A o \in Orders : rows[o].ref <= 0
  BY DEF Init, Table, Statuses
<1>4. handler \in [Handlers -> Contexts] /\ \A h \in Handlers : ThreadOK(handler[h], 0)
  BY <1>1, IdleContext DEF Init, ThreadOK
<1>5. QED
  BY <1>2, <1>3, <1>4, TypeParts DEF Init, Sessions

\* Every reachable state is of its type: no thread outside a request to the
\* broker holds a stage of _call, and every order id is one the broker gave.
THEOREM TypeCorrect == Spec => []TypeOK
<1>1. Init => TypeOK
  BY TypeInit
<1>2. TypeOK /\ [Next]_vars => TypeOK'
  BY TypeStep
<1>3. QED
  BY <1>1, <1>2, PTL DEF Spec

-----------------------------------------------------------------------------
(* What a step does to the thread that takes it                            *)

LEMMA Becoming ==
  ASSUME NEW h \in Handlers, TypeOK, NEW at, NEW stage, NEW ref, Become(h, at, stage, ref)
  PROVE  /\ \A g \in Handlers : g # h => handler'[g] = handler[g]
         /\ handler'[h].at = at /\ handler'[h].ref = ref
         /\ handler'[h].order = handler[h].order /\ handler'[h].barred = handler[h].barred
<1> DEFINE c == [at |-> at, order |-> handler[h].order, stage |-> stage,
                 ref |-> ref, barred |-> handler[h].barred]
<1>1. DOMAIN handler = Handlers /\ handler' = [handler EXCEPT ![h] = c]
  BY DEF TypeOK, Become
<1>2. handler'[h] = c /\ \A g \in Handlers : g # h => handler'[g] = handler[g]
  BY <1>1
<1>3. QED
  BY <1>2

LEMMA Going ==
  ASSUME NEW h \in Handlers, TypeOK, NEW at, Goto(h, at)
  PROVE  /\ \A g \in Handlers : g # h => handler'[g] = handler[g]
         /\ handler'[h].at = at /\ handler'[h].ref = handler[h].ref
         /\ handler'[h].order = handler[h].order /\ handler'[h].barred = handler[h].barred
<1>1. PICK r : r = handler[h].ref
  OBVIOUS
<1>2. Become(h, at, "none", r)
  BY <1>1 DEF Goto
<1>3. QED
  BY <1>1, <1>2, Becoming

LEMMA Staying ==
  ASSUME NEW h \in Handlers, TypeOK, NEW s, Stay(h, s)
  PROVE  /\ \A g \in Handlers : g # h => handler'[g] = handler[g]
         /\ handler'[h].at = handler[h].at /\ handler'[h].ref = handler[h].ref
         /\ handler'[h].order = handler[h].order /\ handler'[h].barred = handler[h].barred
<1>1. PICK r, a : r = handler[h].ref /\ a = handler[h].at
  OBVIOUS
<1>2. Become(h, a, s, r)
  BY <1>1 DEF Stay
<1>3. QED
  BY <1>1, <1>2, Becoming

LEMMA Leaving ==
  ASSUME NEW h \in Handlers, TypeOK, Moves(h, Idle)
  PROVE  handler'[h] = Idle /\ \A g \in Handlers : g # h => handler'[g] = handler[g]
BY DEF TypeOK, Moves

\* The thread h keeps its request and its reading of the halt.
Keeps(h) == handler'[h].order = handler[h].order /\ handler'[h].barred = handler[h].barred

LEMMA Thinking ==
  ASSUME NEW h \in Handlers, TypeOK, Thinks(h)
  PROVE  /\ \A g \in Handlers : g # h => handler'[g] = handler[g]
         /\ \/ handler'[h] = Idle /\ handler[h].at \in {"halt", "resolve", "withdraw"}
            \/ /\ Keeps(h) /\ handler'[h].ref = handler[h].ref
               /\ \/ handler'[h].at = "resolve" /\ handler[h].at = "halt" /\ ~halted
                  \/ /\ handler'[h].at \in {"place", "reject"}
                     /\ handler[h].at \in {"resolve", "place"}
                  \/ handler'[h].at = handler[h].at /\ handler[h].at \in Asking
<1>1. CASE Moves(h, Idle) /\ handler[h].at \in {"halt", "resolve", "withdraw"}
  BY <1>1, Leaving
<1>2. CASE Goto(h, "resolve") /\ handler[h].at = "halt" /\ ~halted
  BY <1>2, Going DEF Keeps
<1>3. CASE Goto(h, "place") /\ handler[h].at = "resolve"
  BY <1>3, Going DEF Keeps
<1>4. CASE Goto(h, "reject") /\ handler[h].at \in {"resolve", "place"}
  BY <1>4, Going DEF Keeps
<1>5. ASSUME NEW s \in Stages, Stay(h, s), handler[h].at \in Asking
      PROVE  /\ \A g \in Handlers : g # h => handler'[g] = handler[g]
             /\ Keeps(h) /\ handler'[h].ref = handler[h].ref /\ handler'[h].at = handler[h].at
  BY <1>5, Staying DEF Keeps
<1>6. QED
  BY <1>1, <1>2, <1>3, <1>4, <1>5 DEF Thinks

LEMMA Losing ==
  ASSUME NEW h \in Handlers, TypeOK, Lost(h)
  PROVE  /\ \A g \in Handlers : g # h => handler'[g] = handler[g]
         /\ \/ handler'[h] = Idle
            \/ /\ Keeps(h) /\ handler'[h].ref = handler[h].ref
               /\ \/ handler'[h].at = "reject" /\ handler[h].at = "place"
                  \/ handler'[h].at = handler[h].at
<1>1. CASE Moves(h, Idle)
  BY <1>1, Leaving
<1>2. CASE Goto(h, "reject") /\ handler[h].at = "place"
  BY <1>2, Going DEF Keeps
<1>3. ASSUME NEW s \in Stages, Stay(h, s)
      PROVE  /\ \A g \in Handlers : g # h => handler'[g] = handler[g]
             /\ Keeps(h) /\ handler'[h].ref = handler[h].ref /\ handler'[h].at = handler[h].at
  BY <1>3, Staying DEF Keeps
<1>4. QED
  BY <1>1, <1>2, <1>3 DEF Lost

LEMMA Taking ==
  ASSUME NEW h \in Handlers, TypeOK, Taken(h)
  PROVE  /\ \A g \in Handlers : g # h => handler'[g] = handler[g]
         /\ Keeps(h) /\ handler'[h].at = "submit" /\ handler'[h].ref = Len(placed) + 1
<1>1. PICK n : n = Len(placed) + 1
  OBVIOUS
<1>2. Become(h, "submit", "none", n)
  BY <1>1 DEF Taken
<1>3. QED
  BY <1>1, <1>2, Becoming DEF Keeps

LEMMA Ending ==
  ASSUME NEW h \in Handlers, TypeOK, Commit(h) \/ CommitFails(h)
  PROVE  /\ handler'[h] = Idle /\ \A g \in Handlers : g # h => handler'[g] = handler[g]
         /\ placed' = placed /\ halted' = halted
         /\ handler[h].at \in {"submit", "reject", "flip", "withdrawn"}
BY Leaving DEF Commit, CommitFails, Return, Moves

\* What a beginning, a reset and a crash do to the threads.
LEMMA Beginning ==
  ASSUME NEW h \in Handlers, NEW o \in Orders, NEW at, TypeOK, Begin(h, o, at)
  PROVE  /\ handler[h].at = "idle" /\ \A g \in Handlers : g # h => handler'[g] = handler[g]
         /\ handler'[h].at = at /\ handler'[h].order = o
         /\ handler'[h].ref = rows[o].ref /\ handler'[h].barred = halted
BY DEF TypeOK, Begin

LEMMA Resetting ==
  ASSUME NEW h \in Handlers, TypeOK, ResetHalt
  PROVE  /\ handler'[h].at = handler[h].at /\ handler'[h].order = handler[h].order
         /\ handler'[h].ref = handler[h].ref /\ handler'[h].barred = FALSE
<1>1. handler'[h] = [handler[h] EXCEPT !.barred = FALSE] /\ handler[h] \in Contexts
  BY TypeParts DEF ResetHalt
<1>2. QED
  BY <1>1 DEF Contexts

-----------------------------------------------------------------------------
(* The halt                                                                *)

\* A thread that began while trading was halted gets no further than its check
\* of the halt, unless it came to withdraw or to flip.
Barred == \A h \in Handlers : handler[h].barred =>
              halted /\ handler[h].at \in {"halt", "flip", "withdraw", "withdrawn"}

LEMMA BarredStep == TypeOK /\ Barred /\ [Next]_vars => Barred'
<1> SUFFICES ASSUME TypeOK, Barred, [Next]_vars, NEW h \in Handlers, handler'[h].barred
             PROVE  halted' /\ handler'[h].at \in {"halt", "flip", "withdraw", "withdrawn"}
  BY DEF Barred
<1> DEFINE Goal == halted' /\ handler'[h].at \in {"halt", "flip", "withdraw", "withdrawn"}
<1>1. handler[h].barred => halted /\ handler[h].at \in {"halt", "flip", "withdraw", "withdrawn"}
  BY DEF Barred
<1>2. CASE handler' = handler /\ (halted => halted')
  BY <1>1, <1>2
<1>3. ASSUME NEW g \in Handlers, NEW o \in Orders, NEW at \in {"halt", "flip", "withdraw"},
             Begin(g, o, at)
      PROVE  Goal
  <2>1. halted' = halted
    BY <1>3 DEF Begin
  <2>2. CASE g = h
    BY <1>3, <2>1, <2>2, Beginning
  <2>3. CASE g # h
    BY <1>1, <1>3, <2>1, <2>3, Beginning
  <2>4. QED
    BY <2>2, <2>3
<1>4. ASSUME NEW g \in Handlers, Step(g) PROVE Goal
  <2>1. ~Idle.barred
    BY IdleContext
  <2>2. CASE Thinks(g)
    BY <1>1, <2>1, <2>2, Thinking DEF Thinks, Keeps, Asking
  <2>3. CASE Taken(g)
    BY <1>1, <2>3, Taking DEF Taken, Keeps
  <2>4. CASE Withdrawn(g)
    BY <1>1, <2>4, Going DEF Withdrawn
  <2>5. CASE Lost(g)
    <3>1. handler[g].at \in {"place", "withdraw"} /\ halted' = halted
      BY <2>5 DEF Lost
    <3>2. QED
      BY <1>1, <2>1, <2>5, <3>1, Losing DEF Keeps
  <2>6. CASE Commit(g) \/ CommitFails(g)
    BY <1>1, <2>1, <2>6, Ending
  <2>7. QED
    BY <1>4, <2>2, <2>3, <2>4, <2>5, <2>6, Steps
<1>5. CASE ResetHalt
  BY <1>5, Resetting
<1>6. CASE Crash
  BY <1>6, IdleContext DEF Crash
<1>7. ASSUME NEW o \in Orders, NEW g \in Handlers, BeginConfirm(g, o) \/ BeginCancel(g, o)
      PROVE  Goal
  BY <1>3, <1>7 DEF BeginConfirm, BeginCancel, CancelRoute
<1>8. CASE \/ \E o \in Orders : SubmitLive(o)
           \/ EnsureSession \/ FeedLogin \/ Expire \/ Trip
           \/ \E i \in DOMAIN placed : Fill(i)
           \/ UNCHANGED vars
  BY <1>2, <1>8 DEF SubmitLive, EnsureSession, FeedLogin, Expire, Trip, Fill, vars
<1>9. QED
  BY <1>4, <1>5, <1>6, <1>7, <1>8 DEF Next

LEMMA HaltStep ==
  TypeOK /\ Barred /\ [Next]_vars =>
    \A h \in Handlers : Len(placed') > Len(placed) /\ handler'[h] # handler[h] => ~handler[h].barred
<1> SUFFICES ASSUME TypeOK, Barred, [Next]_vars, NEW h \in Handlers,
                    Len(placed') > Len(placed), handler'[h] # handler[h]
             PROVE  ~handler[h].barred
  OBVIOUS
<1>1. Len(placed) \in Nat /\ placed' # placed /\ Len(placed') # Len(placed)
  BY TypeParts
<1>2. \A i \in DOMAIN placed : ~Fill(i)
  BY <1>1, Marking DEF Fill
<1>3. PICK g \in Handlers : Step(g)
  BY <1>1, <1>2 DEF Next, SubmitLive, BeginConfirm, BeginCancel, Begin, EnsureSession, FeedLogin,
                    Expire, Trip, ResetHalt, Crash, vars
<1>4. ~Thinks(g) /\ ~Commit(g) /\ ~CommitFails(g)
  BY <1>1 DEF Thinks, Commit, CommitFails
<1>5. ~Withdraw(g)
  BY <1>1, Withdrawing
<1>6. (Taken(g) \/ Lost(g)) /\ handler[g].at = "place"
  BY <1>3, <1>4, <1>5, Steps DEF Taken, Withdrawn, Lost
<1>7. g = h
  BY <1>6, Taking, Losing
<1>8. QED
  BY <1>6, <1>7 DEF Barred

\* A route that began while trading was halted places nothing, whatever the
\* other threads, the broker and the session do, until the halt is reset.
THEOREM HaltIsHeld == Spec => HaltHolds
<1>1. Init => TypeOK /\ Barred
  <2>1. Init => Barred
    BY IdleContext DEF Init, Barred
  <2>2. QED
    BY <2>1, TypeInit
<1>2. TypeOK /\ Barred /\ [Next]_vars => TypeOK' /\ Barred'
  BY TypeStep, BarredStep
<1>3. TypeOK /\ Barred /\ [Next]_vars =>
        [\A h \in Handlers : Len(placed') > Len(placed) /\ handler'[h] # handler[h]
                                => ~handler[h].barred]_vars
  BY HaltStep
<1>4. QED
  BY <1>1, <1>2, <1>3, PTL DEF Spec, HaltHolds

-----------------------------------------------------------------------------
(* The proof of a submission                                               *)

\* What the broker has only grows, and only on the order of the acting thread.
LEMMA Growing ==
  ASSUME NEW h \in Handlers, NEW o \in Orders, TypeOK, Step(h)
  PROVE  /\ PlacedFor(o) \subseteq PlacedFor(o)'
         /\ o # handler[h].order => /\ PlacedFor(o)' = PlacedFor(o)
                                    /\ WorkingFor(o)' \subseteq WorkingFor(o)
<1>1. PICK w \in Orders : handler[h].order = w
  BY DEF TypeOK
<1>2. CASE Accept(h)
  BY <1>1, <1>2, Accepting
<1>3. CASE Withdraw(h)
  BY <1>3, Withdrawing
<1>4. CASE placed' = placed
  BY <1>4 DEF PlacedFor, WorkingFor
<1>5. QED
  BY <1>2, <1>3, <1>4, Steps DEF Thinks, Taken, Withdrawn, Lost, Commit, CommitFails

LEMMA Standing ==
  ASSUME NEW o \in Orders, TypeOK, [Next]_vars, \A h \in Handlers : ~Step(h)
  PROVE  PlacedFor(o)' = PlacedFor(o) /\ WorkingFor(o)' \subseteq WorkingFor(o)
<1>1. ASSUME NEW i \in DOMAIN placed, Fill(i)
      PROVE  PlacedFor(o)' = PlacedFor(o) /\ WorkingFor(o)' \subseteq WorkingFor(o)
  BY <1>1, Marking DEF Fill
<1>2. CASE placed' = placed
  BY <1>2 DEF PlacedFor, WorkingFor
<1>3. QED
  BY <1>1, <1>2 DEF Next, SubmitLive, BeginConfirm, BeginCancel, Begin, EnsureSession, FeedLogin,
                    Expire, Trip, ResetHalt, Crash, vars

\* A thread about to write "submitted" carries an id the broker gave its order.
Carried == \A h \in Handlers, o \in Orders :
              handler[h].at = "submit" /\ handler[h].order = o => handler[h].ref \in PlacedFor(o)

LEMMA CarriedStep == TypeOK /\ Carried /\ [Next]_vars => Carried'
<1> SUFFICES ASSUME TypeOK, Carried, [Next]_vars, NEW h \in Handlers, NEW o \in Orders,
                    handler'[h].at = "submit", handler'[h].order = o
             PROVE  handler'[h].ref \in PlacedFor(o)'
  BY DEF Carried
<1> DEFINE Same == /\ handler'[h].at = handler[h].at /\ handler'[h].order = handler[h].order
                   /\ handler'[h].ref = handler[h].ref
<1>1. PlacedFor(o) \subseteq PlacedFor(o)'
  BY Growing, Standing
<1>2. CASE Same
  BY <1>1, <1>2 DEF Carried
<1>3. CASE Taken(h)
  <2>1. handler[h].order = o /\ handler'[h].ref = Len(placed) + 1 /\ Accept(h)
    BY <1>3, Taking DEF Taken, Keeps
  <2>2. QED
    BY <2>1, Accepting
<1> HIDE DEF Same
<1>4. ASSUME NEW g \in Handlers, Step(g) PROVE Same \/ Taken(h)
  <2>1. Idle.at # "submit"
    BY IdleContext
  <2>2. CASE Thinks(g)
    BY <2>1, <2>2, Thinking DEF Same, Keeps
  <2>3. CASE Taken(g)
    BY <2>3, Taking DEF Same
  <2>4. CASE Withdrawn(g)
    BY <2>4, Going DEF Withdrawn, Same
  <2>5. CASE Lost(g)
    BY <2>1, <2>5, Losing DEF Same, Keeps
  <2>6. CASE Commit(g) \/ CommitFails(g)
    BY <2>1, <2>6, Ending DEF Same
  <2>7. QED
    BY <1>4, <2>2, <2>3, <2>4, <2>5, <2>6, Steps
<1>5. ASSUME NEW g \in Handlers, NEW p \in Orders, BeginConfirm(g, p) \/ BeginCancel(g, p)
      PROVE  Same
  <2>1. PICK at \in {"halt", "flip", "withdraw"} : Begin(g, p, at)
    BY <1>5 DEF BeginConfirm, BeginCancel, CancelRoute
  <2>2. QED
    BY <2>1, Beginning DEF Same
<1>6. ResetHalt => Same
  BY Resetting DEF Same
<1>7. CASE Crash
  BY <1>7, IdleContext DEF Crash
<1>8. handler' = handler => Same
  BY DEF Same
<1>9. QED
  BY <1>2, <1>3, <1>4, <1>5, <1>6, <1>7, <1>8
     DEF Next, SubmitLive, EnsureSession, FeedLogin, Expire, Trip, Fill, vars

LEMMA ProvenStep == TypeOK /\ Carried /\ SubmittedIsProven /\ [Next]_vars => SubmittedIsProven'
<1> SUFFICES ASSUME TypeOK, Carried, SubmittedIsProven, [Next]_vars,
                    NEW o \in Orders, rows'[o].status = "submitted"
             PROVE  rows'[o].ref \in PlacedFor(o)'
  BY DEF SubmittedIsProven
<1>1. PlacedFor(o) \subseteq PlacedFor(o)'
  BY Growing, Standing
<1>2. CASE rows'[o] = rows[o]
  BY <1>1, <1>2 DEF SubmittedIsProven
<1>3. ASSUME NEW p \in Orders, SubmitLive(p) PROVE rows'[o] = rows[o]
  BY <1>3 DEF SubmitLive, TypeOK
<1>4. ASSUME NEW h \in Handlers, Commit(h)
      PROVE  \/ rows'[o] = rows[o]
             \/ handler[h].at = "submit" /\ handler[h].order = o /\ rows'[o].ref = handler[h].ref
  <2>1. handler[h].order # o => rows'[o] = rows[o]
    BY <1>4 DEF Commit, TypeOK
  <2>2. handler[h].order = o => rows'[o] = Written(h)
    BY <1>4 DEF Commit, TypeOK
  <2>3. handler[h].at \in {"submit", "reject", "flip", "withdrawn"}
    BY <1>4 DEF Commit
  <2>4. CASE handler[h].at = "submit"
    <3>1. Written(h) = [status |-> "submitted", ref |-> handler[h].ref]
      BY <2>4 DEF Written
    <3>2. QED
      BY <2>1, <2>2, <2>4, <3>1
  <2>5. CASE handler[h].at # "submit"
    <3>1. Written(h).status \in {"rejected", "cancelled"}
      BY <2>3, <2>5 DEF Written
    <3>2. QED
      BY <2>1, <2>2, <3>1
  <2>6. QED
    BY <2>4, <2>5
<1>5. ASSUME NEW h \in Handlers, Commit(h) PROVE rows'[o].ref \in PlacedFor(o)'
  BY <1>1, <1>2, <1>4, <1>5 DEF Carried
<1>6. ASSUME NEW h \in Handlers, Step(h), ~Commit(h) PROVE rows' = rows
  BY <1>6, Steps DEF Thinks, Taken, Withdrawn, Lost, CommitFails
<1>7. QED
  BY <1>2, <1>3, <1>5, <1>6
     DEF Next, BeginConfirm, BeginCancel, Begin, EnsureSession, FeedLogin,
         Expire, Trip, ResetHalt, Crash, Fill, vars

\* A submitted row names an order the broker took for it, whatever failed, was
\* retried, overlapped or was cut off by a crash.
THEOREM SubmissionIsProven == Spec => []SubmittedIsProven
<1>1. Init => TypeOK /\ Carried /\ SubmittedIsProven
  <2>1. Init => Carried
    BY IdleContext DEF Init, Carried
  <2>2. Init => SubmittedIsProven
    BY DEF Init, SubmittedIsProven
  <2>3. QED
    BY <2>1, <2>2, TypeInit
<1>2. TypeOK /\ Carried /\ SubmittedIsProven /\ [Next]_vars =>
        TypeOK' /\ Carried' /\ SubmittedIsProven'
  BY TypeStep, CarriedStep, ProvenStep
<1>3. QED
  BY <1>1, <1>2, PTL DEF Spec

-----------------------------------------------------------------------------
(* The row and the broker                                                  *)

On(h, o) == handler[h].at # "idle" /\ handler[h].order = o

\* What row says of an order while a route is at a place with id ref, P being
\* what the broker took for the order and W what of it still works.
Doing(at, ref, row, P, W) ==
    /\ at \in {"halt", "resolve", "place", "reject", "flip"} => row.status = "pending" /\ P = {}
    /\ at = "submit" => row.status = "pending" /\ P = {ref}
    /\ at = "withdraw" => row.status = "submitted" /\ P = {row.ref} /\ ref = row.ref
    /\ at = "withdrawn" => row.status = "submitted" /\ P = {row.ref} /\ W = {}

\* What it says with no route in flight.
Settled(row, P, W) ==
    /\ row.status \in {"none", "pending", "rejected"} => P = {}
    /\ row.status = "submitted" => P = {row.ref}
    /\ row.status = "cancelled" => P \subseteq {row.ref} /\ W = {}

Alone(o) == \A g, h \in Handlers : On(g, o) /\ On(h, o) => g = h
Sound(o) ==
    /\ Alone(o)
    /\ \A h \in Handlers : On(h, o) =>
          Doing(handler[h].at, handler[h].ref, rows[o], PlacedFor(o), WorkingFor(o))
    /\ (\A h \in Handlers : ~On(h, o)) => Settled(rows[o], PlacedFor(o), WorkingFor(o))

SoundInv == \A o \in Orders \ doubt : Sound(o)

\* A step that does not concern o.
LEMMA Unconcerned ==
  ASSUME NEW o \in Orders, Sound(o), rows'[o] = rows[o], PlacedFor(o)' = PlacedFor(o),
         WorkingFor(o)' \subseteq WorkingFor(o),
         \A h \in Handlers : /\ On(h, o)' <=> On(h, o)
                             /\ On(h, o) => /\ handler'[h].at = handler[h].at
                                            /\ handler'[h].ref = handler[h].ref
  PROVE  Sound(o)'
<1>1. Alone(o)'
  BY DEF Sound, Alone
<1>2. ASSUME NEW h \in Handlers, On(h, o)'
      PROVE  Doing(handler[h].at, handler[h].ref, rows[o], PlacedFor(o), WorkingFor(o))'
  <2>1. Doing(handler[h].at, handler[h].ref, rows[o], PlacedFor(o), WorkingFor(o))
    BY <1>2 DEF Sound
  <2>2. handler'[h].at = handler[h].at /\ handler'[h].ref = handler[h].ref
    BY <1>2
  <2>3. QED
    BY <2>1, <2>2 DEF Doing
<1>3. ASSUME \A h \in Handlers : ~On(h, o)'
      PROVE  Settled(rows[o], PlacedFor(o), WorkingFor(o))'
  <2>1. Settled(rows[o], PlacedFor(o), WorkingFor(o))
    BY <1>3 DEF Sound
  <2>2. QED
    BY <2>1 DEF Settled
<1>4. QED
  BY <1>1, <1>2, <1>3 DEF Sound

\* A step of the only route about o: it goes on, or it returns.
LEMMA Concerned ==
  ASSUME NEW h \in Handlers, NEW o \in Orders, Alone(o), On(h, o),
         \A g \in Handlers : g # h => handler'[g] = handler[g],
         On(h, o)' => Doing(handler[h].at, handler[h].ref, rows[o], PlacedFor(o), WorkingFor(o))',
         ~On(h, o)' => Settled(rows[o], PlacedFor(o), WorkingFor(o))'
  PROVE  Sound(o)'
<1>1. \A g \in Handlers : g # h => ~On(g, o)'
  BY DEF Alone, On
<1>2. QED
  BY <1>1 DEF Sound, Alone

\* A step of a route leaves the other orders alone.
LEMMA Others ==
  ASSUME NEW h \in Handlers, NEW o \in Orders, TypeOK, Step(h), Sound(o), handler[h].order # o
  PROVE  Sound(o)'
<1>1. PlacedFor(o)' = PlacedFor(o) /\ WorkingFor(o)' \subseteq WorkingFor(o)
  BY Growing
<1>2. rows'[o] = rows[o]
  BY Steps DEF Commit, TypeOK, Thinks, Taken, Withdrawn, Lost, CommitFails
<1>3. /\ \A g \in Handlers : g # h => handler'[g] = handler[g]
      /\ handler'[h] = Idle \/ handler'[h].order = handler[h].order
  BY Steps, Thinking, Taking, Going, Losing, Ending DEF Withdrawn, Keeps
<1>4. Idle.at = "idle"
  BY IdleContext
<1>5. ASSUME NEW g \in Handlers
      PROVE  /\ On(g, o)' <=> On(g, o)
             /\ On(g, o) => handler'[g].at = handler[g].at /\ handler'[g].ref = handler[g].ref
  BY <1>3, <1>4 DEF On
<1>6. QED
  BY <1>1, <1>2, <1>5, Unconcerned

\* A step of the only route about o keeps row and broker together, unless it
\* puts o in doubt.
LEMMA Acting ==
  ASSUME NEW h \in Handlers, NEW o \in Orders, TypeOK, Step(h), Sound(o),
         handler[h].order = o, o \notin doubt'
  PROVE  Sound(o)'
<1> DEFINE D == Doing(handler[h].at, handler[h].ref, rows[o], PlacedFor(o), WorkingFor(o))
           S == Settled(rows[o], PlacedFor(o), WorkingFor(o))
<1>1. On(h, o) /\ Idle.at = "idle"
  BY Steps, IdleContext DEF On, Thinks, Taken, Withdrawn, Lost, Commit, CommitFails, Asking
<1>2. D /\ Alone(o)
  BY <1>1 DEF Sound
<1>3. WorkingFor(o) \subseteq PlacedFor(o)
  BY DEF WorkingFor
<1>4. SUFFICES /\ \A g \in Handlers : g # h => handler'[g] = handler[g]
               /\ On(h, o)' => D'
               /\ ~On(h, o)' => S'
  BY <1>1, <1>2, Concerned
<1>5. CASE Thinks(h)
  <2>1. /\ rows' = rows /\ PlacedFor(o)' = PlacedFor(o) /\ WorkingFor(o)' = WorkingFor(o)
        /\ \A g \in Handlers : g # h => handler'[g] = handler[g]
    BY <1>5, Thinking DEF Thinks, PlacedFor, WorkingFor
  <2>2. CASE handler'[h] = Idle /\ handler[h].at \in {"halt", "resolve", "withdraw"}
    <3>1. ~On(h, o)'
      BY <1>1, <2>2 DEF On
    <3>2. S'
      BY <1>2, <2>1, <2>2 DEF Doing, Settled
    <3>3. QED
      BY <2>1, <3>1, <3>2
  <2>3. CASE /\ handler'[h].ref = handler[h].ref /\ handler'[h].order = o
             /\ handler'[h].at # "idle"
             /\ \/ /\ handler'[h].at \in {"resolve", "place", "reject"}
                   /\ handler[h].at \in {"halt", "resolve", "place"}
                \/ handler'[h].at = handler[h].at
    <3>1. D'
      BY <1>2, <2>1, <2>3 DEF Doing
    <3>2. QED
      BY <2>1, <2>3, <3>1 DEF On
  <2>4. QED
    BY <1>5, <2>2, <2>3, Thinking DEF Keeps, Asking
<1>6. CASE Taken(h)
  <2>1. /\ \A g \in Handlers : g # h => handler'[g] = handler[g]
        /\ handler'[h].order = o /\ handler'[h].at = "submit"
        /\ handler'[h].ref = Len(placed) + 1
    BY <1>6, Taking DEF Keeps
  <2>2. rows' = rows /\ handler[h].at = "place" /\ Accept(h)
    BY <1>6 DEF Taken
  <2>3. rows[o].status = "pending" /\ PlacedFor(o) = {}
    BY <1>2, <2>2 DEF Doing
  <2>4. PlacedFor(o)' = {Len(placed) + 1}
    BY <2>2, <2>3, Accepting
  <2>5. D'
    BY <2>1, <2>2, <2>3, <2>4 DEF Doing
  <2>6. QED
    BY <2>1, <2>5 DEF On
<1>7. CASE Withdrawn(h)
  <2>1. /\ \A g \in Handlers : g # h => handler'[g] = handler[g]
        /\ handler'[h].order = o /\ handler'[h].at = "withdrawn"
        /\ handler'[h].ref = handler[h].ref
    BY <1>7, Going DEF Withdrawn
  <2>2. rows' = rows /\ handler[h].at = "withdraw" /\ Withdraw(h)
    BY <1>7 DEF Withdrawn
  <2>3. rows[o].status = "submitted" /\ PlacedFor(o) = {rows[o].ref} /\ handler[h].ref = rows[o].ref
    BY <1>2, <2>2 DEF Doing
  <2>4. PlacedFor(o)' = PlacedFor(o) /\ WorkingFor(o)' = WorkingFor(o) \ {handler[h].ref}
    BY <2>2, Withdrawing
  <2>5. WorkingFor(o)' = {}
    BY <1>3, <2>3, <2>4
  <2>6. D'
    BY <2>1, <2>2, <2>3, <2>4, <2>5 DEF Doing
  <2>7. QED
    BY <2>1, <2>6 DEF On
<1>8. CASE Lost(h)
  BY <1>8 DEF Lost
<1>9. CASE Commit(h)
  <2>1. /\ \A g \in Handlers : g # h => handler'[g] = handler[g]
        /\ handler'[h] = Idle /\ PlacedFor(o)' = PlacedFor(o) /\ WorkingFor(o)' = WorkingFor(o)
    BY <1>9, Ending DEF PlacedFor, WorkingFor
  <2>2. ~On(h, o)'
    BY <1>1, <2>1 DEF On
  <2>3. rows'[o] = Written(h) /\ handler[h].at \in {"submit", "reject", "flip", "withdrawn"}
    BY <1>9 DEF Commit, TypeOK
  <2>4. CASE handler[h].at = "submit"
    <3>1. rows'[o] = [status |-> "submitted", ref |-> handler[h].ref]
      BY <2>3, <2>4 DEF Written
    <3>2. PlacedFor(o) = {handler[h].ref}
      BY <1>2, <2>4 DEF Doing
    <3>3. S'
      BY <2>1, <3>1, <3>2 DEF Settled
    <3>4. QED
      BY <2>1, <2>2, <3>3
  <2>5. CASE handler[h].at = "reject"
    <3>1. rows'[o] = [status |-> "rejected", ref |-> rows[o].ref]
      BY <2>3, <2>5 DEF Written
    <3>2. PlacedFor(o) = {}
      BY <1>2, <2>5 DEF Doing
    <3>3. S'
      BY <2>1, <3>1, <3>2 DEF Settled
    <3>4. QED
      BY <2>1, <2>2, <3>3
  <2>6. CASE handler[h].at \in {"flip", "withdrawn"}
    <3>1. rows'[o] = [status |-> "cancelled", ref |-> rows[o].ref]
      BY <2>3, <2>6 DEF Written
    <3>2. PlacedFor(o) \subseteq {rows[o].ref} /\ WorkingFor(o) = {}
      BY <1>2, <1>3, <2>6 DEF Doing
    <3>3. S'
      BY <2>1, <3>1, <3>2 DEF Settled
    <3>4. QED
      BY <2>1, <2>2, <3>3
  <2>7. QED
    BY <2>3, <2>4, <2>5, <2>6
<1>10. CASE CommitFails(h)
  <2>1. /\ \A g \in Handlers : g # h => handler'[g] = handler[g]
        /\ handler'[h] = Idle /\ PlacedFor(o)' = PlacedFor(o) /\ WorkingFor(o)' = WorkingFor(o)
    BY <1>10, Ending DEF PlacedFor, WorkingFor
  <2>2. ~On(h, o)'
    BY <1>1, <2>1 DEF On
  <2>3. rows' = rows /\ handler[h].at \in {"reject", "flip"}
    BY <1>10 DEF CommitFails, CutOff
  <2>4. S'
    BY <1>2, <2>1, <2>3 DEF Doing, Settled
  <2>5. QED
    BY <2>1, <2>2, <2>4
<1>11. QED
  BY <1>5, <1>6, <1>7, <1>8, <1>9, <1>10, Steps

\* A route that begins about o finds it settled, or puts it in doubt.
LEMMA Starting ==
  ASSUME NEW h \in Handlers, NEW p \in Orders, NEW o \in Orders, TypeOK, Sound(o),
         BeginConfirm(h, p) \/ BeginCancel(h, p), o \notin doubt'
  PROVE  Sound(o)'
<1>1. PICK at : /\ Begin(h, p, at)
                /\ \/ at \in {"halt", "flip"} /\ rows[p].status = "pending"
                   \/ at = "withdraw" /\ rows[p].status = "submitted"
  BY DEF BeginConfirm, BeginCancel, CancelRoute, Confirmable
<1>2. /\ rows' = rows /\ PlacedFor(o)' = PlacedFor(o) /\ WorkingFor(o)' = WorkingFor(o)
      /\ handler[h].at = "idle" /\ \A g \in Handlers : g # h => handler'[g] = handler[g]
      /\ handler'[h].at = at /\ handler'[h].order = p /\ handler'[h].ref = rows[p].ref
  <2>1. rows' = rows /\ PlacedFor(o)' = PlacedFor(o) /\ WorkingFor(o)' = WorkingFor(o)
    BY <1>1 DEF Begin, PlacedFor, WorkingFor
  <2>2. /\ handler[h].at = "idle" /\ \A g \in Handlers : g # h => handler'[g] = handler[g]
        /\ handler'[h].at = at /\ handler'[h].order = p /\ handler'[h].ref = rows[p].ref
    BY <1>1, Beginning
  <2>3. QED
    BY <2>1, <2>2
<1>3. CASE p # o
  <2>1. ASSUME NEW g \in Handlers
        PROVE  /\ On(g, o)' <=> On(g, o)
               /\ On(g, o) => handler'[g].at = handler[g].at /\ handler'[g].ref = handler[g].ref
    BY <1>2, <1>3 DEF On
  <2>2. QED
    BY <1>2, <2>1, Unconcerned
<1>4. CASE p = o
  <2>1. \A g \in Handlers : ~On(g, o)
    BY <1>1, <1>4 DEF Begin, InFlight, On
  <2>2. Settled(rows[o], PlacedFor(o), WorkingFor(o))
    BY <2>1 DEF Sound
  <2>3. \A g \in Handlers : On(g, o)' => g = h
    BY <1>2, <2>1 DEF On
  <2>4. On(h, o)'
    BY <1>1, <1>2, <1>4 DEF On
  <2>5. Doing(handler[h].at, handler[h].ref, rows[o], PlacedFor(o), WorkingFor(o))'
    BY <1>1, <1>2, <1>4, <2>2 DEF Doing, Settled
  <2>6. QED
    BY <2>3, <2>4, <2>5 DEF Sound, Alone
<1>5. QED
  BY <1>3, <1>4

LEMMA SoundStep == TypeOK /\ SoundInv /\ [Next]_vars => SoundInv'
<1> SUFFICES ASSUME TypeOK, SoundInv, [Next]_vars, NEW o \in Orders, o \notin doubt'
             PROVE  Sound(o)'
  BY DEF SoundInv
<1>1. doubt \subseteq doubt'
  <2>1. ASSUME NEW h \in Handlers, Step(h) PROVE doubt \subseteq doubt'
    BY <2>1, Steps DEF Thinks, Taken, Withdrawn, Lost, Commit, CommitFails
  <2>2. QED
    BY <2>1 DEF Next, SubmitLive, BeginConfirm, BeginCancel, Begin, EnsureSession, FeedLogin,
                Expire, Trip, ResetHalt, Crash, Fill, vars
<1>2. Sound(o)
  BY <1>1 DEF SoundInv
<1>3. ASSUME NEW h \in Handlers, Step(h) PROVE Sound(o)'
  BY <1>2, <1>3, Others, Acting
<1>4. ASSUME NEW h \in Handlers, NEW p \in Orders, BeginConfirm(h, p) \/ BeginCancel(h, p)
      PROVE  Sound(o)'
  BY <1>2, <1>4, Starting
<1>5. CASE \A h \in Handlers : ~Step(h)
  <2>1. PlacedFor(o)' = PlacedFor(o) /\ WorkingFor(o)' \subseteq WorkingFor(o)
    BY <1>5, Standing
  <2>2. CASE rows'[o] = rows[o] /\ \A h \in Handlers : /\ handler'[h].at = handler[h].at
                                                      /\ handler'[h].order = handler[h].order
                                                      /\ handler'[h].ref = handler[h].ref
    <3>1. \A h \in Handlers : On(h, o)' <=> On(h, o)
      BY <2>2 DEF On
    <3>2. QED
      BY <1>2, <2>1, <2>2, <3>1, Unconcerned
  <2>3. ASSUME NEW p \in Orders, SubmitLive(p) PROVE Sound(o)'
    <3>1. CASE p # o
      BY <2>2, <2>3, <3>1 DEF SubmitLive, TypeOK
    <3>2. CASE p = o
      <4>1. /\ rows[o].status = "none" /\ rows'[o].status = "pending"
            /\ handler' = handler /\ placed' = placed
        BY <2>3, <3>2 DEF SubmitLive, TypeOK
      <4>2. ASSUME NEW h \in Handlers PROVE ~On(h, o)
        <5>1. handler[h].at \in Places
          BY DEF TypeOK
        <5>2. QED
          BY <1>2, <4>1, <5>1 DEF Sound, Doing, On, Places
      <4>3. \A h \in Handlers : ~On(h, o)'
        BY <4>1, <4>2 DEF On
      <4>4. PlacedFor(o)' = {}
        BY <1>2, <2>1, <4>1, <4>2 DEF Sound, Settled
      <4>5. QED
        BY <4>1, <4>3, <4>4 DEF Sound, Alone, Settled
    <3>3. QED
      BY <3>1, <3>2
  <2>4. CASE ResetHalt
    BY <2>2, <2>4, Resetting DEF ResetHalt
  <2>5. CASE Crash
    <3>1. \A h \in Handlers : ~On(h, o)'
      BY <2>5, IdleContext DEF Crash, On
    <3>2. rows' = rows /\ \A h \in Handlers : On(h, o) => handler[h].at \notin {"submit", "withdrawn"}
      BY <2>5 DEF Crash, CutOff, On
    <3>3. CASE \A h \in Handlers : ~On(h, o)
      <4>1. Settled(rows[o], PlacedFor(o), WorkingFor(o))
        BY <1>2, <3>3 DEF Sound
      <4>2. QED
        BY <2>1, <3>1, <3>2, <4>1 DEF Sound, Alone, Settled
    <3>4. ASSUME NEW h \in Handlers, On(h, o) PROVE Sound(o)'
      <4>1. handler[h].at \in Places \ {"idle", "submit", "withdrawn"}
        BY <3>2, <3>4 DEF TypeOK, On
      <4>2. Doing(handler[h].at, handler[h].ref, rows[o], PlacedFor(o), WorkingFor(o))
        BY <1>2, <3>4 DEF Sound
      <4>3. \/ rows[o].status = "pending" /\ PlacedFor(o) = {}
            \/ rows[o].status = "submitted" /\ PlacedFor(o) = {rows[o].ref}
        BY <4>1, <4>2 DEF Doing, Places
      <4>4. QED
        BY <2>1, <3>1, <3>2, <4>3 DEF Sound, Alone, Settled
    <3>5. QED
      BY <3>3, <3>4
  <2>5a. CASE UNCHANGED <<rows, handler>>
    BY <2>2, <2>5a
  <2>6. QED
    BY <1>4, <1>5, <2>3, <2>4, <2>5, <2>5a
       DEF Next, EnsureSession, FeedLogin, Expire, Trip, Fill, vars
<1>6. QED
  BY <1>3, <1>5

LEMMA SoundInit == Init => SoundInv
<1> SUFFICES ASSUME Init, NEW o \in Orders PROVE Sound(o)
  BY DEF SoundInv
<1>1. PlacedFor(o) = {} /\ WorkingFor(o) = {}
  BY DEF Init, PlacedFor, WorkingFor
<1>2. rows[o].status = "none" /\ \A h \in Handlers : ~On(h, o)
  BY IdleContext DEF Init, On
<1>3. QED
  BY <1>1, <1>2 DEF Sound, Alone, Settled

LEMMA Soundness == Spec => []SoundInv /\ []TypeOK
<1>1. Init => TypeOK /\ SoundInv
  BY TypeInit, SoundInit
<1>2. TypeOK /\ SoundInv /\ [Next]_vars => TypeOK' /\ SoundInv'
  BY TypeStep, SoundStep
<1>3. QED
  BY <1>1, <1>2, PTL DEF Spec

\* Through every interleaving of the routes, the refreshes, logins and retries of
\* their requests, expiries, halts and crashes, an order nothing put in doubt is
\* placed at the broker at most once.
THEOREM PlacedAtMostOnce == Spec => []PlacedOnce
<1>1. TypeOK /\ SoundInv => PlacedOnce
  <2> SUFFICES ASSUME TypeOK, SoundInv, NEW o \in Orders, o \notin doubt
               PROVE  Cardinality(PlacedFor(o)) <= 1
    BY DEF PlacedOnce
  <2>1. Sound(o)
    BY DEF SoundInv
  <2>2. \E n : PlacedFor(o) \subseteq {n}
    <3>1. CASE \A h \in Handlers : ~On(h, o)
      <4>1. Settled(rows[o], PlacedFor(o), WorkingFor(o)) /\ rows[o].status \in Statuses
        BY <2>1, <3>1 DEF Sound, TypeOK
      <4>2. PlacedFor(o) \subseteq {rows[o].ref}
        BY <4>1 DEF Settled, Statuses
      <4>3. QED
        BY <4>2
    <3>2. ASSUME NEW h \in Handlers, On(h, o) PROVE \E n : PlacedFor(o) \subseteq {n}
      <4>1. handler[h].at \in Places \ {"idle"}
        BY <3>2 DEF TypeOK, On
      <4>2. Doing(handler[h].at, handler[h].ref, rows[o], PlacedFor(o), WorkingFor(o))
        BY <2>1, <3>2 DEF Sound
      <4>3. PlacedFor(o) \subseteq {rows[o].ref} \/ PlacedFor(o) \subseteq {handler[h].ref}
        BY <4>1, <4>2 DEF Doing, Places
      <4>4. QED
        BY <4>3
    <3>3. QED
      BY <3>1, <3>2
  <2>3. PICK n : PlacedFor(o) = {} \/ PlacedFor(o) = {n}
    BY <2>2
  <2>4. QED
    BY <2>3, FS_EmptySet, FS_Singleton
<1>2. QED
  BY <1>1, Soundness, PTL

\* Whenever no route is in flight about an order nothing put in doubt, its row
\* tells what the broker has of it.
THEOREM RowTellsTheBroker == Spec => []BrokerAgrees
<1>1. TypeOK /\ SoundInv => BrokerAgrees
  <2> SUFFICES ASSUME TypeOK, SoundInv, NEW o \in Orders, o \notin doubt, ~InFlight(o)
               PROVE  CASE rows[o].status \in {"none", "pending", "rejected"} -> PlacedFor(o) = {}
                        [] rows[o].status = "submitted" -> PlacedFor(o) = {rows[o].ref}
                        [] rows[o].status = "cancelled" -> WorkingFor(o) = {}
    BY DEF BrokerAgrees
  <2>1. \A h \in Handlers : ~On(h, o)
    BY DEF InFlight, On
  <2>2. Settled(rows[o], PlacedFor(o), WorkingFor(o)) /\ rows[o].status \in Statuses
    BY <2>1 DEF SoundInv, Sound, TypeOK
  <2>3. QED
    BY <2>2 DEF Settled, Statuses
<1>2. QED
  BY <1>1, Soundness, PTL

-------------------------------------------------------------------------------
(* LiveFeed: the inductive invariant                                           *)

\* Who is there is entered with the registered feed; who starts or stops a feed
\* holds its number.
Entered == {"watching", "registered", "started", "gone"}
Sockets ==
  [at : {"out", "resolved", "watching", "gone"}]
    \cup [at : {"registered", "started", "stopping"}, feed : Nat]

Threads == {"new", "running", "stopped"}
Feeds == [thread : Threads, callbacks : SUBSET Clients]

FeedType ==
  /\ registry \in Nat \cup {NoFeed}
  /\ feeds \in Seq(Feeds)
  /\ fanout \subseteq Clients
  /\ socket \in [Clients -> Sockets]
  /\ leaked \subseteq Clients

\* The registered feed exists, runs or is about to, and somebody is entered.
RegisteredFeedIsWatched ==
  registry # NoFeed =>
    /\ registry \in 1..Len(feeds)
    /\ feeds[registry].thread # "stopped"
    /\ feeds[registry].callbacks # {}

EntriesAreClients ==
  \A c \in Clients :
    socket[c].at \in Entered <=> registry # NoFeed /\ c \in feeds[registry].callbacks

\* The number a client holds is that of the registered feed until it was the
\* last to leave, and never after.
NumbersHeld ==
  \A c \in Clients :
    /\ socket[c].at \in {"registered", "started"} => socket[c].feed = registry
    /\ socket[c].at = "stopping" => /\ socket[c].feed \in 1..Len(feeds)
                                    /\ socket[c].feed # registry
    /\ socket[c].at = "gone" => c \in leaked

\* A feed that was taken off the registry is stopped, or somebody is about to.
OthersAreStopped ==
  \A f \in 1..Len(feeds) :
    f # registry /\ feeds[f].thread # "stopped" =>
      \E c \in Clients : socket[c].at = "stopping" /\ socket[c].feed = f

FeedInv ==
  /\ FeedType /\ RegisteredFeedIsWatched /\ EntriesAreClients /\ NumbersHeld
  /\ OthersAreStopped

-------------------------------------------------------------------------------
LEMMA FeedInvInit == FeedInit => FeedInv
BY FeedAssumption
   DEF FeedInit, FeedInv, FeedType, RegisteredFeedIsWatched, EntriesAreClients, NumbersHeld,
       OthersAreStopped, Entered, Sockets

\* A client that moves while the registry and the feeds stay.
LEMMA ClientMoves ==
  ASSUME FeedInv, NEW c \in Clients, NEW s \in Sockets, UNCHANGED <<registry, feeds>>,
         socket' = [socket EXCEPT ![c] = s],
         fanout' \subseteq Clients, leaked' \subseteq Clients, leaked \subseteq leaked',
         socket[c].at # "stopping", s.at # "stopping",
         s.at \in Entered <=> socket[c].at \in Entered,
         s.at \notin {"registered", "started"}, s.at = "gone" => c \in leaked'
  PROVE  FeedInv'
<1>1. FeedType'
  BY DEF FeedInv, FeedType
<1>2. \A d \in Clients : socket'[d] = IF d = c THEN s ELSE socket[d]
  BY DEF FeedInv, FeedType
<1>3. RegisteredFeedIsWatched'
  BY DEF FeedInv, RegisteredFeedIsWatched
<1>4. EntriesAreClients'
  BY <1>2 DEF FeedInv, EntriesAreClients
<1>5. NumbersHeld'
  BY <1>2 DEF FeedInv, NumbersHeld
<1>6. OthersAreStopped'
  BY <1>2 DEF FeedInv, OthersAreStopped
<1> QED
  BY <1>1, <1>3, <1>4, <1>5, <1>6 DEF FeedInv

\* Feed f changes, or is new, and the others stay.
FeedChanges(f, thread, callbacks) ==
  /\ Len(feeds') \in {Len(feeds), Len(feeds) + 1} /\ f \in 1..Len(feeds')
  /\ Len(feeds') = Len(feeds) + 1 => f = Len(feeds')
  /\ feeds' \in Seq(Feeds)
  /\ feeds'[f] = [thread |-> thread, callbacks |-> callbacks]
  /\ \A g \in 1..Len(feeds) : g # f => feeds'[g] = feeds[g]

LEMMA FeedTyped ==
  ASSUME FeedType, NEW f \in 1..Len(feeds)
  PROVE  feeds[f] \in Feeds /\ feeds[f].thread \in Threads /\ feeds[f].callbacks \subseteq Clients
<1>1. feeds[f] \in Feeds
  BY DEF FeedType
<1> QED
  BY <1>1 DEF Feeds

LEMMA WithCallbacksChanges ==
  ASSUME FeedType, NEW f \in 1..Len(feeds), NEW callbacks \in SUBSET Clients,
         feeds' = WithCallbacks(f, callbacks)
  PROVE  FeedChanges(f, feeds[f].thread, callbacks) /\ Len(feeds') = Len(feeds)
<1> DEFINE e == [thread |-> feeds[f].thread, callbacks |-> callbacks]
<1>1. e \in Feeds
  BY FeedTyped DEF Feeds
<1>2. feeds' = [feeds EXCEPT ![f] = e] /\ feeds \in Seq(Feeds)
  BY DEF FeedType, WithCallbacks
<1> HIDE DEF e
<1>3. /\ feeds' \in Seq(Feeds) /\ Len(feeds') = Len(feeds)
      /\ \A g \in 1..Len(feeds) : feeds'[g] = IF g = f THEN e ELSE feeds[g]
  BY <1>1, <1>2, ExceptSeq
<1>4. feeds'[f] = e /\ Len(feeds) \in Nat /\ f \in 1..Len(feeds')
  BY <1>2, <1>3
<1>5. Len(feeds') # Len(feeds) + 1
  BY <1>3, <1>4
<1> QED
  BY <1>3, <1>4, <1>5 DEF FeedChanges, e

LEMMA WithThreadChanges ==
  ASSUME FeedType, NEW f \in 1..Len(feeds), NEW thread \in Threads,
         feeds' = WithThread(f, thread)
  PROVE  FeedChanges(f, thread, feeds[f].callbacks) /\ Len(feeds') = Len(feeds)
<1> DEFINE e == [thread |-> thread, callbacks |-> feeds[f].callbacks]
<1>1. e \in Feeds
  BY FeedTyped DEF Feeds
<1>2. feeds' = [feeds EXCEPT ![f] = e] /\ feeds \in Seq(Feeds)
  BY DEF FeedType, WithThread
<1> HIDE DEF e
<1>3. /\ feeds' \in Seq(Feeds) /\ Len(feeds') = Len(feeds)
      /\ \A g \in 1..Len(feeds) : feeds'[g] = IF g = f THEN e ELSE feeds[g]
  BY <1>1, <1>2, ExceptSeq
<1>4. feeds'[f] = e /\ Len(feeds) \in Nat /\ f \in 1..Len(feeds')
  BY <1>2, <1>3
<1>5. Len(feeds') # Len(feeds) + 1
  BY <1>3, <1>4
<1> QED
  BY <1>3, <1>4, <1>5 DEF FeedChanges, e

LEMMA AppendChanges ==
  ASSUME FeedType, NEW callbacks \in SUBSET Clients,
         feeds' = Append(feeds, [thread |-> "new", callbacks |-> callbacks])
  PROVE  FeedChanges(Len(feeds) + 1, "new", callbacks) /\ Len(feeds') = Len(feeds) + 1
BY DEF FeedType, FeedChanges, Feeds, Threads

\* The feeds off the registry and those who stop them are as they were.
LEMMA OthersStay ==
  ASSUME FeedInv, NEW c \in Clients, NEW s, NEW thread, NEW callbacks,
         registry' = registry, FeedChanges(registry, thread, callbacks),
         Len(feeds') = Len(feeds), socket[c].at # "stopping",
         \A d \in Clients : socket'[d] = IF d = c THEN s ELSE socket[d]
  PROVE  OthersAreStopped'
<1> SUFFICES ASSUME NEW f \in 1..Len(feeds), f # registry, feeds'[f].thread # "stopped"
             PROVE  \E d \in Clients : socket'[d].at = "stopping" /\ socket'[d].feed = f
  BY DEF OthersAreStopped
<1>1. PICK d \in Clients : socket[d].at = "stopping" /\ socket[d].feed = f
  BY DEF FeedInv, OthersAreStopped, FeedChanges
<1> QED
  BY <1>1

-------------------------------------------------------------------------------
LEMMA JoinKeepsInv ==
  ASSUME FeedInv, NEW c \in Clients, Join(c)
  PROVE  FeedInv'
<1> DEFINE callbacks == feeds[registry].callbacks \cup {c}
<1>1. FeedType /\ registry \in 1..Len(feeds) /\ registry' = registry
  BY DEF FeedInv, Join, RegisteredFeedIsWatched
<1>2. feeds[registry].callbacks \subseteq Clients
  BY <1>1, FeedTyped
<1>3. FeedChanges(registry, feeds[registry].thread, callbacks) /\ Len(feeds') = Len(feeds)
  BY <1>1, <1>2, WithCallbacksChanges DEF Join
<1>4. \A d \in Clients : socket'[d] = IF d = c THEN [at |-> "watching"] ELSE socket[d]
  BY <1>1 DEF Join, FeedType
<1>5. FeedType'
  BY <1>1, <1>3 DEF FeedType, Join, FeedChanges, Sockets
<1>6. RegisteredFeedIsWatched'
  BY <1>1, <1>3 DEF FeedInv, RegisteredFeedIsWatched, FeedChanges
<1>7. EntriesAreClients'
  BY <1>1, <1>3, <1>4 DEF FeedInv, EntriesAreClients, FeedChanges, Join, Entered
<1>8. NumbersHeld'
  BY <1>1, <1>3, <1>4 DEF FeedInv, NumbersHeld, Join
<1>9. OthersAreStopped'
  BY <1>1, <1>3, <1>4, OthersStay DEF Join
<1> QED
  BY <1>5, <1>6, <1>7, <1>8, <1>9 DEF FeedInv

LEMMA RegisterKeepsInv ==
  ASSUME FeedInv, NEW c \in Clients, Register(c)
  PROVE  FeedInv'
<1> DEFINE n == Len(feeds) + 1
<1>1. FeedType /\ registry = NoFeed /\ registry' = n /\ n \in Nat /\ n # NoFeed
  BY FeedAssumption DEF FeedInv, Register, FeedType
<1>2. FeedChanges(n, "new", {c}) /\ Len(feeds') = n
  BY <1>1, AppendChanges DEF Register
<1>3. \A d \in Clients :
        socket'[d] = IF d = c THEN [at |-> "registered", feed |-> n] ELSE socket[d]
  BY <1>1 DEF Register, FeedType
<1>4. FeedType'
  BY <1>1, <1>2 DEF FeedType, Register, FeedChanges, Sockets
<1>5. RegisteredFeedIsWatched'
  BY <1>1, <1>2 DEF RegisteredFeedIsWatched, FeedChanges
<1>6. EntriesAreClients'
  BY <1>1, <1>2, <1>3 DEF FeedInv, EntriesAreClients, FeedChanges, Entered
<1>7. NumbersHeld'
  <2> SUFFICES ASSUME NEW d \in Clients
               PROVE  /\ socket'[d].at \in {"registered", "started"} => socket'[d].feed = registry'
                      /\ socket'[d].at = "stopping" => /\ socket'[d].feed \in 1..Len(feeds')
                                                       /\ socket'[d].feed # registry'
                      /\ socket'[d].at = "gone" => d \in leaked'
    BY DEF NumbersHeld
  <2>1. CASE d = c
    BY <2>1, <1>1, <1>3
  <2>2. CASE d # c
    <3>1. socket'[d] = socket[d] /\ leaked' = leaked
      BY <2>2, <1>3 DEF Register
    <3>2. socket[d].at \notin {"registered", "started"}
      BY <1>1 DEF FeedInv, EntriesAreClients, Entered
    <3>3. socket[d].at = "stopping" => socket[d].feed \in 1..Len(feeds)
      BY DEF FeedInv, NumbersHeld
    <3>4. Len(feeds) \in Nat
      BY <1>1 DEF FeedType
    <3> QED
      BY <3>1, <3>2, <3>3, <3>4, <1>1, <1>2 DEF FeedInv, NumbersHeld
  <2> QED
    BY <2>1, <2>2
<1>8. OthersAreStopped'
  <2> SUFFICES ASSUME NEW f \in 1..n, f # n, feeds'[f].thread # "stopped"
               PROVE  \E d \in Clients : socket'[d].at = "stopping" /\ socket'[d].feed = f
    BY <1>1, <1>2 DEF OthersAreStopped
  <2>1. f \in 1..Len(feeds) /\ f # registry /\ feeds'[f] = feeds[f]
    BY <1>1, <1>2, FeedAssumption DEF FeedChanges, FeedType
  <2>2. PICK d \in Clients : socket[d].at = "stopping" /\ socket[d].feed = f
    BY <2>1 DEF FeedInv, OthersAreStopped
  <2>3. d # c
    BY <2>2 DEF Register
  <2> QED
    BY <2>2, <2>3, <1>3
<1> QED
  BY <1>4, <1>5, <1>6, <1>7, <1>8 DEF FeedInv

LEMMA StartKeepsInv ==
  ASSUME FeedInv, NEW c \in Clients, StartFeed(c)
  PROVE  FeedInv'
<1>1. FeedType /\ registry' = registry /\ socket[c].feed = registry
  BY DEF FeedInv, StartFeed, NumbersHeld
<1>2. registry \in 1..Len(feeds) /\ registry # NoFeed
  BY DEF FeedInv, StartFeed, EntriesAreClients, Entered, RegisteredFeedIsWatched
<1>3. /\ FeedChanges(registry, "running", feeds[registry].callbacks)
      /\ Len(feeds') = Len(feeds)
  BY <1>1, <1>2, WithThreadChanges DEF StartFeed, Threads
<1>4. \A d \in Clients :
        socket'[d] = IF d = c THEN [at |-> "started", feed |-> registry] ELSE socket[d]
  BY <1>1 DEF StartFeed, FeedType
<1>5. FeedType'
  BY <1>1, <1>2, <1>3 DEF FeedType, StartFeed, FeedChanges, Sockets
<1>6. RegisteredFeedIsWatched'
  BY <1>1, <1>3 DEF FeedInv, RegisteredFeedIsWatched, FeedChanges
<1>7. EntriesAreClients'
  BY <1>1, <1>2, <1>3, <1>4 DEF FeedInv, EntriesAreClients, FeedChanges, StartFeed, Entered
<1>8. NumbersHeld'
  BY <1>1, <1>3, <1>4 DEF FeedInv, NumbersHeld, StartFeed
<1>9. OthersAreStopped'
  BY <1>1, <1>3, <1>4, OthersStay DEF StartFeed
<1> QED
  BY <1>5, <1>6, <1>7, <1>8, <1>9 DEF FeedInv

LEMMA DisconnectKeepsInv ==
  ASSUME FeedInv, NEW c \in Clients, Disconnect(c)
  PROVE  FeedInv'
<1> DEFINE callbacks == feeds[registry].callbacks \ {c}
<1>1. /\ FeedType /\ registry # NoFeed /\ registry \in 1..Len(feeds)
      /\ c \in feeds[registry].callbacks
  BY DEF FeedInv, Disconnect, EntriesAreClients, Entered, RegisteredFeedIsWatched
<1>2. feeds[registry].callbacks \subseteq Clients
  BY <1>1, FeedTyped
<1>3. FeedChanges(registry, feeds[registry].thread, callbacks) /\ Len(feeds') = Len(feeds)
  BY <1>1, <1>2, WithCallbacksChanges, ZenonT(40) DEF Disconnect
<1>4. fanout' = fanout /\ leaked' = leaked
  BY DEF Disconnect
<1>5. CASE callbacks = {}
  <2>1. registry' = NoFeed
    BY <1>1, <1>5 DEF Disconnect, LastLeft
  <2>2. \A d \in Clients :
          socket'[d] = IF d = c THEN [at |-> "stopping", feed |-> registry] ELSE socket[d]
    BY <1>1, <1>5 DEF Disconnect, LastLeft, FeedType
  <2>3. FeedType'
    <3>1. registry \in Nat
      BY <1>1 DEF FeedType
    <3>2. socket' = [socket EXCEPT ![c] = [at |-> "stopping", feed |-> registry]]
      BY <1>1, <1>5 DEF Disconnect, LastLeft
    <3>3. socket' \in [Clients -> Sockets]
      BY <1>1, <3>1, <3>2 DEF FeedType, Sockets
    <3> QED
      BY <1>1, <1>3, <1>4, <2>1, <3>3 DEF FeedType, FeedChanges
  <2>4. \A d \in Clients : d # c => socket[d].at \notin Entered
    BY <1>1, <1>5 DEF FeedInv, EntriesAreClients
  <2>5. RegisteredFeedIsWatched'
    BY <2>1 DEF RegisteredFeedIsWatched
  <2>6. EntriesAreClients'
    BY <2>1, <2>2, <2>4 DEF EntriesAreClients, Entered
  <2>7. NumbersHeld'
    BY <1>1, <1>3, <1>4, <2>1, <2>2, <2>4, FeedAssumption DEF FeedInv, NumbersHeld, Entered
  <2>8. OthersAreStopped'
    <3> SUFFICES ASSUME NEW f \in 1..Len(feeds), feeds'[f].thread # "stopped"
                 PROVE  \E d \in Clients : socket'[d].at = "stopping" /\ socket'[d].feed = f
      BY <1>3 DEF OthersAreStopped
    <3>1. CASE f = registry
      BY <3>1, <2>2
    <3>2. CASE f # registry
      <4>1. PICK d \in Clients : socket[d].at = "stopping" /\ socket[d].feed = f
        BY <3>2, <1>3 DEF FeedInv, OthersAreStopped, FeedChanges
      <4>2. d # c
        BY <4>1 DEF Disconnect
      <4> QED
        BY <4>1, <4>2, <2>2
    <3> QED
      BY <3>1, <3>2
  <2> QED
    BY <2>3, <2>5, <2>6, <2>7, <2>8 DEF FeedInv
<1>6. CASE callbacks # {}
  <2>1. registry' = registry
    BY <1>1, <1>6 DEF Disconnect, LastLeft
  <2>2. \A d \in Clients : socket'[d] = IF d = c THEN [at |-> "out"] ELSE socket[d]
    BY <1>1, <1>6 DEF Disconnect, LastLeft, FeedType
  <2>3. FeedType'
    <3>1. socket' = [socket EXCEPT ![c] = [at |-> "out"]]
      BY <1>1, <1>6 DEF Disconnect, LastLeft
    <3>2. socket' \in [Clients -> Sockets]
      BY <1>1, <3>1 DEF FeedType, Sockets
    <3> QED
      BY <1>1, <1>3, <1>4, <2>1, <3>2 DEF FeedType, FeedChanges
  <2>4. RegisteredFeedIsWatched'
    BY <1>1, <1>3, <1>6, <2>1 DEF FeedInv, RegisteredFeedIsWatched, FeedChanges
  <2>5. EntriesAreClients'
    BY <1>1, <1>3, <2>1, <2>2 DEF FeedInv, EntriesAreClients, FeedChanges, Entered
  <2>6. NumbersHeld'
    BY <1>3, <1>4, <2>1, <2>2 DEF FeedInv, NumbersHeld
  <2>7. OthersAreStopped'
    BY <1>3, <2>1, <2>2, OthersStay DEF Disconnect
  <2> QED
    BY <2>3, <2>4, <2>5, <2>6, <2>7 DEF FeedInv
<1> QED
  BY <1>5, <1>6

LEMMA StopKeepsInv ==
  ASSUME FeedInv, NEW c \in Clients, StopFeed(c)
  PROVE  FeedInv'
<1> DEFINE f == socket[c].feed
<1>1. /\ FeedType /\ registry' = registry /\ f \in 1..Len(feeds) /\ f # registry
  BY DEF FeedInv, StopFeed, NumbersHeld
<1>2. FeedChanges(f, "stopped", feeds[f].callbacks) /\ Len(feeds') = Len(feeds)
  BY <1>1, WithThreadChanges DEF StopFeed, Threads
<1>3. \A d \in Clients : socket'[d] = IF d = c THEN [at |-> "out"] ELSE socket[d]
  BY <1>1 DEF StopFeed, FeedType
<1>4. fanout' = fanout /\ leaked' = leaked /\ socket[c].at = "stopping"
  BY DEF StopFeed
<1> HIDE DEF f
<1>5. FeedType'
  BY <1>1, <1>2, <1>4 DEF FeedType, StopFeed, FeedChanges, Sockets
<1>6. RegisteredFeedIsWatched'
  BY <1>1, <1>2 DEF FeedInv, RegisteredFeedIsWatched, FeedChanges
<1>7. registry # NoFeed => feeds'[registry].callbacks = feeds[registry].callbacks
  BY <1>1, <1>2 DEF FeedInv, RegisteredFeedIsWatched, FeedChanges
<1>8. EntriesAreClients'
  BY <1>1, <1>3, <1>4, <1>7 DEF FeedInv, EntriesAreClients, Entered
<1>9. NumbersHeld'
  BY <1>1, <1>2, <1>3, <1>4 DEF FeedInv, NumbersHeld
<1>10. OthersAreStopped'
  <2> SUFFICES ASSUME NEW g \in 1..Len(feeds), g # registry, feeds'[g].thread # "stopped"
               PROVE  \E d \in Clients : socket'[d].at = "stopping" /\ socket'[d].feed = g
    BY <1>1, <1>2 DEF OthersAreStopped
  <2>1. g # f
    BY <1>2 DEF FeedChanges
  <2>2. PICK d \in Clients : socket[d].at = "stopping" /\ socket[d].feed = g
    BY <2>1, <1>2 DEF FeedInv, OthersAreStopped, FeedChanges
  <2>3. d # c
    BY <2>1, <2>2 DEF f
  <2> QED
    BY <2>2, <2>3, <1>3
<1> QED
  BY <1>5, <1>6, <1>8, <1>9, <1>10 DEF FeedInv

-------------------------------------------------------------------------------
LEMMA FeedInvNext == FeedInv /\ [FeedNext]_feedVars => FeedInv'
<1> SUFFICES ASSUME FeedInv, [FeedNext]_feedVars
             PROVE  FeedInv'
  OBVIOUS
<1>1. ASSUME UNCHANGED <<registry, feeds, socket, leaked>>, fanout' \subseteq Clients
      PROVE  FeedInv'
  BY <1>1 DEF FeedInv, FeedType, RegisteredFeedIsWatched, EntriesAreClients, NumbersHeld,
              OthersAreStopped
<1>2. CASE UNCHANGED feedVars
  BY <1>1, <1>2 DEF feedVars, FeedInv, FeedType
<1>3. CASE Cool
  BY <1>1, <1>3 DEF Cool, FeedInv, FeedType
<1>4. ASSUME NEW f \in 1..Len(feeds), Fanout(f)
      PROVE  FeedInv'
  <2>1. registry # NoFeed => feeds[registry].callbacks \subseteq Clients
    BY FeedTyped DEF FeedInv, RegisteredFeedIsWatched
  <2> QED
    BY <1>1, <1>4, <2>1 DEF Fanout
<1>5. ASSUME NEW c \in Clients,
             \/ Connect(c) \/ ConnectFails(c) \/ Throttled(c)
             \/ Subscribe(c) \/ SubscribeRaises(c)
      PROVE  FeedInv'
  <2>1. /\ fanout \subseteq Clients /\ leaked \subseteq Clients
        /\ \A at \in {"out", "resolved", "watching", "gone"} : [at |-> at] \in Sockets
    BY DEF FeedInv, FeedType, Sockets
  <2>2. CASE Connect(c)
    BY <2>1, <2>2, ClientMoves DEF Connect, Entered
  <2>3. CASE ConnectFails(c)
    BY <2>1, <2>3, ClientMoves DEF ConnectFails, Entered
  <2>4. CASE Throttled(c)
    BY <2>1, <2>4, ClientMoves DEF Throttled, Entered
  <2>5. CASE Subscribe(c)
    BY <2>1, <2>5, ClientMoves DEF Subscribe, Entered
  <2>6. CASE SubscribeRaises(c)
    BY <2>1, <2>6, ClientMoves DEF SubscribeRaises, Entered
  <2> QED
    BY <1>5, <2>2, <2>3, <2>4, <2>5, <2>6
<1>6. ASSUME NEW c \in Clients, OnTick(c) \/ SendTick(c)
      PROVE  FeedInv'
  BY <1>1, <1>6 DEF OnTick, SendTick, FeedInv, FeedType
<1> QED
  BY <1>2, <1>3, <1>4, <1>5, <1>6, JoinKeepsInv, RegisterKeepsInv, StartKeepsInv,
     DisconnectKeepsInv, StopKeepsInv DEF FeedNext

\* One upstream feed lives exactly as long as somebody watches it
\* (feed_registry.py), for any number of clients that come, fail and leave.
THEOREM OneFeedForAll == FeedSpec => []FeedFollowsWatchers
<1>1. FeedInv => FeedFollowsWatchers
  <2> SUFFICES ASSUME FeedInv
               PROVE  FeedFollowsWatchers
    OBVIOUS
  <2>1. ASSUME NEW c \in Clients, socket[c].at = "watching"
        PROVE  /\ registry # NoFeed /\ c \in feeds[registry].callbacks
               /\ feeds[registry].thread # "stopped"
    BY <2>1 DEF FeedInv, EntriesAreClients, Entered, RegisteredFeedIsWatched
  <2>2. ASSUME leaked = {}, \A c \in Clients : socket[c].at \in {"out", "resolved"}
        PROVE  registry = NoFeed /\ \A f \in 1..Len(feeds) : feeds[f].thread = "stopped"
    <3>1. registry = NoFeed
      <4> SUFFICES ASSUME registry # NoFeed
                   PROVE  FALSE
        OBVIOUS
      <4>1. PICK c \in feeds[registry].callbacks : TRUE
        BY DEF FeedInv, RegisteredFeedIsWatched
      <4>2. c \in Clients
        BY <4>1, FeedTyped DEF FeedInv, RegisteredFeedIsWatched
      <4> QED
        BY <4>1, <4>2, <2>2 DEF FeedInv, EntriesAreClients, Entered
    <3>2. \A f \in 1..Len(feeds) : f # registry
      BY <3>1, FeedAssumption DEF FeedInv, FeedType
    <3> QED
      BY <3>1, <3>2, <2>2 DEF FeedInv, OthersAreStopped
  <2> QED
    BY <2>1, <2>2 DEF FeedFollowsWatchers
<1> QED
  BY <1>1, FeedInvInit, FeedInvNext, PTL DEF FeedSpec

-------------------------------------------------------------------------------
(* Instruments: the inductive invariant                                        *)

\* Who is there holds _load_lock.
Loading == {"downloading", "writing", "parsing", "sorting"}
Desks ==
  Loading \cup {"idle", "answered", "asserted", "empty", "raised", "waiting", "forced", "loaded"}

MasterType ==
  /\ published \in Nat
  /\ file \in [state : {"missing", "partial", "whole"}, version : Nat, fresh : BOOLEAN]
  /\ cache \in Nat \cup {NotLoaded}
  /\ lists \in Nat \cup {NotLoaded}
  /\ loading \in Readers \cup {NotLoaded}
  /\ reader \in [Readers -> Desks]

OneLoads == \A t \in Readers : reader[t] \in Loading <=> loading = t

\* Memory is as old as a whole file, and the names are of the contracts unless
\* somebody is about to sort them.
MemoryIsCurrent ==
  /\ cache # NotLoaded /\ file.state = "whole" => cache = file.version
  /\ cache # NotLoaded /\ (\A t \in Readers : reader[t] # "sorting") => lists = cache

\* Contracts are missing under a reader only while a whole file is being parsed.
Promised ==
  \A t \in Readers :
    /\ reader[t] = "parsing" => cache = NotLoaded
    /\ reader[t] = "sorting" => cache # NotLoaded
    /\ reader[t] = "loaded" /\ cache = NotLoaded =>
         /\ loading # NotLoaded /\ reader[loading] = "parsing"
         /\ file.state = "whole"

MasterInv == MasterType /\ OneLoads /\ MemoryIsCurrent /\ Promised

-------------------------------------------------------------------------------
LEMMA MasterInvInit == MasterInit => MasterInv
BY MasterAssumption
   DEF MasterInit, MasterInv, MasterType, OneLoads, MemoryIsCurrent, Promised, Desks, Loading

\* A reader that only moves on, outside the lock.
LEMMA MovesOutside ==
  ASSUME MasterInv, NEW t \in Readers, NEW at \in Desks \ Loading,
         reader[t] \notin Loading, Goes(t, at),
         UNCHANGED <<published, file, cache, lists, loading>>,
         at = "loaded" => cache # NotLoaded
  PROVE  MasterInv'
<1>1. MasterType'
  BY DEF MasterInv, MasterType, Goes
<1>2. \A u \in Readers : reader'[u] = IF u = t THEN at ELSE reader[u]
  BY DEF MasterInv, MasterType, Goes
<1>3. OneLoads'
  BY <1>2 DEF MasterInv, OneLoads
<1>4. MemoryIsCurrent'
  BY <1>2 DEF MasterInv, MemoryIsCurrent, Loading
<1>5. Promised'
  BY <1>2 DEF MasterInv, MasterType, Promised, Loading
<1>6. QED
  BY <1>1, <1>3, <1>4, <1>5 DEF MasterInv

\* A reader that gives up the lock, with what it read in memory or without.
LEMMA GivesUp ==
  ASSUME MasterInv, NEW t \in Readers, reader[t] \in Loading, Leaves(t, "raised"),
         UNCHANGED <<published, file, cache, lists>>,
         reader[t] # "sorting", reader[t] = "parsing" => file.state # "whole"
  PROVE  MasterInv'
<1>1. MasterType'
  BY DEF MasterInv, MasterType, Leaves, Goes, Desks
<1>2. /\ \A u \in Readers : reader'[u] = IF u = t THEN "raised" ELSE reader[u]
      /\ loading = t /\ loading' = NotLoaded
  BY DEF MasterInv, MasterType, OneLoads, Leaves, Goes
<1>3. OneLoads'
  BY <1>2, MasterAssumption DEF MasterInv, OneLoads, Loading
<1>4. MemoryIsCurrent'
  BY <1>2 DEF MasterInv, MemoryIsCurrent, OneLoads, Loading
<1>5. Promised'
  BY <1>2 DEF MasterInv, MasterType, Promised, OneLoads, Loading
<1>6. QED
  BY <1>1, <1>3, <1>4, <1>5 DEF MasterInv

LEMMA MasterInvStep == MasterInv /\ [MasterNext]_masterVars => MasterInv'
<1> SUFFICES ASSUME MasterInv, [MasterNext]_masterVars PROVE MasterInv'
  OBVIOUS
<1> USE MasterAssumption
<1>1. ASSUME NEW t \in Readers, Call(t) PROVE MasterInv'
  BY <1>1, MovesOutside DEF Call, Desks, Loading
<1>2. ASSUME NEW t \in Readers, RefreshNow(t) PROVE MasterInv'
  BY <1>2, MovesOutside DEF RefreshNow, Desks, Loading
<1>3. ASSUME NEW t \in Readers, TakeLoadLock(t) PROVE MasterInv'
  <2>1. CASE loading' = t
    <3>1. PICK at \in {"downloading", "parsing"} :
            Goes(t, at) /\ (at = "parsing" => cache = NotLoaded)
      BY <1>3, <2>1 DEF TakeLoadLock
    <3>2. loading = NotLoaded /\ UNCHANGED <<published, file, cache, lists>>
      BY <1>3 DEF TakeLoadLock
    <3>3. \A u \in Readers : reader'[u] = IF u = t THEN at ELSE reader[u]
      BY <3>1 DEF MasterInv, MasterType, Goes
    <3>4. MasterType'
      BY <2>1, <3>1, <3>2 DEF MasterInv, MasterType, Goes, Desks, Loading
    <3>5. OneLoads'
      BY <2>1, <3>1, <3>2, <3>3 DEF MasterInv, OneLoads, Loading
    <3>6. \A u \in Readers : reader[u] \notin Loading
      BY <3>2 DEF MasterInv, OneLoads
    <3>7. MemoryIsCurrent'
      BY <3>1, <3>2, <3>3, <3>6 DEF MasterInv, MemoryIsCurrent, Loading
    <3>8. Promised'
      BY <3>1, <3>2, <3>3, <3>6 DEF MasterInv, Promised, Loading
    <3>9. QED
      BY <3>4, <3>5, <3>7, <3>8 DEF MasterInv
  <2>2. CASE loading' # t
    BY <1>3, <2>2, MovesOutside DEF TakeLoadLock, Desks, Loading
  <2>3. QED
    BY <2>1, <2>2
<1>4. ASSUME NEW t \in Readers, DownloadFails(t) PROVE MasterInv'
  BY <1>4, GivesUp DEF DownloadFails, Loading
<1>5. ASSUME NEW t \in Readers, WriteFile(t) PROVE MasterInv'
  <2>1. \A u \in Readers : reader'[u] = IF u = t THEN "writing" ELSE reader[u]
    BY <1>5 DEF WriteFile, Goes, MasterInv, MasterType
  <2>2. MasterType'
    BY <1>5 DEF WriteFile, Goes, MasterInv, MasterType, Desks, Loading
  <2>3. OneLoads'
    BY <1>5, <2>1 DEF WriteFile, MasterInv, OneLoads, Loading
  <2>4. MemoryIsCurrent'
    BY <1>5, <2>1 DEF WriteFile, MasterInv, MemoryIsCurrent
  <2>5. reader[t] \in Loading /\ loading = t
    BY <1>5 DEF WriteFile, MasterInv, OneLoads, Loading
  <2>6. Promised'
    BY <1>5, <2>1, <2>5 DEF WriteFile, MasterInv, Promised
  <2>7. QED
    BY <2>2, <2>3, <2>4, <2>6 DEF MasterInv
<1>6. ASSUME NEW t \in Readers, WriteFails(t) PROVE MasterInv'
  BY <1>6, GivesUp DEF WriteFails, Loading
<1>7. ASSUME NEW t \in Readers, WriteDone(t) PROVE MasterInv'
  <2>1. /\ cache' = NotLoaded /\ loading' = t /\ Goes(t, "parsing")
        /\ file' = [file EXCEPT !.state = "whole"]
        /\ UNCHANGED <<published, lists>>
    BY <1>7 DEF WriteDone, AfterDownload
  <2>2. \A u \in Readers : reader'[u] = IF u = t THEN "parsing" ELSE reader[u]
    BY <2>1 DEF Goes, MasterInv, MasterType
  <2>3. MasterType'
    BY <2>1 DEF Goes, MasterInv, MasterType, Desks, Loading
  <2>4. reader[t] \in Loading /\ loading = t
    BY <1>7 DEF WriteDone, MasterInv, OneLoads, Loading
  <2>5. OneLoads'
    BY <2>1, <2>2, <2>4 DEF MasterInv, OneLoads, Loading
  <2>6. MemoryIsCurrent'
    BY <2>1 DEF MemoryIsCurrent
  <2>7. file'.state = "whole"
    BY <2>1 DEF MasterInv, MasterType
  <2>8. \A u \in Readers : u # t => reader[u] \notin Loading
    BY <2>4 DEF MasterInv, OneLoads
  <2>9. Promised'
    BY <2>1, <2>2, <2>7, <2>8 DEF Promised, Loading
  <2>10. QED
    BY <2>3, <2>5, <2>6, <2>9 DEF MasterInv
<1>8. ASSUME NEW t \in Readers, Parse(t) PROVE MasterInv'
  <2>1. \A u \in Readers : reader'[u] = IF u = t THEN "sorting" ELSE reader[u]
    BY <1>8 DEF Parse, Goes, MasterInv, MasterType
  <2>2. MasterType'
    BY <1>8 DEF Parse, Goes, MasterInv, MasterType, Desks, Loading
  <2>3. reader[t] \in Loading /\ \A u \in Readers : u # t => reader[u] \notin Loading
    BY <1>8 DEF Parse, MasterInv, OneLoads, Loading
  <2>4. OneLoads'
    BY <1>8, <2>1 DEF Parse, MasterInv, OneLoads, Loading
  <2>5. MemoryIsCurrent'
    BY <1>8, <2>1 DEF Parse, MemoryIsCurrent
  <2>6. cache' # NotLoaded
    BY <1>8 DEF Parse, MasterInv, MasterType
  <2>7. Promised'
    BY <2>1, <2>3, <2>6 DEF Promised, Loading
  <2>8. QED
    BY <2>2, <2>4, <2>5, <2>7 DEF MasterInv
<1>9. ASSUME NEW t \in Readers, ParseFails(t) PROVE MasterInv'
  BY <1>9, GivesUp DEF ParseFails, Loading
<1>10. ASSUME NEW t \in Readers, SortNames(t) PROVE MasterInv'
  <2>1. \A u \in Readers : reader'[u] = IF u = t THEN "loaded" ELSE reader[u]
    BY <1>10 DEF SortNames, Leaves, Goes, MasterInv, MasterType
  <2>2. MasterType'
    BY <1>10 DEF SortNames, Leaves, Goes, MasterInv, MasterType, Desks
  <2>3. reader[t] \in Loading /\ \A u \in Readers : u # t => reader[u] \notin Loading
    BY <1>10 DEF SortNames, MasterInv, OneLoads, Loading
  <2>4. OneLoads'
    BY <1>10, <2>1, <2>3 DEF SortNames, Leaves, OneLoads, Loading
  <2>5. MemoryIsCurrent'
    BY <1>10 DEF SortNames, MasterInv, MemoryIsCurrent
  <2>6. cache' # NotLoaded
    BY <1>10 DEF SortNames, MasterInv, Promised
  <2>7. Promised'
    BY <2>1, <2>3, <2>6 DEF Promised, Loading
  <2>8. QED
    BY <2>2, <2>4, <2>5, <2>7 DEF MasterInv
<1>11. ASSUME NEW t \in Readers, ListNames(t) \/ ListContracts(t) PROVE MasterInv'
  BY <1>11, MovesOutside DEF ListNames, ListContracts, Desks, Loading
<1>12. ASSUME NextDay PROVE MasterInv'
  <2>1. file' = [file EXCEPT !.fresh = FALSE] /\ published' = published + 1
        /\ UNCHANGED <<cache, lists, loading, reader>>
    BY <1>12 DEF NextDay
  <2>2. file \in [state : {"missing", "partial", "whole"}, version : Nat, fresh : BOOLEAN]
    BY DEF MasterInv, MasterType
  <2>3. /\ file' = [state |-> file.state, version |-> file.version, fresh |-> FALSE]
        /\ file.state \in {"missing", "partial", "whole"} /\ file.version \in Nat
    BY <2>1, <2>2
  <2>4. file' \in [state : {"missing", "partial", "whole"}, version : Nat, fresh : BOOLEAN]
    BY <2>3
  <2>5. file'.state = file.state /\ file'.version = file.version
    BY <2>3
  <2>6. published' \in Nat
    BY <2>1 DEF MasterInv, MasterType
  <2>7. MasterType'
    BY <2>1, <2>4, <2>6 DEF MasterInv, MasterType
  <2>8. QED
    BY <2>1, <2>5, <2>7 DEF MasterInv, OneLoads, MemoryIsCurrent, Promised
<1>13. ASSUME ProcessRestarts PROVE MasterInv'
  <2>1. /\ cache' = NotLoaded /\ lists' = NotLoaded /\ loading' = NotLoaded
        /\ reader' = [t \in Readers |-> "idle"] /\ UNCHANGED <<published, file>>
    BY <1>13 DEF ProcessRestarts
  <2>2. MasterType'
    BY <2>1 DEF MasterInv, MasterType, Desks
  <2>3. OneLoads' /\ MemoryIsCurrent' /\ Promised'
    BY <2>1 DEF OneLoads, MemoryIsCurrent, Promised, Loading
  <2>4. QED
    BY <2>2, <2>3 DEF MasterInv
<1>14. CASE UNCHANGED masterVars
  BY <1>14 DEF masterVars, MasterInv, MasterType, OneLoads, MemoryIsCurrent, Promised
<1>15. QED
  BY <1>1, <1>2, <1>3, <1>4, <1>5, <1>6, <1>7, <1>8, <1>9, <1>10, <1>11, <1>12, <1>13, <1>14
     DEF MasterNext

LEMMA MemoryKept == MasterInv => MemoryFollowsFile
BY MasterAssumption
   DEF MasterInv, MasterType, OneLoads, MemoryIsCurrent, Promised, MemoryFollowsFile, Loading

\* Whatever readers, downloads, failures and restarts interleave, memory and file
\* agree whenever nobody loads.
THEOREM MemoryIsTheFile == MasterSpec => []MemoryFollowsFile
<1>1. MasterSpec => []MasterInv
  BY MasterInvInit, MasterInvStep, PTL DEF MasterSpec
<1>2. QED
  BY <1>1, MemoryKept, PTL
===============================================================================
