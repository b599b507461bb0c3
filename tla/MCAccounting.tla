----------------------------- MODULE MCAccounting -----------------------------
(* A small instance of Accounting for TLC. *)
EXTENDS Accounting, TLC

\* The legs of a strategy, and the equity curve of the primary book.
Cached == {"legs", "curve"}
Scope(v) == IF v = "legs" THEN "st" ELSE "primary"
Kind(v) == IF v = "legs" THEN "account" ELSE "equity_curve"

\* A buy, a sale that flips it, and a clone for a sub-account whose partial fill
\* reduces it and may be cancelled; and a symbol without recorded prices.
Orders ==
  {Row(None, "st", "a", "buy", 2, 2, 6, "filled", 0),
   Row("sub", "st", "a", "sell", 3, 1, 12, "partially_filled", 0),
   Row(None, None, "a", "sell", 3, 3, 12, "filled", 0),
   Row(None, None, "b", "buy", 1, 1, 5, "filled", 0)}

Symmetry == Permutations(Threads)

\* Each order is inserted once, the one of "b" first of all; the last one, and
\* every question for the legs, comes before time passes.  Time passes, or the
\* server restarts for good, while one thread at most is at work, on the curve;
\* the market is two beats late at most, one once there are two orders, and is
\* started again once, after its first step.
Few ==
  /\ \A i, j \in DOMAIN rows' :
       [rows'[i] EXCEPT !.at = 0, !.status = ""] = [rows'[j] EXCEPT !.at = 0, !.status = ""]
         => i = j
  /\ \A i \in DOMAIN rows' : rows'[i].symbol = "b" => i = 1
  /\ clock > 0 =>
       /\ Len(rows') < 3 \/ rows' = rows
       /\ \A t \in Threads : thread'[t].op = "asking" => thread'[t].view = "curve"
  /\ time' # time =>
       /\ skew' <= 2 /\ skew' + Len(rows) <= 3 /\ Len(rows) < 3
       /\ \E t \in Threads :
            /\ \A u \in Threads \ {t} : thread[u] = Idle
            /\ thread[t] = Idle \/ (thread[t].op # "inserting" /\ thread[t].view = "curve")
  /\ booted' # booted => step = 1 /\ booted = 0

Prices == [s \in Symbols |-> IF s = "a" THEN <<6, 7, 12, 16>> ELSE <<>>]
===============================================================================
