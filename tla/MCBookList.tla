----------------------------- MODULE MCBookList -----------------------------
(* A small instance of BookList for TLC. *)
EXTENDS BookList

\* Limit orders three ticks apart, so that words and summaries empty out, two
\* lots from one owner and one from the other, and one kind of stop a side.
ListOrders ==
  {o \in [owner : Owners, side : Sides, type : {"limit"}, px : {2, 5}, stop : {0},
          qty : {1, 2}, tif : {"GTC"}] : o.owner = o.qty}
    \cup {o \in [owner : {1}, side : Sides, type : {"stop_limit"}, px : {2, 5}, stop : {4},
                 qty : {1}, tif : {"GTC"}] : o.side = "buy" <=> o.px = 5}

\* Callers number their orders 1, 2, 3, ... and never reuse a number.
NumberedIds ==
  accepted' > accepted =>
    \A i \in (DOMAIN live' \ DOMAIN live) \cup (IF phase' = "match" THEN {cur'.id} ELSE {}) :
      i = accepted'
=============================================================================
